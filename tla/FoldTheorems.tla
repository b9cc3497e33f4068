---------------------------- MODULE FoldTheorems ----------------------------
(***************************************************************************)
(* What is needed to reason about FoldLeft, whose definition recurs over   *)
(* the sets of positions of a sequence: induction over the naturals, for   *)
(* sets in place of predicates, and the existence of the function that the *)
(* definition chooses, for steps that are functions and not operators.     *)
(***************************************************************************)
EXTENDS Integers, Sequences, SequencesExt, WellFoundedInduction, TLAPS

\* The naturals are the only set of naturals that contains 0 and successors.
LEMMA Induction ==
  ASSUME NEW T, 0 \in T, \A n \in Nat : n \in T => n + 1 \in T
  PROVE  Nat \subseteq T
<1> SUFFICES ASSUME Nat \ T # {} PROVE FALSE
  OBVIOUS
<1>1. PICK x \in Nat \ T : \A y \in Nat \ T : <<y, x>> \notin OpToRel(<, Nat)
  BY NatLessThanWellFounded, WFMin
<1>2. x - 1 \in Nat /\ x - 1 < x
  BY SMT
<1>3. <<x - 1, x>> \in OpToRel(<, Nat)
  BY <1>2 DEF OpToRel
<1>4. x - 1 \in T
  BY <1>1, <1>2, <1>3
<1>5. x \in T
  BY <1>2, <1>4
<1> QED
  BY <1>5

\* A set of positions has a last one.
LEMMA MaxOf ==
  ASSUME NEW n \in Nat, NEW s \in SUBSET (1..n), s # {}
  PROVE  Max(s) \in s /\ \A i \in s : i <= Max(s)
<1> DEFINE T == {m \in Nat : \A r \in SUBSET (1..m) :
                   r # {} => \E x \in r : \A i \in r : x >= i}
<1>1. 0 \in T
  <2>1. 1..0 = {}
    OBVIOUS
  <2> QED
    BY <2>1
<1>2. ASSUME NEW m \in Nat, m \in T PROVE m + 1 \in T
  <2> SUFFICES ASSUME NEW r \in SUBSET (1..(m + 1)), r # {}
               PROVE  \E x \in r : \A i \in r : x >= i
    BY SMT
  <2>1. CASE m + 1 \in r
    BY <2>1
  <2>2. CASE m + 1 \notin r
    <3>1. r \in SUBSET (1..m)
      BY <2>2
    <3> QED
      BY <1>2, <3>1
  <2> QED
    BY <2>1, <2>2
<1> HIDE DEF T
<1>3. n \in T
  BY <1>1, <1>2, Induction
<1>4. \E x \in s : \A i \in s : x >= i
  BY <1>3 DEF T
<1>5. Max(s) \in s /\ \A i \in s : Max(s) >= i
  BY <1>4 DEF Max
<1> QED
  BY <1>5

\* The recursion of a fold over sets of positions.
Recurs(g, n, base, step) ==
  \A s \in SUBSET (1..n) :
    g[s] = IF s = {} THEN base ELSE step[Max(s)][g[s \ {Max(s)}]]

\* Every fold has its function.
LEMMA FoldExists ==
  ASSUME NEW S, NEW base \in S, NEW n \in Nat, NEW step \in [1..n -> [S -> S]]
  PROVE  \E g \in [SUBSET (1..n) -> S] : Recurs(g, n, base, step)
<1> DEFINE T == {m \in Nat : m <= n =>
                   \E g \in [SUBSET (1..m) -> S] : Recurs(g, m, base, step)}
<1>1. 0 \in T
  <2> DEFINE g == [s \in SUBSET (1..0) |-> base]
  <2>1. g \in [SUBSET (1..0) -> S] /\ Recurs(g, 0, base, step)
    BY DEF Recurs
  <2> QED
    BY <2>1
<1>2. ASSUME NEW m \in Nat, m \in T PROVE m + 1 \in T
  <2>0. m + 1 \in Nat /\ (m + 1 <= n => m <= n)
    BY SMT
  <2> SUFFICES ASSUME m + 1 <= n
               PROVE  \E h \in [SUBSET (1..(m + 1)) -> S] : Recurs(h, m + 1, base, step)
    BY <2>0, Zenon
  <2>1. PICK g \in [SUBSET (1..m) -> S] : Recurs(g, m, base, step)
    BY <1>2, <2>0, Zenon
  <2> DEFINE h == [s \in SUBSET (1..(m + 1)) |->
                     IF m + 1 \in s THEN step[m + 1][g[s \ {m + 1}]] ELSE g[s]]
  <2>2. \A s \in SUBSET (1..(m + 1)) :
          /\ s \ {m + 1} \in SUBSET (1..m)
          /\ m + 1 \notin s => s \in SUBSET (1..m)
    OBVIOUS
  <2>3. m + 1 \in 1..n
    OBVIOUS
  <2>4. h \in [SUBSET (1..(m + 1)) -> S]
    BY <2>2, <2>3
  <2>5. ASSUME NEW s \in SUBSET (1..(m + 1))
        PROVE  h[s] = IF s = {} THEN base ELSE step[Max(s)][h[s \ {Max(s)}]]
    <3>1. CASE m + 1 \in s
      <4>1. m + 1 \in Nat
        OBVIOUS
      <4>2. Max(s) \in s /\ \A i \in s : i <= Max(s)
        BY <3>1, <4>1, MaxOf
      <4>3. Max(s) = m + 1
        <5>1. Max(s) \in 1..(m + 1) /\ m + 1 <= Max(s)
          BY <3>1, <4>2
        <5> QED
          BY <5>1
      <4>4. h[s \ {m + 1}] = g[s \ {m + 1}]
        BY <2>2
      <4> QED
        BY <3>1, <4>3, <4>4
    <3>2. CASE m + 1 \notin s
      <4>1. s \in SUBSET (1..m) /\ h[s] = g[s]
        BY <2>2, <3>2
      <4>2. h[s \ {Max(s)}] = g[s \ {Max(s)}]
        BY <3>2, <4>1
      <4> QED
        BY <2>1, <4>1, <4>2 DEF Recurs
    <3> QED
      BY <3>1, <3>2
  <2> HIDE DEF h
  <2>6. Recurs(h, m + 1, base, step)
    BY <2>5 DEF Recurs
  <2> QED
    BY <2>4, <2>6
<1> HIDE DEF T
<1>3. n \in T /\ n <= n
  BY <1>1, <1>2, Induction
<1> QED
  BY <1>3, Zenon DEF T

\* The positions so far, and the last of them.
LEMMA Positions ==
  ASSUME NEW n \in Nat, NEW k \in 1..n
  PROVE  /\ 1..k \in SUBSET (1..n) /\ 1..k # {} /\ Max(1..k) = k
         /\ (1..k) \ {k} = 1..(k - 1)
<1>1. k \in Nat /\ k \in 1..k /\ 1..k \in SUBSET (1..n)
  OBVIOUS
<1>2. Max(1..k) \in 1..k /\ \A i \in 1..k : i <= Max(1..k)
  BY <1>1, MaxOf
<1>3. Max(1..k) = k
  BY <1>1, <1>2
<1>4. (1..k) \ {k} = 1..(k - 1)
  OBVIOUS
<1> QED
  BY <1>1, <1>3, <1>4

\* A function that a fold may have chosen: typed values are stepped from.
Chosen(g, n, S, base, step) ==
  /\ g[{}] = base
  /\ \A s \in SUBSET (1..n) :
       s # {} /\ g[s \ {Max(s)}] \in S => g[s] = step[Max(s)][g[s \ {Max(s)}]]

\* The values of a fold at the positions, one by one.
Walks(f, g, n, base, step) ==
  /\ f[0] = base /\ f[n] = g[1..n]
  /\ \A k \in 1..n : f[k] = step[k][f[k - 1]]

\* It goes through the positions one by one, and keeps the type of the steps.
LEMMA FoldSteps ==
  ASSUME NEW S, NEW base \in S, NEW n \in Nat, NEW step \in [1..n -> [S -> S]],
         NEW g, Chosen(g, n, S, base, step)
  PROVE  \E f \in [0..n -> S] : Walks(f, g, n, base, step)
<1> DEFINE f == [k \in 0..n |-> g[1..k]]
           T == {k \in Nat : k <= n => f[k] \in S}
<1>1. f[0] = base
  <2>1. 1..0 = {} /\ 0 \in 0..n
    OBVIOUS
  <2> QED
    BY <2>1 DEF Chosen
<1>2. ASSUME NEW k \in 1..n, f[k - 1] \in S
      PROVE  f[k] = step[k][f[k - 1]] /\ f[k] \in S
  <2>1. 1..k \in SUBSET (1..n) /\ 1..k # {} /\ Max(1..k) = k /\ (1..k) \ {k} = 1..(k - 1)
    BY Positions
  <2>2. f[k] = g[1..k] /\ f[k - 1] = g[1..(k - 1)]
    BY SMT
  <2>3. f[k] = step[k][f[k - 1]]
    BY <1>2, <2>1, <2>2 DEF Chosen
  <2> QED
    BY <1>2, <2>3
<1>3. 0 \in T
  BY <1>1
<1>4. ASSUME NEW k \in Nat, k \in T PROVE k + 1 \in T
  <2>1. CASE k + 1 <= n
    <3>1. k + 1 \in 1..n /\ (k + 1) - 1 = k /\ k <= n
      BY <2>1
    <3> HIDE DEF f
    <3> QED
      BY <1>2, <1>4, <3>1
  <2>2. CASE ~(k + 1 <= n)
    BY <2>2
  <2> QED
    BY <2>1, <2>2
<1> HIDE DEF T
<1>5. Nat \subseteq T
  BY <1>3, <1>4, Induction
<1>6. \A k \in 0..n : f[k] \in S
  <2> HIDE DEF f
  <2> QED
    BY <1>5 DEF T
<1>7. f \in [0..n -> S] /\ f[n] = g[1..n]
  BY <1>6
<1>8. \A k \in 1..n : f[k] = step[k][f[k - 1]]
  <2>1. \A k \in 1..n : k - 1 \in 0..n
    OBVIOUS
  <2> QED
    BY <1>2, <1>6, <2>1
<1> QED
  BY <1>1, <1>7, <1>8 DEF Walks
-----------------------------------------------------------------------------
\* The recursion of a function on the naturals.
Iterates(f, base, step) ==
  /\ f[0] = base
  /\ \A n \in Nat : f[n + 1] = step[f[n]]

\* Every step on a type can be iterated.
LEMMA IterateExists ==
  ASSUME NEW S, NEW base \in S, NEW step \in [S -> S]
  PROVE  \E f \in [Nat -> S] : Iterates(f, base, step)
<1> DEFINE Is(n, g) == /\ g \in [0..n -> S] /\ g[0] = base
                       /\ \A i \in 1..n : g[i] = step[g[i - 1]]
           T == {n \in Nat : \E g : Is(n, g)}
<1>1. 0 \in T
  <2>1. Is(0, [i \in 0..0 |-> base])
    OBVIOUS
  <2> QED
    BY <2>1
<1>2. ASSUME NEW n \in Nat, n \in T PROVE n + 1 \in T
  <2>1. PICK g : Is(n, g)
    BY <1>2
  <2> DEFINE h == [i \in 0..(n + 1) |-> IF i = n + 1 THEN step[g[n]] ELSE g[i]]
  <2>2. h \in [0..(n + 1) -> S] /\ h[0] = base
    BY <2>1
  <2>3. ASSUME NEW i \in 1..(n + 1) PROVE h[i] = step[h[i - 1]]
    <3>1. CASE i = n + 1
      <4>1. h[i] = step[g[n]] /\ h[i - 1] = g[n]
        BY <3>1
      <4> QED
        BY <4>1
    <3>2. CASE i # n + 1
      <4>1. i \in 1..n /\ h[i] = g[i] /\ h[i - 1] = g[i - 1]
        BY <3>2
      <4> QED
        BY <2>1, <4>1
    <3> QED
      BY <3>1, <3>2
  <2> HIDE DEF h
  <2>4. Is(n + 1, h)
    BY <2>2, <2>3
  <2> QED
    BY <2>4
<1>3. \A n \in Nat : \E g : Is(n, g)
  <2> HIDE DEF T
  <2>1. Nat \subseteq T
    BY <1>1, <1>2, Induction
  <2> QED
    BY <2>1 DEF T
<1> DEFINE U == {n \in Nat : \A g, h : \A m, k \in Nat :
                   m >= n /\ k >= n /\ Is(m, g) /\ Is(k, h) => g[n] = h[n]}
<1>4. 0 \in U
  OBVIOUS
<1>5. ASSUME NEW n \in Nat, n \in U PROVE n + 1 \in U
  <2> SUFFICES ASSUME NEW g, NEW h, NEW m \in Nat, NEW k \in Nat,
                      m >= n + 1, k >= n + 1, Is(m, g), Is(k, h)
               PROVE  g[n + 1] = h[n + 1]
    <3>1. n + 1 \in Nat
      OBVIOUS
    <3> HIDE DEF Is
    <3> QED
      BY <3>1
  <2>1. n + 1 \in 1..m /\ n + 1 \in 1..k /\ (n + 1) - 1 = n /\ m >= n /\ k >= n
    BY SMT
  <2>2. g[n] = h[n]
    BY <1>5, <2>1
  <2> QED
    BY <2>1, <2>2
<1>6. \A n \in Nat : n \in U
  <2> HIDE DEF U
  <2> QED
    BY <1>4, <1>5, Induction
<1> DEFINE G(n) == CHOOSE g : Is(n, g)
           f == [n \in Nat |-> G(n)[n]]
<1>7. \A n \in Nat : Is(n, G(n))
  BY <1>3, Zenon
<1>8. f \in [Nat -> S]
  <2> HIDE DEF G
  <2>1. \A n \in Nat : n \in 0..n
    OBVIOUS
  <2> QED
    BY <1>7, <2>1
<1>9. f[0] = base
  BY <1>7
<1>10. ASSUME NEW n \in Nat PROVE f[n + 1] = step[f[n]]
  <2> HIDE DEF G
  <2>1. /\ n + 1 \in Nat /\ n + 1 \in 1..(n + 1) /\ (n + 1) - 1 = n
        /\ n + 1 >= n /\ n >= n
    OBVIOUS
  <2>2. Is(n, G(n)) /\ Is(n + 1, G(n + 1)) /\ n \in U
    BY <1>6, <1>7, <2>1
  <2>3. G(n + 1)[n + 1] = step[G(n + 1)[n]]
    BY <2>1, <2>2
  <2>4. G(n + 1)[n] = G(n)[n]
    <3> HIDE DEF Is
    <3> QED
      BY <2>1, <2>2
  <2> QED
    BY <2>1, <2>3, <2>4
<1> HIDE DEF f
<1> QED
  BY <1>8, <1>9, <1>10 DEF Iterates
=============================================================================
