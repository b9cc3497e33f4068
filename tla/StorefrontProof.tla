--------------------------- MODULE StorefrontProof ---------------------------
(***************************************************************************)
(* Amounts, keys and sessions for any scopes, orders, carts and numbers of *)
(* visits, any exponents and any width of the integers.                    *)
(***************************************************************************)
EXTENDS Storefront, FoldTheorems

-----------------------------------------------------------------------------
(***************************************************************************)
(* What digits spell.                                                      *)
(***************************************************************************)
LEMMA PowerIs ==
  /\ PowerOf10 \in [Nat -> Nat]
  /\ PowerOf10[0] = 1
  /\ \A n \in Nat : PowerOf10[n + 1] = 10 * PowerOf10[n]
<1> DEFINE step == [m \in Nat |-> 10 * m]
           Eq(f) == f = [n \in Nat |-> IF n = 0 THEN 1 ELSE 10 * f[n - 1]]
<1>1. step \in [Nat -> Nat] /\ 1 \in Nat
  OBVIOUS
<1>2. PICK f \in [Nat -> Nat] : Iterates(f, 1, step)
  <2> HIDE DEF step
  <2>1. ASSUME NEW base \in Nat PROVE \E f \in [Nat -> Nat] : Iterates(f, base, step)
    BY <1>1, IterateExists, Zenon
  <2> QED
    BY <1>1, <2>1, Zenon
<1>3. Eq(f)
  <2>1. \A n \in Nat : f[n] = IF n = 0 THEN 1 ELSE 10 * f[n - 1]
    <3> SUFFICES ASSUME NEW n \in Nat PROVE f[n] = IF n = 0 THEN 1 ELSE 10 * f[n - 1]
      OBVIOUS
    <3>1. n # 0 => n - 1 \in Nat /\ (n - 1) + 1 = n /\ f[n - 1] \in Nat
      OBVIOUS
    <3> QED
      BY <1>2, <3>1 DEF Iterates
  <2> QED
    BY <2>1
<1>4. Eq(PowerOf10)
  <2>1. PowerOf10 = CHOOSE g : Eq(g)
    BY DEF PowerOf10
  <2> QED
    BY <1>3, <2>1, Zenon
<1> DEFINE T == {n \in Nat : PowerOf10[n] \in Nat}
<1>5. 0 \in T
  BY <1>4
<1>6. ASSUME NEW n \in Nat PROVE PowerOf10[n + 1] = 10 * PowerOf10[n]
  <2>1. n + 1 \in Nat /\ n + 1 # 0 /\ (n + 1) - 1 = n
    OBVIOUS
  <2> QED
    BY <1>4, <2>1
<1>7. \A n \in Nat : n \in T => n + 1 \in T
  BY <1>6
<1>8. \A n \in Nat : PowerOf10[n] \in Nat
  <2> HIDE DEF T
  <2>1. Nat \subseteq T
    BY <1>5, <1>7, Induction
  <2> QED
    BY <2>1 DEF T
<1>9. DOMAIN PowerOf10 = Nat /\ PowerOf10 = [n \in Nat |-> PowerOf10[n]] /\ PowerOf10[0] = 1
  BY <1>4
<1> QED
  BY <1>6, <1>8, <1>9

LEMMA PowerSum ==
  ASSUME NEW m \in Nat, NEW n \in Nat
  PROVE  PowerOf10[m + n] = PowerOf10[m] * PowerOf10[n]
<1> DEFINE T == {k \in Nat : PowerOf10[m + k] = PowerOf10[m] * PowerOf10[k]}
<1>1. 0 \in T
  <2>1. m + 0 = m /\ PowerOf10[m] \in Nat
    BY PowerIs
  <2> QED
    BY <2>1, PowerIs
<1>2. ASSUME NEW k \in Nat, k \in T PROVE k + 1 \in T
  <2>1. m + k \in Nat /\ m + (k + 1) = (m + k) + 1
    OBVIOUS
  <2>2. PowerOf10[m + (k + 1)] = 10 * PowerOf10[m + k] /\ PowerOf10[k + 1] = 10 * PowerOf10[k]
    BY <2>1, PowerIs
  <2>3. PowerOf10[m] \in Nat /\ PowerOf10[k] \in Nat
    BY PowerIs
  <2>4. \A p, q \in Nat : 10 * (p * q) = p * (10 * q)
    OBVIOUS
  <2> QED
    BY <1>2, <2>2, <2>3, <2>4
<1> HIDE DEF T
<1>3. n \in T
  BY <1>1, <1>2, Induction
<1> QED
  BY <1>3 DEF T

LEMMA PowerPositive == \A n \in Nat : PowerOf10[n] \in Nat /\ PowerOf10[n] > 0
<1> DEFINE T == {n \in Nat : PowerOf10[n] > 0}
<1>1. 0 \in T
  BY PowerIs
<1>2. \A n \in Nat : n \in T => n + 1 \in T
  BY PowerIs
<1> HIDE DEF T
<1>3. Nat \subseteq T
  BY <1>1, <1>2, Induction
<1> QED
  BY <1>3, PowerIs DEF T

\* The values of the digits so far.
Spells(f, s) ==
  /\ f \in [0..Len(s) -> Nat] /\ f[0] = 0
  /\ \A k \in 1..Len(s) : f[k] = 10 * f[k - 1] + s[k]

LEMMA ValueOf ==
  ASSUME NEW s \in Seq(Digit)
  PROVE  \E f : Spells(f, s) /\ Value(s) = f[Len(s)]
<1> DEFINE n == Len(s)
           D == DOMAIN s
           Eq(g) == g = [r \in SUBSET D |->
                          IF r = {} THEN 0 ELSE 10 * g[r \ {Max(r)}] + s[Max(r)]]
           it == CHOOSE g : Eq(g)
           step == [i \in 1..n |-> [m \in Nat |-> 10 * m + s[i]]]
<1>1. n \in Nat /\ D = 1..n /\ \A i \in 1..n : s[i] \in Nat
  BY DEF Digit
<1>2. step \in [1..n -> [Nat -> Nat]]
  BY <1>1
<1>3. PICK g \in [SUBSET (1..n) -> Nat] : Recurs(g, n, 0, step)
  <2> HIDE DEF n, step
  <2>1. ASSUME NEW base \in Nat
        PROVE  \E g \in [SUBSET (1..n) -> Nat] : Recurs(g, n, base, step)
    BY <1>1, <1>2, FoldExists, Zenon
  <2>2. 0 \in Nat
    OBVIOUS
  <2> QED
    BY <2>1, <2>2, Zenon
<1>4. Eq(g)
  <2>1. ASSUME NEW r \in SUBSET D
        PROVE  g[r] = IF r = {} THEN 0 ELSE 10 * g[r \ {Max(r)}] + s[Max(r)]
    <3>1. CASE r = {}
      BY <1>1, <1>3, <3>1 DEF Recurs
    <3>2. CASE r # {}
      <4>1. Max(r) \in 1..n
        BY <1>1, <3>2, MaxOf
      <4>2. g[r \ {Max(r)}] \in Nat
        BY <1>1
      <4>3. g[r] = step[Max(r)][g[r \ {Max(r)}]]
        BY <1>1, <1>3, <3>2 DEF Recurs
      <4> QED
        BY <3>2, <4>1, <4>2, <4>3
    <3> QED
      BY <3>1, <3>2
  <2> QED
    BY <1>1, <2>1
<1>5. Eq(it)
  BY <1>4, Zenon
<1>6. Value(s) = it[1..n]
  BY <1>1 DEF Value, FoldLeft, MapThenFoldSet
<1> HIDE DEF it
<1>7. PICK f \in [0..n -> Nat] : Walks(f, it, n, 0, step)
  <2>1. it[{}] = 0
    BY <1>5
  <2>2. ASSUME NEW r \in SUBSET (1..n), r # {}, it[r \ {Max(r)}] \in Nat
        PROVE  it[r] = step[Max(r)][it[r \ {Max(r)}]]
    <3>1. Max(r) \in 1..n
      BY <1>1, <2>2, MaxOf
    <3> QED
      BY <1>1, <1>5, <2>2, <3>1
  <2> HIDE DEF n, step
  <2>3. Chosen(it, n, Nat, 0, step)
    BY <2>1, <2>2 DEF Chosen
  <2>4. ASSUME NEW base \in Nat, Chosen(it, n, Nat, base, step)
        PROVE  \E f \in [0..n -> Nat] : Walks(f, it, n, base, step)
    BY <1>1, <1>2, <2>4, FoldSteps, Zenon
  <2>5. 0 \in Nat
    OBVIOUS
  <2> QED
    BY <2>3, <2>4, <2>5, Zenon
<1>8. \A k \in 1..n : f[k] = 10 * f[k - 1] + s[k]
  <2>1. \A k \in 1..n : k - 1 \in 0..n
    BY <1>1
  <2> QED
    BY <1>1, <1>7, <2>1 DEF Walks
<1> QED
  BY <1>6, <1>7, <1>8 DEF Spells, Walks

LEMMA SpelledOnce ==
  ASSUME NEW s \in Seq(Digit), NEW f, Spells(f, s)
  PROVE  Value(s) = f[Len(s)] /\ Value(s) \in Nat
<1>1. PICK g : Spells(g, s) /\ Value(s) = g[Len(s)]
  BY ValueOf
<1> DEFINE T == {k \in Nat : k <= Len(s) => f[k] = g[k]}
<1>2. 0 \in T
  BY <1>1 DEF Spells
<1>3. ASSUME NEW k \in Nat, k \in T PROVE k + 1 \in T
  <2>1. CASE k + 1 <= Len(s)
    <3>1. k + 1 \in 1..Len(s) /\ (k + 1) - 1 = k /\ f[k] = g[k]
      BY <1>3, <2>1
    <3> QED
      BY <1>1, <3>1 DEF Spells
  <2>2. CASE ~(k + 1 <= Len(s))
    BY <2>2
  <2> QED
    BY <2>1, <2>2
<1>4. Len(s) \in Nat /\ Len(s) \in 0..Len(s)
  OBVIOUS
<1> HIDE DEF T
<1>5. Len(s) \in T
  BY <1>2, <1>3, <1>4, Induction
<1> QED
  BY <1>1, <1>4, <1>5 DEF T, Spells

LEMMA ValueType == ASSUME NEW s \in Seq(Digit) PROVE Value(s) \in Nat
  BY ValueOf, SpelledOnce

\* Each zero behind digits makes ten of what they spell.
LEMMA ValuePadded ==
  ASSUME NEW s \in Seq(Digit), NEW z \in Nat
  PROVE  Value(s \o Zeros(z)) = Value(s) * PowerOf10[z]
<1> DEFINE n == Len(s)
           t == s \o Zeros(z)
<1>1. PICK f : Spells(f, s) /\ Value(s) = f[n]
  BY ValueOf
<1>2. n \in Nat /\ Zeros(z) \in Seq(Digit) /\ Len(Zeros(z)) = z
  BY DEF Zeros, Digit
<1>3. /\ t \in Seq(Digit) /\ Len(t) = n + z
      /\ \A k \in 1..n : t[k] = s[k]
      /\ \A k \in (n + 1)..(n + z) : t[k] = 0
  <2> SUFFICES ASSUME NEW k \in (n + 1)..(n + z)
               PROVE  t[k] = 0 /\ t \in Seq(Digit) /\ Len(t) = n + z
    BY <1>2
  <2>1. k - n \in 1..z
    BY <1>2
  <2> QED
    BY <1>2, <2>1 DEF Zeros
<1> DEFINE h == [k \in 0..(n + z) |-> IF k <= n THEN f[k] ELSE f[n] * PowerOf10[k - n]]
<1> HIDE DEF t
<1>4. f \in [0..n -> Nat] /\ f[n] \in Nat
  BY <1>1, <1>2 DEF Spells
<1>5. h \in [0..(n + z) -> Nat]
  <2> SUFFICES ASSUME NEW k \in 0..(n + z), k > n PROVE f[n] * PowerOf10[k - n] \in Nat
    BY <1>2, <1>4
  <2>1. PowerOf10[k - n] \in Nat
    <3>1. k - n \in Nat
      BY <1>2
    <3> QED
      BY <3>1, PowerIs
  <2>2. \A a, b \in Nat : a * b \in Nat
    OBVIOUS
  <2> QED
    BY <1>4, <2>1, <2>2
<1>6. ASSUME NEW k \in 1..(n + z) PROVE h[k] = 10 * h[k - 1] + t[k]
  <2>1. CASE k <= n
    BY <1>1, <1>2, <1>3, <2>1 DEF Spells
  <2>2. CASE k > n
    <3>1. k - n \in Nat /\ (k - 1) - n \in Nat /\ ((k - 1) - n) + 1 = k - n /\ k - 1 \in 0..(n + z)
      BY <1>2, <2>2
    <3>2. PowerOf10[k - n] = 10 * PowerOf10[(k - 1) - n] /\ PowerOf10[(k - 1) - n] \in Nat
      BY <3>1, PowerIs
    <3>3. h[k - 1] = f[n] * PowerOf10[(k - 1) - n]
      <4>1. CASE k - 1 = n
        BY <1>2, <1>4, <4>1, PowerIs
      <4>2. CASE k - 1 # n
        BY <1>2, <2>2, <3>1, <4>2
      <4> QED
        BY <4>1, <4>2
    <3>4. h[k] = f[n] * (10 * PowerOf10[(k - 1) - n])
      BY <1>2, <2>2, <3>2
    <3>5. \A a, b \in Nat : a * (10 * b) = 10 * (a * b) + 0
      OBVIOUS
    <3>6. t[k] = 0
      BY <1>2, <1>3, <2>2
    <3> HIDE DEF h
    <3> QED
      BY <1>4, <3>2, <3>3, <3>4, <3>5, <3>6
  <2> QED
    BY <1>2, <2>1, <2>2
<1>7. h[0] = 0
  BY <1>1, <1>2 DEF Spells
<1>8. h[n + z] = f[n] * PowerOf10[z]
  <2>1. CASE z = 0
    BY <1>2, <1>4, <2>1, PowerIs
  <2>2. CASE z # 0
    <3>1. n + z \in 0..(n + z) /\ ~(n + z <= n) /\ (n + z) - n = z
      BY <1>2, <2>2
    <3> QED
      BY <3>1
  <2> QED
    BY <2>1, <2>2
<1> HIDE DEF h
<1>9. Spells(h, t)
  BY <1>3, <1>5, <1>6, <1>7 DEF Spells
<1>10. Value(t) = h[n + z]
  BY <1>3, <1>9, SpelledOnce
<1> QED
  BY <1>1, <1>8, <1>10 DEF t

\* money.go:57: an amount is the price in minor units, with no remainder, or it
\* is refused.
LEMMA MinorUnits ==
  ASSUME NEW price \in Price, NEW currency \in Currency
  PROVE  LET amount == ToMinorUnits(price, currency) IN
         /\ amount \in Refused..IntMax
         /\ amount # Refused =>
              /\ currency.code \in DOMAIN Exponent /\ Exponent[currency.code] \in Nat
              /\ amount * PowerOf10[Len(price.fraction)]
                   = Value(price.whole \o price.fraction) * PowerOf10[Exponent[currency.code]]
<1> DEFINE e == CurrencyExponent(currency)
           w == price.whole \o price.fraction
           l == Len(price.fraction)
<1>1. /\ price.whole \in Seq(Digit) /\ price.fraction \in Seq(Digit)
      /\ w \in Seq(Digit) /\ l \in Nat
  BY DEF Price
<1>2. CASE \/ e = Refused \/ ~price.plain \/ l > e
           \/ Value(Digits(price, e)) > IntMax
  BY <1>2, MoneyAssumption DEF ToMinorUnits, Refused
<1>3. CASE ~(\/ e = Refused \/ ~price.plain \/ l > e
             \/ Value(Digits(price, e)) > IntMax)
  <2>1. currency.code \in DOMAIN Exponent /\ e = Exponent[currency.code] /\ e \in Nat
    BY <1>3, MoneyAssumption DEF CurrencyExponent
  <2>2. e - l \in Nat /\ e = l + (e - l)
    BY <1>1, <1>3, <2>1
  <2>3. ToMinorUnits(price, currency) = Value(Digits(price, e))
    BY <1>3 DEF ToMinorUnits
  <2>4. Digits(price, e) = w \o Zeros(e - l)
    BY <1>1 DEF Digits, Zeros
  <2>5. Value(Digits(price, e)) = Value(w) * PowerOf10[e - l]
    BY <1>1, <2>2, <2>4, ValuePadded
  <2>6. PowerOf10[e] = PowerOf10[l] * PowerOf10[e - l]
    BY <1>1, <2>2, PowerSum
  <2>7. Value(w) \in Nat /\ PowerOf10[l] \in Nat /\ PowerOf10[e - l] \in Nat
    BY <1>1, <2>2, ValueType, PowerIs
  <2>8. \A a, b, c \in Nat : (a * b) * c = a * (c * b) /\ a * b \in Nat
    OBVIOUS
  <2>9. ToMinorUnits(price, currency) \in Nat /\ ToMinorUnits(price, currency) <= IntMax
    BY <1>3, <2>3, <2>5, <2>7, <2>8, MoneyAssumption
  <2>10. ToMinorUnits(price, currency) * PowerOf10[l] = Value(w) * PowerOf10[e]
    BY <2>3, <2>5, <2>6, <2>7, <2>8
  <2> QED
    BY <2>1, <2>9, <2>10, MoneyAssumption DEF Refused
<1> QED
  BY <1>2, <1>3
-----------------------------------------------------------------------------
(***************************************************************************)
(* Keys.                                                                   *)
(***************************************************************************)

\* A word as the gateway reads it.
Folded(w) == IF w[1] = "name" THEN Text(Fold[w[2]]) ELSE w

LEMMA FoldKeyAt ==
  ASSUME NEW S, NEW key \in Seq(S)
  PROVE  /\ DOMAIN FoldKey(key) = 1..Len(key)
         /\ \A i \in 1..Len(key) : FoldKey(key)[i] = Folded(key[i])
<1> QED
  BY DEF FoldKey, Folded

\* The elements of two joined sequences.
LEMMA JoinedAt ==
  ASSUME NEW S, NEW s \in Seq(S), NEW t \in Seq(S)
  PROVE  /\ s \o t \in Seq(S) /\ Len(s \o t) = Len(s) + Len(t)
         /\ \A i \in 1..Len(s) : (s \o t)[i] = s[i]
         /\ \A i \in 1..Len(t) : (s \o t)[Len(s) + i] = t[i]
<1> QED
  OBVIOUS

\* The words of a key, with whatever stands for its amount.
KeyWord(amount) == Word \cup {Numeral(amount)}

\* Keys of one length name the words of their scopes at the same places, and
\* the amount and the currency in the last two.
LEMMA KeyAt ==
  ASSUME NEW scope \in Seq(Word), NEW order \in Seq(Word), NEW amount, NEW code \in Code
  PROVE  LET key == Key(scope, order, amount, code) IN
         /\ key \in Seq(KeyWord(amount))
         /\ Len(key) = Len(scope) + Len(order) + 2
         /\ \A i \in 1..Len(scope) : key[i] = scope[i]
         /\ key[Len(key) - 1] = Numeral(amount)
         /\ key[Len(key)] = Text(code)
<1> DEFINE front == scope \o order
           back == <<Numeral(amount), Text(code)>>
           W == KeyWord(amount)
<1>1. back \in Seq(W)
  BY RequestAssumption DEF KeyWord, Word, Numeral, Text
<1>2. Len(back) = 2 /\ back[1] = Numeral(amount) /\ back[2] = Text(code)
  OBVIOUS
<1>3. /\ front \in Seq(W) /\ Len(front) = Len(scope) + Len(order)
      /\ \A i \in 1..Len(scope) : front[i] = scope[i]
  <2>1. scope \in Seq(W) /\ order \in Seq(W)
    BY DEF KeyWord
  <2>2. ASSUME NEW f \in Seq(W), NEW g \in Seq(W)
        PROVE  /\ f \o g \in Seq(W) /\ Len(f \o g) = Len(f) + Len(g)
               /\ \A i \in 1..Len(f) : (f \o g)[i] = f[i]
    BY JoinedAt
  <2> QED
    BY <2>1, <2>2
<1>4. Len(scope) \in Nat /\ Len(order) \in Nat
  OBVIOUS
<1>5. Key(scope, order, amount, code) = front \o back
  BY DEF Key
<1> HIDE DEF front, back, W
<1>6. /\ front \o back \in Seq(W) /\ Len(front \o back) = Len(front) + Len(back)
      /\ \A i \in 1..Len(front) : (front \o back)[i] = front[i]
      /\ \A i \in 1..Len(back) : (front \o back)[Len(front) + i] = back[i]
  <2>1. ASSUME NEW f \in Seq(W), NEW g \in Seq(W)
        PROVE  /\ f \o g \in Seq(W) /\ Len(f \o g) = Len(f) + Len(g)
               /\ \A i \in 1..Len(f) : (f \o g)[i] = f[i]
               /\ \A i \in 1..Len(g) : (f \o g)[Len(f) + i] = g[i]
    BY JoinedAt
  <2> QED
    BY <1>1, <1>3, <2>1
<1>7. /\ Len(front \o back) = Len(front) + 2
      /\ (front \o back)[Len(front) + 1] = back[1]
      /\ (front \o back)[Len(front) + 2] = back[2]
  BY <1>2, <1>6
<1> QED
  BY <1>2, <1>3, <1>4, <1>5, <1>6, <1>7 DEF W

\* idempotency.go:18: a changed amount gives another key, whatever the two
\* scopes and orders are and although the gateway folds letter case.
THEOREM AmountsNeverShareAKey ==
  ASSUME NEW s1 \in Seq(Word), NEW o1 \in Seq(Word), NEW a1, NEW c1 \in Code,
         NEW s2 \in Seq(Word), NEW o2 \in Seq(Word), NEW a2, NEW c2 \in Code,
         FoldKey(Key(s1, o1, a1, c1)) = FoldKey(Key(s2, o2, a2, c2))
  PROVE  a1 = a2 /\ Fold[c1] = Fold[c2]
<1> DEFINE k1 == Key(s1, o1, a1, c1)
           k2 == Key(s2, o2, a2, c2)
<1>1. k1 \in Seq(KeyWord(a1)) /\ k2 \in Seq(KeyWord(a2))
  BY KeyAt
<1>2. Len(k1) \in Nat /\ Len(k1) >= 2 /\ Len(k2) \in Nat
  <2>1. Len(s1) \in Nat /\ Len(o1) \in Nat
    OBVIOUS
  <2>2. Len(k1) = Len(s1) + Len(o1) + 2
    BY KeyAt
  <2> HIDE DEF k1, k2
  <2> QED
    BY <1>1, <2>1, <2>2
<1>3. /\ k1[Len(k1) - 1] = Numeral(a1) /\ k1[Len(k1)] = Text(c1)
      /\ k2[Len(k2) - 1] = Numeral(a2) /\ k2[Len(k2)] = Text(c2)
  BY KeyAt
<1>4. FoldKey(k1) = FoldKey(k2)
  OBVIOUS
<1> HIDE DEF k1, k2
<1>5. Len(k1) = Len(k2)
  BY <1>1, <1>2, <1>4, FoldKeyAt
<1>6. Folded(k1[Len(k1) - 1]) = Folded(k2[Len(k2) - 1]) /\ Folded(k1[Len(k1)]) = Folded(k2[Len(k2)])
  <2>1. Len(k1) - 1 \in 1..Len(k1) /\ Len(k1) \in 1..Len(k1)
    BY <1>2
  <2> QED
    BY <1>1, <1>4, <1>5, <2>1, FoldKeyAt
<1> QED
  BY <1>3, <1>6 DEF Folded, Numeral, Text

\* Two keys for one order that the gateway takes for one have scopes that it
\* takes for one.
LEMMA ScopesOfOneKey ==
  ASSUME NEW s1 \in Seq(Word), NEW s2 \in Seq(Word), NEW o \in Seq(Word),
         NEW a1, NEW c1 \in Code, NEW a2, NEW c2 \in Code,
         FoldKey(Key(s1, o, a1, c1)) = FoldKey(Key(s2, o, a2, c2))
  PROVE  FoldKey(s1) = FoldKey(s2)
<1> DEFINE k1 == Key(s1, o, a1, c1)
           k2 == Key(s2, o, a2, c2)
<1>1. /\ k1 \in Seq(KeyWord(a1)) /\ Len(k1) = Len(s1) + Len(o) + 2
      /\ \A i \in 1..Len(s1) : k1[i] = s1[i]
      /\ k2 \in Seq(KeyWord(a2)) /\ Len(k2) = Len(s2) + Len(o) + 2
      /\ \A i \in 1..Len(s2) : k2[i] = s2[i]
  <2>1. /\ k1 \in Seq(KeyWord(a1)) /\ Len(k1) = Len(s1) + Len(o) + 2
        /\ \A i \in 1..Len(s1) : k1[i] = s1[i]
    BY KeyAt
  <2>2. /\ k2 \in Seq(KeyWord(a2)) /\ Len(k2) = Len(s2) + Len(o) + 2
        /\ \A i \in 1..Len(s2) : k2[i] = s2[i]
    BY KeyAt
  <2> HIDE DEF k1, k2
  <2> QED
    BY <2>1, <2>2
<1>2. FoldKey(k1) = FoldKey(k2)
  OBVIOUS
<1>3. Len(s1) \in Nat /\ Len(s2) \in Nat /\ Len(o) \in Nat
  OBVIOUS
<1> HIDE DEF k1, k2
<1>4. Len(k1) \in Nat /\ Len(k2) \in Nat /\ Len(k1) = Len(k2)
  <2>1. Len(k1) \in Nat /\ Len(k2) \in Nat
    BY <1>1
  <2>2. 1..Len(k1) = 1..Len(k2)
    BY <1>1, <1>2, FoldKeyAt
  <2> QED
    BY <1>1, <1>3, <2>1, <2>2
<1>5. Len(s1) = Len(s2)
  BY <1>1, <1>3, <1>4
<1>6. \A i \in 1..Len(s1) : Folded(s1[i]) = Folded(s2[i])
  <2> SUFFICES ASSUME NEW i \in 1..Len(s1) PROVE Folded(s1[i]) = Folded(s2[i])
    OBVIOUS
  <2>1. i \in 1..Len(k1) /\ i \in 1..Len(k2) /\ i \in 1..Len(s2)
    BY <1>1, <1>3, <1>5
  <2>2. Folded(k1[i]) = Folded(k2[i])
    BY <1>1, <1>2, <2>1, FoldKeyAt
  <2> QED
    BY <1>1, <2>1, <2>2
<1> QED
  BY <1>5, <1>6 DEF FoldKey, Folded

-----------------------------------------------------------------------------
(***************************************************************************)
(* Visits and sessions.                                                    *)
(***************************************************************************)
\* A visit's params are made from what it is for and from the cart it found,
\* and only params that were accepted are asked with.
VisitInv(v) ==
  /\ pc[v] # "idle" =>
       payment[v] \in Payment /\ cart[v] \in Cart /\ params[v] = ParamsOf(payment[v], cart[v])
  /\ Asked(v) => Accepted(params[v])

\* A session was opened by somebody's params, which were accepted.
SessionsInv ==
  \A s \in sessions :
    \E p \in Payment, c \in Cart :
      /\ s.by = p /\ s.body = Body(ParamsOf(p, c))
      /\ s.key = FoldKey(ParamsOf(p, c).key) /\ Accepted(ParamsOf(p, c))

Visitors(f) == DOMAIN f = Visit

\* A session is the one that somebody with this payment, amount and currency
\* asked for, in the fields that no Extra replaces.
Theirs(s, p, amount, currency) ==
  /\ "orderReference" \notin DOMAIN p.extra /\ "orderReference" \notin DOMAIN s.by.extra
       => s.by.order = p.order
  /\ "amount" \notin DOMAIN p.extra => s.body.amount = amount
  /\ "currency" \notin DOMAIN p.extra => s.body.currency.code = currency.code

\* What a body says of a field: Extra's word, or the params'.
LEMMA FieldOf ==
  ASSUME NEW given
  PROVE  /\ Body(given).amount
              = IF "amount" \in DOMAIN given.extra THEN given.extra.amount ELSE given.amount
         /\ Body(given).currency
              = IF "currency" \in DOMAIN given.extra THEN given.extra.currency ELSE given.currency
         /\ Body(given).orderReference
              = IF "orderReference" \in DOMAIN given.extra
                THEN given.extra.orderReference ELSE given.reference
         /\ Body(given).verifyOnly
              = IF "verifyOnly" \in DOMAIN given.extra THEN given.extra.verifyOnly
                ELSE IF given.verifyOnly THEN "true" ELSE "absent"
<1> QED
  BY DEF Body, MergeExtra

IInv ==
  /\ pc \in [Visit -> {"idle", "refused", "asking", "open", "reused"}]
  /\ Visitors(payment) /\ Visitors(cart) /\ Visitors(params) /\ Visitors(answer)
  /\ \A v \in Visit : VisitInv(v)
  /\ SessionsInv
  /\ SessionIsTheVisitors

LEMMA InitIInv == Init => IInv
<1> QED
  BY DEF Init, IInv, Visitors, VisitInv, Asked, SessionsInv, SessionIsTheVisitors

LEMMA EnterStep ==
  ASSUME IInv, NEW v \in Visit, NEW p \in Payment, NEW c \in Cart, Enter(v, p, c)
  PROVE  IInv'
<1>1. /\ pc' \in [Visit -> {"idle", "refused", "asking", "open", "reused"}]
      /\ Visitors(payment)' /\ Visitors(cart)' /\ Visitors(params)' /\ Visitors(answer)'
  BY DEF Enter, IInv, Visitors
<1>2. ASSUME NEW w \in Visit PROVE VisitInv(w)'
  <2>1. CASE w = v
    <3>1. /\ payment'[v] = p /\ cart'[v] = c /\ params'[v] = ParamsOf(p, c)
          /\ pc'[v] = IF Accepted(ParamsOf(p, c)) THEN "asking" ELSE "refused"
      BY DEF Enter, IInv, Visitors
    <3> QED
      BY <2>1, <3>1 DEF VisitInv, Asked
  <2>2. CASE w # v
    <3>1. /\ payment'[w] = payment[w] /\ cart'[w] = cart[w] /\ params'[w] = params[w]
          /\ pc'[w] = pc[w]
      BY <2>2 DEF Enter, IInv, Visitors
    <3> QED
      BY <3>1 DEF IInv, VisitInv, Asked
  <2> QED
    BY <2>1, <2>2
<1>3. SessionsInv'
  BY DEF Enter, IInv, SessionsInv
<1>4. SessionIsTheVisitors'
  <2> SUFFICES ASSUME NEW w \in Visit, pc'[w] = "open"
               PROVE  Theirs(answer'[w], payment'[w], params'[w].amount, cart'[w].currency)
    BY DEF SessionIsTheVisitors, Own, Theirs
  <2>1. w # v
    BY DEF Enter, IInv
  <2>2. /\ payment'[w] = payment[w] /\ cart'[w] = cart[w] /\ params'[w] = params[w]
        /\ pc'[w] = pc[w] /\ answer' = answer
    BY <2>1 DEF Enter, IInv, Visitors
  <2> QED
    BY <2>2 DEF IInv, SessionIsTheVisitors, Own, Theirs
<1> QED
  BY <1>1, <1>2, <1>3, <1>4 DEF IInv

\* The gateway's answers: a visit that is given a session is given one whose
\* request is its own but for the spelling of the currency.
LEMMA AnswerStep ==
  ASSUME IInv, NEW v \in Visit, pc[v] = "asking",
         NEW to \in {"open", "reused"}, NEW s, AnswerOrLose(v, to, s),
         to = "open" => Theirs(s, payment[v], params[v].amount, cart[v].currency),
         SessionsInv', UNCHANGED <<payment, cart, params>>
  PROVE  IInv'
<1>1. CASE UNCHANGED <<pc, answer>>
  BY <1>1 DEF IInv, Visitors, VisitInv, Asked, SessionIsTheVisitors, Own
<1>2. CASE pc' = [pc EXCEPT ![v] = to] /\ answer' = [answer EXCEPT ![v] = s]
  <2>1. /\ pc' \in [Visit -> {"idle", "refused", "asking", "open", "reused"}]
        /\ Visitors(payment)' /\ Visitors(cart)' /\ Visitors(params)' /\ Visitors(answer)'
    BY <1>2 DEF IInv, Visitors
  <2>2. \A w \in Visit : VisitInv(w)'
    BY <1>2 DEF IInv, VisitInv, Asked
  <2>3. SessionIsTheVisitors'
    BY <1>2 DEF IInv, Visitors, SessionIsTheVisitors, Own, Theirs
  <2> QED
    BY <2>1, <2>2, <2>3 DEF IInv
<1> QED
  BY <1>1, <1>2 DEF AnswerOrLose

LEMMA OpenStep ==
  ASSUME IInv, NEW v \in Visit, Open(v)
  PROVE  IInv'
<1>1. /\ payment[v] \in Payment /\ cart[v] \in Cart
      /\ params[v] = ParamsOf(payment[v], cart[v])
  BY DEF Open, IInv, VisitInv
<1>2. SessionsInv'
  <2>1. Accepted(params[v])
    BY DEF Open, IInv, VisitInv, Asked
  <2> QED
    BY <1>1, <2>1 DEF Open, IInv, SessionsInv, Session
<1>3. Theirs(Session(v), payment[v], params[v].amount, cart[v].currency)
  <2>1. /\ Session(v).by = payment[v] /\ Session(v).body = Body(params[v])
        /\ params[v].extra = payment[v].extra /\ params[v].currency = cart[v].currency
    BY <1>1 DEF Session, ParamsOf
  <2> QED
    BY <2>1, FieldOf DEF Theirs
<1> QED
  BY <1>2, <1>3, AnswerStep DEF Open

LEMMA ReplayStep ==
  ASSUME IInv, NEW v \in Visit, Replay(v)
  PROVE  IInv'
<1>1. /\ payment[v] \in Payment /\ cart[v] \in Cart
      /\ params[v] = ParamsOf(payment[v], cart[v])
  BY DEF Replay, IInv, VisitInv
<1>2. PICK s \in Opened(v) : SameRequest(s.body, Body(params[v])) /\ AnswerOrLose(v, "open", s)
  BY DEF Replay
<1>3. PICK p \in Payment, c \in Cart : s.by = p /\ s.body = Body(ParamsOf(p, c))
  BY DEF Opened, IInv, SessionsInv
<1>4. /\ s.body.orderReference = Body(params[v]).orderReference
      /\ s.body.amount = Body(params[v]).amount
      /\ s.body.currency.code = Body(params[v]).currency.code
  BY <1>2, <1>3 DEF SameRequest, Body, MergeExtra
<1>5. Theirs(s, payment[v], params[v].amount, cart[v].currency)
  <2>1. /\ params[v].extra = payment[v].extra /\ params[v].currency = cart[v].currency
        /\ params[v].reference = payment[v].order
    BY <1>1 DEF ParamsOf
  <2>2. ParamsOf(p, c).extra = p.extra /\ ParamsOf(p, c).reference = p.order
    BY DEF ParamsOf
  <2>3. "orderReference" \notin DOMAIN p.extra => s.body.orderReference = p.order
    BY <1>3, <2>2, FieldOf
  <2> QED
    BY <1>3, <1>4, <2>1, <2>3, FieldOf DEF Theirs
<1>6. SessionsInv'
  BY DEF Replay, IInv, SessionsInv
<1> QED
  BY <1>2, <1>5, <1>6, AnswerStep DEF Replay

LEMMA RefuseStep ==
  ASSUME IInv, NEW v \in Visit, RefuseReuse(v)
  PROVE  IInv'
<1>1. SessionsInv'
  BY DEF RefuseReuse, IInv, SessionsInv
<1> QED
  BY <1>1, AnswerStep DEF RefuseReuse

THEOREM Invariance == Spec => []IInv
<1>1. IInv /\ UNCHANGED vars => IInv'
  BY DEF IInv, vars, Visitors, VisitInv, Asked, SessionsInv, SessionIsTheVisitors, Own
<1>2. IInv /\ [Next]_vars => IInv'
  BY <1>1, EnterStep, OpenStep, ReplayStep, RefuseStep DEF Next
<1> QED
  BY <1>2, InitIInv, PTL DEF Spec

\* idempotency.go:16: a visit is only ever handed a session of its own order,
\* amount and currency, for any keys, colliding ones included, and for any
\* Extra that leaves the field in question alone.
THEOREM OwnSession == Spec => []SessionIsTheVisitors
<1> QED
  BY Invariance, PTL DEF IInv

\* session_fields_test.go:53: the amount rule goes by the body. For every Extra
\* that names no amount, on whatever other fields and with whatever value of
\* verifyOnly, an amount of 0 goes out only in a verify-only body.
THEOREM AmountRule == Spec => []AmountRuleFollowsBody
<1>1. IInv => AmountRuleFollowsBody
  <2> SUFFICES ASSUME IInv, NEW v \in Visit, Asked(v), Own(v, "amount")
               PROVE  Body(params[v]).amount > 0 \/ Body(params[v]).verifyOnly = "true"
    BY DEF AmountRuleFollowsBody
  <2>1. params[v].extra = payment[v].extra /\ AmountAllowed(params[v])
    <3>1. params[v] = ParamsOf(payment[v], cart[v]) /\ Accepted(params[v])
      BY DEF IInv, VisitInv, Asked
    <3>2. params[v].extra = payment[v].extra
      BY <3>1 DEF ParamsOf
    <3> QED
      BY <3>1, <3>2 DEF Accepted
  <2>2. Body(params[v]).amount = params[v].amount
    BY <2>1, FieldOf DEF Own
  <2>3. VerifyOnly(params[v]) => Body(params[v]).verifyOnly = "true"
    BY FieldOf DEF VerifyOnly
  <2> QED
    BY <2>1, <2>2, <2>3 DEF AmountAllowed
<1> QED
  BY <1>1, Invariance, PTL

\* A payment that is not free has the key of its order, amount and currency.
LEMMA PaidKey ==
  ASSUME NEW p \in Payment, NEW c \in Cart, ~p.free, ParamsOf(p, c).key # NoKey
  PROVE  /\ p.scope \in Seq(Word) /\ p.order \in Seq(Word) /\ c.currency.code \in Code
         /\ ParamsOf(p, c).key = Key(p.scope, p.order, AmountOf(p, c), c.currency.code)
<1>1. ParamsOf(p, c).key = OrderIdempotencyKey(p.scope, p.order, AmountOf(p, c), c.currency)
  BY DEF ParamsOf
<1>2. /\ IsCode(c.currency)
      /\ ParamsOf(p, c).key = Key(p.scope, p.order, AmountOf(p, c), c.currency.code)
  BY <1>1 DEF OrderIdempotencyKey
<1>3. c.currency.code \in Code
  BY <1>2, StorefrontAssumption DEF IsCode, Currency
<1>4. p.scope \in Seq(Word) /\ p.order \in Seq(Word)
  BY StorefrontAssumption DEF IsPayment
<1> QED
  BY <1>2, <1>3, <1>4

LEMMA PaysKey ==
  ASSUME IInv, NEW v \in Visit, Pays(v)
  PROVE  LET p == payment[v]
             c == cart[v]
         IN /\ p.scope \in Seq(Word) /\ p.order \in Seq(Word) /\ c.currency.code \in Code
            /\ params[v] = ParamsOf(p, c)
            /\ params[v].key = Key(p.scope, p.order, AmountOf(p, c), c.currency.code)
<1>1. /\ payment[v] \in Payment /\ cart[v] \in Cart
      /\ params[v] = ParamsOf(payment[v], cart[v])
      /\ ~payment[v].free /\ params[v].key # NoKey
  BY DEF Pays, Asked, IInv, VisitInv, Accepted
<1> QED
  BY <1>1, PaidKey

\* README.md:724: two kinds of payment for one order never share a key, for any
\* two scopes that the gateway tells apart.
THEOREM KindsKeepTheirKeys == Spec => []KindsNeverShareAKey
<1>1. IInv => KindsNeverShareAKey
  <2> SUFFICES ASSUME IInv, NEW v \in Visit, NEW w \in Visit, Pays(v), Pays(w),
                      payment[v].order = payment[w].order,
                      FoldKey(params[v].key) = FoldKey(params[w].key)
               PROVE  FoldKey(payment[v].scope) = FoldKey(payment[w].scope)
    BY DEF KindsNeverShareAKey
  <2>1. /\ cart[v].currency.code \in Code
        /\ params[v].key = Key(payment[v].scope, payment[v].order,
                               AmountOf(payment[v], cart[v]), cart[v].currency.code)
    BY PaysKey
  <2>2. /\ cart[w].currency.code \in Code
        /\ params[w].key = Key(payment[w].scope, payment[w].order,
                               AmountOf(payment[w], cart[w]), cart[w].currency.code)
    BY PaysKey
  <2>3. /\ payment[v].scope \in Seq(Word) /\ payment[w].scope \in Seq(Word)
        /\ payment[v].order \in Seq(Word)
    BY PaysKey
  <2> QED
    BY <2>1, <2>2, <2>3, ScopesOfOneKey
<1> QED
  BY <1>1, Invariance, PTL

-----------------------------------------------------------------------------
\* A visit that was refused met a session of another request.
RefusedInv ==
  \A v \in Visit : pc[v] = "reused" =>
    \E s \in sessions : s.key = FoldKey(params[v].key) /\ s.body # Body(params[v])

LEMMA RefusedStep == IInv /\ RefusedInv /\ [Next]_vars => RefusedInv'
<1> SUFFICES ASSUME IInv, RefusedInv, [Next]_vars, NEW v \in Visit, pc'[v] = "reused"
             PROVE  \E s \in sessions' : s.key = FoldKey(params'[v].key) /\ s.body # Body(params'[v])
  BY DEF RefusedInv, FoldKey, Body, MergeExtra
<1>1. sessions \subseteq sessions'
  BY DEF Next, Enter, Open, Replay, RefuseReuse, vars
<1>2. CASE pc[v] = "reused"
  <2>1. params'[v] = params[v]
    BY <1>2 DEF Next, Enter, Open, Replay, RefuseReuse, vars, IInv, Visitors
  <2> QED
    BY <1>1, <1>2, <2>1 DEF RefusedInv
<1>3. CASE pc[v] # "reused"
  <2>1. RefuseReuse(v)
    BY <1>3 DEF Next, Enter, Open, Replay, RefuseReuse, AnswerOrLose, vars, IInv
  <2> QED
    BY <2>1 DEF RefuseReuse, Opened
<1> QED
  BY <1>2, <1>3

\* idempotency.go:19: a visit is never refused because its price was edited:
\* a session under its key, of its order and flags and opened by a call site
\* that names the amount, is a session of its request.
THEOREM EditedCartIsFresh == Spec => []ReusedOnlyOnCollision
<1>1. Init => RefusedInv
  BY DEF Init, RefusedInv
<1>2. IInv /\ RefusedInv => ReusedOnlyOnCollision
  <2> SUFFICES ASSUME IInv, RefusedInv, NEW v \in Visit, Pays(v), pc[v] = "reused"
               PROVE  \E s \in Opened(v) :
                        \/ s.by.order # payment[v].order
                        \/ s.by.save # payment[v].save
                        \/ s.by.extra # payment[v].extra
                        \/ s.body.verifyOnly # Body(params[v]).verifyOnly
                        \/ s.body.currency # Body(params[v]).currency
                        \/ s.by.free
    BY DEF ReusedOnlyOnCollision
  <2> DEFINE p == payment[v]
             c == cart[v]
  <2>1. /\ p.scope \in Seq(Word) /\ p.order \in Seq(Word) /\ c.currency.code \in Code
        /\ params[v] = ParamsOf(p, c)
        /\ params[v].key = Key(p.scope, p.order, AmountOf(p, c), c.currency.code)
    BY PaysKey
  <2>2. PICK s \in Opened(v) : s.key = FoldKey(params[v].key) /\ s.body # Body(params[v])
    BY DEF RefusedInv, Opened
  <2>3. PICK q \in Payment, d \in Cart :
          /\ s.by = q /\ s.body = Body(ParamsOf(q, d))
          /\ s.key = FoldKey(ParamsOf(q, d).key) /\ Accepted(ParamsOf(q, d))
    BY DEF Opened, IInv, SessionsInv
  <2>4. SUFFICES ASSUME ~q.free, q.order = p.order, q.save = p.save,
                        q.extra = p.extra,
                        s.body.verifyOnly = Body(params[v]).verifyOnly,
                        s.body.currency = Body(params[v]).currency
                 PROVE  FALSE
    BY <2>3
  <2>5. /\ q.scope \in Seq(Word) /\ q.order \in Seq(Word) /\ d.currency.code \in Code
        /\ ParamsOf(q, d).key = Key(q.scope, q.order, AmountOf(q, d), d.currency.code)
    BY <2>3, <2>4, PaidKey DEF Accepted
  <2>6. AmountOf(q, d) = AmountOf(p, c)
    <3>1. FoldKey(Key(q.scope, q.order, AmountOf(q, d), d.currency.code))
            = FoldKey(Key(p.scope, p.order, AmountOf(p, c), c.currency.code))
      <4>1. FoldKey(ParamsOf(q, d).key) = FoldKey(params[v].key)
        BY <2>2, <2>3
      <4> QED
        BY <2>1, <2>5, <4>1, Zenon
    <3> HIDE DEF p, c
    <3> QED
      BY <2>1, <2>5, <3>1, AmountsNeverShareAKey
  <2>7. Body(ParamsOf(q, d)) = Body(ParamsOf(p, c))
    <3> DEFINE e == p.extra
               fields == {"amount", "currency", "orderReference", "saveCard", "verifyOnly"}
               x == Body(ParamsOf(q, d))
               y == Body(ParamsOf(p, c))
    <3>1. /\ ParamsOf(q, d).extra = e /\ ParamsOf(p, c).extra = e
          /\ ParamsOf(q, d).amount = ParamsOf(p, c).amount
          /\ ParamsOf(q, d).reference = ParamsOf(p, c).reference
          /\ ParamsOf(q, d).save = ParamsOf(p, c).save
      BY <2>4, <2>6 DEF ParamsOf
    <3>2. x.verifyOnly = y.verifyOnly /\ x.currency = y.currency
      BY <2>1, <2>3, <2>4
    <3>3. x = [field \in fields \cup DOMAIN e |-> x[field]]
          /\ y = [field \in fields \cup DOMAIN e |-> y[field]]
      BY <3>1 DEF Body, MergeExtra
    <3>4. \A field \in DOMAIN e : x[field] = y[field]
      BY <3>1 DEF Body, MergeExtra
    <3>5. x.amount = y.amount /\ x.orderReference = y.orderReference /\ x.saveCard = y.saveCard
      BY <3>1 DEF Body, MergeExtra
    <3> HIDE DEF x, y, e
    <3>6. \A field \in fields \cup DOMAIN e : x[field] = y[field]
      BY <3>2, <3>4, <3>5
    <3>7. x = y
      BY <3>3, <3>6
    <3> QED
      BY <3>7 DEF x, y
  <2> QED
    BY <2>1, <2>2, <2>3, <2>7
<1> QED
  BY <1>1, <1>2, RefusedStep, Invariance, PTL DEF Spec
-----------------------------------------------------------------------------
(***************************************************************************)
(* The ledger.                                                             *)
(***************************************************************************)
\* No key has two sessions, and a visit that was answered, and no other, has
\* the session of its key.
LedgerInv ==
  /\ \A s, t \in sessions : s.key = t.key => s = t
  /\ \A v \in Visit : IF pc[v] = "open"
                      THEN answer[v] \in sessions /\ answer[v].key = FoldKey(params[v].key)
                      ELSE answer[v] = Nothing

LEMMA InitLedger == Init => LedgerInv
<1> QED
  BY DEF Init, LedgerInv

LEMMA EnterLedger ==
  ASSUME IInv, LedgerInv, NEW v \in Visit, NEW p \in Payment, NEW c \in Cart, Enter(v, p, c)
  PROVE  LedgerInv'
<1> USE DEF FoldKey
<1>1. \A s, t \in sessions' : s.key = t.key => s = t
  BY DEF Enter, LedgerInv
<1>2. ASSUME NEW w \in Visit
      PROVE  IF pc'[w] = "open"
             THEN answer'[w] \in sessions' /\ answer'[w].key = FoldKey(params'[w].key)
             ELSE answer'[w] = Nothing
  <2>1. CASE w = v
    <3>1. pc'[v] # "open" /\ answer'[v] = Nothing
      BY DEF Enter, IInv, LedgerInv
    <3> QED
      BY <2>1, <3>1
  <2>2. CASE w # v
    <3>1. /\ pc'[w] = pc[w] /\ params'[w] = params[w]
          /\ answer' = answer /\ sessions' = sessions
      BY <2>2 DEF Enter, IInv, Visitors
    <3> QED
      BY <3>1 DEF LedgerInv
  <2> QED
    BY <2>1, <2>2
<1> QED
  BY <1>1, <1>2 DEF LedgerInv

\* The visit is answered, or not, and the ledger only grows.
LEMMA AnswerLedger ==
  ASSUME IInv, LedgerInv, NEW v \in Visit, pc[v] = "asking",
         NEW to \in {"open", "reused"}, NEW s, AnswerOrLose(v, to, s),
         IF to = "open" THEN s \in sessions' /\ s.key = FoldKey(params[v].key) ELSE s = Nothing,
         sessions \subseteq sessions', \A r, t \in sessions' : r.key = t.key => r = t,
         UNCHANGED params
  PROVE  LedgerInv'
<1>1. ASSUME NEW w \in Visit
      PROVE  IF pc'[w] = "open"
             THEN answer'[w] \in sessions' /\ answer'[w].key = FoldKey(params'[w].key)
             ELSE answer'[w] = Nothing
  <2>1. CASE pc'[w] = pc[w] /\ answer'[w] = answer[w]
    BY <2>1 DEF LedgerInv
  <2>2. CASE w = v /\ pc'[v] = to /\ answer'[v] = s
    BY <2>2
  <2>3. \/ pc'[w] = pc[w] /\ answer'[w] = answer[w]
        \/ w = v /\ pc'[v] = to /\ answer'[v] = s
    BY DEF AnswerOrLose, IInv, Visitors
  <2> QED
    BY <2>1, <2>2, <2>3
<1> QED
  BY <1>1 DEF LedgerInv, FoldKey

\* A session is only opened under a key that has none.
LEMMA OpenLedger ==
  ASSUME IInv, LedgerInv, NEW v \in Visit, Open(v)
  PROVE  LedgerInv'
<1>1. Session(v).key = FoldKey(params[v].key)
  BY DEF Session
<1>2. \A t \in sessions : t.key # FoldKey(params[v].key)
  BY DEF Open, Opened
<1>3. \A r, t \in sessions' : r.key = t.key => r = t
  BY <1>1, <1>2 DEF Open, LedgerInv
<1>4. Session(v) \in sessions' /\ sessions \subseteq sessions'
  BY DEF Open
<1>5. pc[v] = "asking" /\ AnswerOrLose(v, "open", Session(v)) /\ UNCHANGED params
  BY DEF Open
<1> QED
  BY <1>1, <1>3, <1>4, <1>5, AnswerLedger

LEMMA ReplayLedger ==
  ASSUME IInv, LedgerInv, NEW v \in Visit, Replay(v)
  PROVE  LedgerInv'
<1>1. PICK s \in Opened(v) : AnswerOrLose(v, "open", s)
  BY DEF Replay
<1>2. s \in sessions' /\ s.key = FoldKey(params[v].key)
  BY <1>1 DEF Opened, Replay
<1>3. /\ pc[v] = "asking" /\ UNCHANGED params /\ sessions \subseteq sessions'
      /\ \A r, t \in sessions' : r.key = t.key => r = t
  BY DEF Replay, LedgerInv
<1> QED
  BY <1>1, <1>2, <1>3, AnswerLedger

LEMMA RefuseLedger ==
  ASSUME IInv, LedgerInv, NEW v \in Visit, RefuseReuse(v)
  PROVE  LedgerInv'
<1>1. /\ pc[v] = "asking" /\ AnswerOrLose(v, "reused", Nothing)
      /\ UNCHANGED params /\ sessions \subseteq sessions'
      /\ \A r, t \in sessions' : r.key = t.key => r = t
  BY DEF RefuseReuse, LedgerInv
<1> QED
  BY <1>1, AnswerLedger

THEOREM Ledger == Spec => [](IInv /\ LedgerInv)
<1>1. LedgerInv /\ UNCHANGED vars => LedgerInv'
  BY DEF LedgerInv, vars, FoldKey
<1>2. IInv /\ LedgerInv /\ [Next]_vars => LedgerInv'
  BY <1>1, EnterLedger, OpenLedger, ReplayLedger, RefuseLedger DEF Next
<1> QED
  BY <1>2, InitLedger, Invariance, PTL DEF Spec

-----------------------------------------------------------------------------
LEMMA AmountType ==
  ASSUME NEW p \in Payment, NEW c \in Cart
  PROVE  AmountOf(p, c) \in Refused..IntMax
<1>1. c.price \in Price /\ c.currency \in Currency
  BY StorefrontAssumption
<1>2. ToMinorUnits(c.price, c.currency) \in Refused..IntMax
  BY <1>1, MinorUnits
<1> QED
  BY <1>2, MoneyAssumption DEF AmountOf, Refused

LEMMA FoldKeyType ==
  ASSUME NEW key \in Seq(Word)
  PROVE  FoldKey(key) \in Seq(Word)
<1>1. \A w \in Word : Folded(w) \in Word
  BY StorefrontAssumption DEF Word, Folded, Text
<1>2. /\ FoldKey(key) = [i \in 1..Len(key) |-> Folded(key[i])] /\ Len(key) \in Nat
      /\ \A i \in 1..Len(key) : key[i] \in Word
  BY DEF FoldKey, Folded
<1> QED
  BY <1>1, <1>2

LEMMA ParamsKeyType ==
  ASSUME NEW p \in Payment, NEW c \in Cart, Accepted(ParamsOf(p, c))
  PROVE  ParamsOf(p, c).key \in Seq(Word)
<1>1. p.scope \in Seq(Word) /\ p.order \in Seq(Word)
  BY StorefrontAssumption DEF IsPayment
<1>2. CASE p.free
  <2>1. ParamsOf(p, c).key = p.scope \o p.order
    BY <1>2 DEF ParamsOf
  <2> QED
    BY <1>1, <2>1, JoinedAt
<1>3. CASE ~p.free
  <2>1. ParamsOf(p, c).key # NoKey
    BY DEF Accepted
  <2>2. /\ c.currency.code \in Code
        /\ ParamsOf(p, c).key = Key(p.scope, p.order, AmountOf(p, c), c.currency.code)
    BY <1>3, <2>1, PaidKey
  <2>3. AmountOf(p, c) \in Nat
    <3>1. ~(AmountOf(p, c) <= 0)
      BY <1>3, <2>1 DEF ParamsOf, OrderIdempotencyKey
    <3> QED
      BY <3>1, AmountType, MoneyAssumption DEF Refused
  <2>4. KeyWord(AmountOf(p, c)) = Word
    BY <2>3 DEF KeyWord, Word, Numeral
  <2>5. Key(p.scope, p.order, AmountOf(p, c), c.currency.code) \in Seq(KeyWord(AmountOf(p, c)))
    BY <1>1, <2>2, KeyAt
  <2> QED
    BY <2>2, <2>4, <2>5
<1> QED
  BY <1>2, <1>3

\* Amounts, keys and sessions are what they should be.
THEOREM TypeCorrect == Spec => []TypeOK
<1>1. IInv /\ LedgerInv => TypeOK
  <2> SUFFICES ASSUME IInv, LedgerInv PROVE TypeOK
    OBVIOUS
  <2>1. ASSUME NEW v \in Visit, pc[v] # "idle"
        PROVE  payment[v] \in Payment /\ cart[v] \in Cart /\ params[v].amount \in Refused..IntMax
    <3>1. /\ payment[v] \in Payment /\ cart[v] \in Cart
          /\ params[v] = ParamsOf(payment[v], cart[v])
      BY <2>1 DEF IInv, VisitInv
    <3>2. params[v].amount = AmountOf(payment[v], cart[v])
      BY <3>1 DEF ParamsOf
    <3> QED
      BY <3>1, <3>2, AmountType
  <2>2. ASSUME NEW v \in Visit, Asked(v)
        PROVE  params[v].key \in Seq(Word) /\ ValidKey(params[v].key)
    <3>1. /\ payment[v] \in Payment /\ cart[v] \in Cart
          /\ params[v] = ParamsOf(payment[v], cart[v]) /\ Accepted(params[v])
      BY <2>2 DEF IInv, VisitInv, Asked
    <3> QED
      BY <3>1, ParamsKeyType DEF Accepted
  <2>3. ASSUME NEW s \in sessions PROVE s.key \in Seq(Word) /\ s.by \in Payment
    <3>1. PICK p \in Payment, c \in Cart :
            s.by = p /\ s.key = FoldKey(ParamsOf(p, c).key) /\ Accepted(ParamsOf(p, c))
      BY DEF IInv, SessionsInv
    <3> QED
      BY <3>1, ParamsKeyType, FoldKeyType
  <2> QED
    BY <2>1, <2>2, <2>3 DEF IInv, LedgerInv, TypeOK
<1> QED
  BY <1>1, Ledger, PTL

\* What a visit that pays asks for.
LEMMA PaysAmount ==
  ASSUME IInv, NEW v \in Visit, Pays(v)
  PROVE  LET c == cart[v] IN
         /\ params[v].amount \in 1..IntMax
         /\ c.price \in Price /\ Exponent[c.currency.code] \in Nat
         /\ params[v].amount * PowerOf10[Len(c.price.fraction)]
              = Value(c.price.whole \o c.price.fraction) * PowerOf10[Exponent[c.currency.code]]
<1> DEFINE c == cart[v]
           p == payment[v]
<1>1. /\ p \in Payment /\ c \in Cart /\ params[v] = ParamsOf(p, c)
      /\ ~p.free /\ params[v].key # NoKey
  BY DEF Pays, Asked, IInv, VisitInv, Accepted
<1>2. params[v].amount = AmountOf(p, c) /\ AmountOf(p, c) = ToMinorUnits(c.price, c.currency)
  BY <1>1 DEF ParamsOf, AmountOf
<1>3. ~(AmountOf(p, c) <= 0)
  BY <1>1 DEF ParamsOf, OrderIdempotencyKey
<1>4. c.price \in Price /\ c.currency \in Currency
  BY <1>1, StorefrontAssumption
<1> HIDE DEF c, p
<1>5. AmountOf(p, c) \in Refused..IntMax /\ AmountOf(p, c) # Refused
  BY <1>1, <1>3, AmountType DEF Refused
<1>6. AmountOf(p, c) \in 1..IntMax
  BY <1>3, <1>5, MoneyAssumption DEF Refused
<1> QED
  BY <1>2, <1>4, <1>5, <1>6, MinorUnits DEF c

\* money.go:57: what is sent is the price in minor units, for every sequence of
\* digits, every exponent and every width of the integers, unless Extra names
\* another amount.
THEOREM Exact == Spec => []SentAmountIsExact
<1>1. IInv => SentAmountIsExact
  <2> SUFFICES ASSUME IInv, NEW v \in Visit, Pays(v), Own(v, "amount")
               PROVE  Body(params[v]).amount = params[v].amount
    BY PaysAmount DEF SentAmountIsExact
  <2>1. params[v].extra = payment[v].extra
    <3>1. params[v] = ParamsOf(payment[v], cart[v])
      BY DEF Pays, Asked, IInv, VisitInv
    <3> QED
      BY <3>1 DEF ParamsOf
  <2> QED
    BY <2>1, FieldOf DEF Own
<1> QED
  BY <1>1, Invariance, PTL

\* Two spellings of one price are one amount.
LEMMA OneAmount ==
  ASSUME NEW a \in Nat, NEW b \in Nat, NEW x \in Nat, NEW y \in Nat,
         NEW p \in Nat, p > 0, NEW q \in Nat, q > 0, NEW e \in Nat,
         a * p = x * e, b * q = y * e, x * q = y * p
  PROVE  a = b
<1>1. a * (p * q) = b * (p * q)
  OBVIOUS
<1>2. p * q \in Nat /\ p * q > 0
  OBVIOUS
<1>3. \A m \in Nat : m > 0 /\ a * m = b * m => a = b
  OBVIOUS
<1> QED
  BY <1>1, <1>2, <1>3

\* idempotency.go:16: visits for one payment at one price that were answered
\* have one session, in whatever order the answers came or were lost.
THEOREM OneSession == Spec => []OneSessionPerPayment
<1>1. IInv /\ LedgerInv => OneSessionPerPayment
  <2> SUFFICES ASSUME IInv, LedgerInv, NEW v \in Visit, NEW w \in Visit,
                      Pays(v), Pays(w), pc[v] = "open", pc[w] = "open",
                      payment[v] = payment[w], SameMoney(cart[v], cart[w])
               PROVE  answer[v] = answer[w]
    BY DEF OneSessionPerPayment
  <2> DEFINE a == params[v].amount
             b == params[w].amount
             lv == Len(cart[v].price.fraction)
             lw == Len(cart[w].price.fraction)
             xv == Value(cart[v].price.whole \o cart[v].price.fraction)
             xw == Value(cart[w].price.whole \o cart[w].price.fraction)
             e == Exponent[cart[v].currency.code]
  <2>1. /\ a \in 1..IntMax /\ e \in Nat /\ cart[v].price \in Price
        /\ a * PowerOf10[lv] = xv * PowerOf10[e]
    BY PaysAmount
  <2>2. /\ b \in 1..IntMax /\ cart[w].price \in Price
        /\ b * PowerOf10[lw] = xw * PowerOf10[e]
    BY PaysAmount DEF SameMoney
  <2>3. xv * PowerOf10[lw] = xw * PowerOf10[lv] /\ cart[v].currency.code = cart[w].currency.code
    BY DEF SameMoney
  <2>4. a = b
    <3>1. xv \in Nat /\ lv \in Nat
      <4>1. cart[v].price.whole \in Seq(Digit) /\ cart[v].price.fraction \in Seq(Digit)
        BY <2>1 DEF Price
      <4>2. cart[v].price.whole \o cart[v].price.fraction \in Seq(Digit)
        BY <4>1, JoinedAt
      <4>3. xv \in Nat
        BY <4>2, ValueType, Zenon
      <4> QED
        BY <4>1, <4>3
    <3>2. xw \in Nat /\ lw \in Nat
      <4>1. cart[w].price.whole \in Seq(Digit) /\ cart[w].price.fraction \in Seq(Digit)
        BY <2>2 DEF Price
      <4>2. cart[w].price.whole \o cart[w].price.fraction \in Seq(Digit)
        BY <4>1, JoinedAt
      <4>3. xw \in Nat
        BY <4>2, ValueType, Zenon
      <4> QED
        BY <4>1, <4>3
    <3>3. /\ PowerOf10[lv] \in Nat /\ PowerOf10[lv] > 0
          /\ PowerOf10[lw] \in Nat /\ PowerOf10[lw] > 0 /\ PowerOf10[e] \in Nat
      BY <2>1, <3>1, <3>2, PowerPositive
    <3>4. a \in Nat /\ b \in Nat
      BY <2>1, <2>2
    <3> DEFINE p == PowerOf10[lv]
               q == PowerOf10[lw]
               t == PowerOf10[e]
    <3>5. /\ xv \in Nat /\ xw \in Nat /\ p \in Nat /\ p > 0 /\ q \in Nat /\ q > 0 /\ t \in Nat
          /\ a * p = xv * t /\ b * q = xw * t /\ xv * q = xw * p
      BY <2>1, <2>2, <2>3, <3>1, <3>2, <3>3
    <3> HIDE DEF a, b, lv, lw, xv, xw, e, p, q, t
    <3> QED
      BY <3>4, <3>5, OneAmount
  <2>5. params[v].key = params[w].key
    <3>1. /\ params[v] = ParamsOf(payment[v], cart[v])
          /\ params[v].key = Key(payment[v].scope, payment[v].order,
                                 AmountOf(payment[v], cart[v]), cart[v].currency.code)
      BY PaysKey
    <3>2. /\ params[w] = ParamsOf(payment[w], cart[w])
          /\ params[w].key = Key(payment[w].scope, payment[w].order,
                                 AmountOf(payment[w], cart[w]), cart[w].currency.code)
      BY PaysKey
    <3>3. a = AmountOf(payment[v], cart[v]) /\ b = AmountOf(payment[w], cart[w])
      BY <3>1, <3>2 DEF ParamsOf
    <3> QED
      BY <2>3, <2>4, <3>1, <3>2, <3>3
  <2> QED
    BY <2>5 DEF LedgerInv
<1> QED
  BY <1>1, Ledger, PTL
=============================================================================
