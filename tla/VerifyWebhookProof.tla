------------------------- MODULE VerifyWebhookProof -------------------------
(***************************************************************************)
(* VerifyWebhook, for every width of the integers, every clock, tolerance, *)
(* header and body: what the pass over the header accepts, what is signed, *)
(* and how far a timestamp may be.                                         *)
(***************************************************************************)
EXTENDS VerifyWebhook, FoldTheorems, FiniteSetTheorems

-----------------------------------------------------------------------------
(***************************************************************************)
(* The header.                                                             *)
(***************************************************************************)
Start == [ok |-> TRUE, t |-> Missing, v1 |-> Missing]

Reading == [ok : BOOLEAN, t : Texts \cup {Missing},
            v1 : Mac(Texts) \cup {NotHex, Missing}]

LEMMA ElementKinds ==
  ASSUME NEW e \in Element(Texts)
  PROVE  \/ e.key = "t" /\ e.value \in Texts /\ e.value # Missing
         \/ e.key = "v1" /\ e.value \in Mac(Texts) \cup {NotHex} /\ e.value # Missing
         \/ e.key \in {"unknown", "no separator"}
<1>1. \A x \in Texts : x # Missing
  <2> SUFFICES ASSUME NEW x \in Texts PROVE x # Missing
    OBVIOUS
  <2>1. x \in [digits : BOOLEAN, seconds : Nat, zeros : BOOLEAN]
    BY VerifyAssumption
  <2>2. "hex" \notin DOMAIN x /\ "hex" \in DOMAIN Missing
    BY <2>1 DEF Missing
  <2> QED
    BY <2>2
<1>2. \A m \in Mac(Texts) \cup {NotHex} : m # Missing
  <2> SUFFICES ASSUME NEW m \in Mac(Texts) \cup {NotHex} PROVE m # Missing
    OBVIOUS
  <2>1. "digits" \notin DOMAIN m /\ "digits" \in DOMAIN Missing
    BY DEF Missing, Mac, NotHex
  <2> QED
    BY <2>1
<1> QED
  BY <1>1, <1>2 DEF Element

LEMMA ReadElementType ==
  ASSUME NEW acc \in Reading, NEW e \in Element(Texts)
  PROVE  ReadElement(acc, e) \in Reading
<1>1. Malformed \in Reading
  BY DEF Malformed, Reading
<1>2. CASE e.key = "t"
  BY <1>1, <1>2, ElementKinds DEF ReadElement, Reading
<1>3. CASE e.key = "v1"
  BY <1>1, <1>3, ElementKinds DEF ReadElement, Reading
<1>4. CASE e.key \in {"unknown", "no separator"}
  BY <1>1, <1>4 DEF ReadElement
<1> QED
  BY <1>2, <1>3, <1>4, ElementKinds

\* The pass, element by element.
LEMMA Pass ==
  ASSUME NEW header \in Seq(Element(Texts))
  PROVE  \E f \in [0..Len(header) -> Reading] :
           /\ f[0] = Start
           /\ \A k \in 1..Len(header) : f[k] = ReadElement(f[k - 1], header[k])
           /\ FoldLeft(ReadElement, Start, header) = f[Len(header)]
<1> DEFINE n == Len(header)
           D == DOMAIN header
           Eq(g) == g = [s \in SUBSET D |->
                          IF s = {} THEN Start
                          ELSE ReadElement(g[s \ {Max(s)}], header[Max(s)])]
           it == CHOOSE g : Eq(g)
           step == [i \in 1..n |-> [acc \in Reading |-> ReadElement(acc, header[i])]]
<1>1. n \in Nat /\ D = 1..n /\ \A i \in 1..n : header[i] \in Element(Texts)
  OBVIOUS
<1>2. Start \in Reading
  BY DEF Start, Reading
<1>3. step \in [1..n -> [Reading -> Reading]]
  BY <1>1, ReadElementType
<1>4. PICK g \in [SUBSET (1..n) -> Reading] : Recurs(g, n, Start, step)
  BY <1>1, <1>2, <1>3, FoldExists
<1>5. Eq(g)
  <2>1. ASSUME NEW s \in SUBSET D
        PROVE  g[s] = IF s = {} THEN Start
                      ELSE ReadElement(g[s \ {Max(s)}], header[Max(s)])
    <3>1. CASE s = {}
      BY <1>1, <1>4, <3>1 DEF Recurs
    <3>2. CASE s # {}
      <4>1. Max(s) \in 1..n
        BY <1>1, <3>2, MaxOf
      <4>2. g[s \ {Max(s)}] \in Reading
        BY <1>1
      <4>3. g[s] = step[Max(s)][g[s \ {Max(s)}]]
        BY <1>1, <1>4, <3>2 DEF Recurs
      <4> QED
        BY <3>2, <4>1, <4>2, <4>3
    <3> QED
      BY <3>1, <3>2
  <2> QED
    BY <1>1, <2>1
<1>6. Eq(it)
  BY <1>5, Zenon
<1>7. FoldLeft(ReadElement, Start, header) = it[1..n]
  BY <1>1 DEF FoldLeft, MapThenFoldSet
<1> HIDE DEF it
<1>8. Chosen(it, n, Reading, Start, step)
  <2>1. it[{}] = Start
    BY <1>6
  <2>2. ASSUME NEW s \in SUBSET (1..n), s # {}, it[s \ {Max(s)}] \in Reading
        PROVE  it[s] = step[Max(s)][it[s \ {Max(s)}]]
    <3>1. Max(s) \in 1..n
      BY <1>1, <2>2, MaxOf
    <3> QED
      BY <1>1, <1>6, <2>2, <3>1
  <2> HIDE DEF step
  <2> QED
    BY <2>1, <2>2 DEF Chosen
<1>9. PICK f \in [0..n -> Reading] : Walks(f, it, n, Start, step)
  <2> HIDE DEF n, step
  <2> QED
    BY <1>1, <1>2, <1>3, <1>8, FoldSteps, Zenon
<1>10. \A k \in 1..n : f[k] = ReadElement(f[k - 1], header[k])
  <2>1. \A k \in 1..n : k - 1 \in 0..n
    BY <1>1
  <2> QED
    BY <1>1, <1>9, <2>1 DEF Walks
<1> QED
  BY <1>7, <1>9, <1>10 DEF Walks

\* The value that was read for one of the two keys.
Field(acc, key) == IF key = "t" THEN acc.t ELSE acc.v1

Wanted == {"t", "v1"}

LEMMA ReadElementIs ==
  ASSUME NEW acc \in Reading, NEW e \in Element(Texts)
  PROVE  LET new == ReadElement(acc, e) IN
         /\ new.ok <=> /\ acc.ok /\ e.key # "no separator"
                       /\ e.key \in Wanted => Field(acc, e.key) = Missing
         /\ new.ok /\ e.key \in Wanted => Field(new, e.key) = e.value
         /\ \A key \in Wanted \ {e.key} : new.ok => Field(new, key) = Field(acc, key)
<1> USE DEF ReadElement, Reading, Field, Wanted, Malformed
<1>1. CASE e.key = "t"
  BY <1>1
<1>2. CASE e.key = "v1"
  BY <1>2
<1>3. CASE e.key \in {"unknown", "no separator"}
  BY <1>3
<1> QED
  BY <1>1, <1>2, <1>3, ElementKinds

\* The positions of a key among the first elements.
Among(header, k, key) == {i \in 1..k : header[i].key = key}

\* The first elements have no key without a value and no key twice.
Single(header, k) ==
  /\ Among(header, k, "no separator") = {}
  /\ \A key \in Wanted : \A i, j \in Among(header, k, key) : i = j

\* What is read of a key is its element's value, or that there is none.
ReadOf(header, k, acc) ==
  \A key \in Wanted :
    IF Among(header, k, key) = {} THEN Field(acc, key) = Missing
    ELSE \E i \in Among(header, k, key) : Field(acc, key) = header[i].value

PassInv(header, k, acc) ==
  (acc.ok <=> Single(header, k)) /\ (acc.ok => ReadOf(header, k, acc))

LEMMA PassStep ==
  ASSUME NEW header \in Seq(Element(Texts)), NEW k \in 1..Len(header),
         NEW acc \in Reading, PassInv(header, k - 1, acc)
  PROVE  PassInv(header, k, ReadElement(acc, header[k]))
<1> DEFINE e == header[k]
           new == ReadElement(acc, e)
           A(key) == Among(header, k, key)
           B(key) == Among(header, k - 1, key)
<1>1. e \in Element(Texts)
  OBVIOUS
<1>2. \A key : A(key) = IF e.key = key THEN B(key) \cup {k} ELSE B(key)
  <2>1. 1..k = 1..(k - 1) \cup {k}
    BY SMT
  <2> QED
    BY <2>1 DEF Among
<1>3. \A key : k \notin B(key)
  BY DEF Among
<1>4. \A key \in Wanted : \A i \in B(key) : header[i].value # Missing
  <2> SUFFICES ASSUME NEW key \in Wanted, NEW i \in B(key) PROVE header[i].value # Missing
    OBVIOUS
  <2>1. header[i] \in Element(Texts) /\ header[i].key = key
    BY DEF Among
  <2> QED
    BY <2>1, ElementKinds DEF Wanted
<1>5. acc.ok => \A key \in Wanted : B(key) = {} <=> Field(acc, key) = Missing
  BY <1>4 DEF PassInv, ReadOf
<1>6. /\ new.ok <=> /\ acc.ok /\ e.key # "no separator"
                    /\ e.key \in Wanted => Field(acc, e.key) = Missing
      /\ new.ok /\ e.key \in Wanted => Field(new, e.key) = e.value
      /\ \A key \in Wanted \ {e.key} : new.ok => Field(new, key) = Field(acc, key)
  BY <1>1, ReadElementIs
<1>7. e.key \in Wanted \cup {"unknown", "no separator"} /\ "no separator" \notin Wanted
  BY <1>1, ElementKinds DEF Wanted
<1> HIDE DEF e, new, A, B
<1>8. new.ok <=> Single(header, k)
  <2>1. Single(header, k) <=> /\ A("no separator") = {}
                              /\ \A key \in Wanted : \A i, j \in A(key) : i = j
    BY DEF Single, A
  <2>2. acc.ok <=> /\ B("no separator") = {}
                   /\ \A key \in Wanted : \A i, j \in B(key) : i = j
    BY DEF PassInv, Single, B
  <2>3. CASE e.key = "no separator"
    BY <1>2, <1>6, <2>1, <2>3
  <2>4. CASE e.key \in Wanted
    <3>1. (\A i, j \in A(e.key) : i = j) <=> B(e.key) = {}
      BY <1>2, <1>3
    <3>2. \A key \in Wanted \ {e.key} : A(key) = B(key)
      BY <1>2
    <3>3. A("no separator") = B("no separator")
      BY <1>2, <1>7, <2>4
    <3>4. CASE acc.ok
      BY <1>5, <1>6, <1>7, <2>1, <2>2, <2>4, <3>1, <3>2, <3>3, <3>4
    <3>5. CASE ~acc.ok
      <4>1. \A key : B(key) \subseteq A(key)
        BY <1>2
      <4> QED
        BY <1>6, <2>1, <2>2, <3>5, <4>1
    <3> QED
      BY <3>4, <3>5
  <2>5. CASE e.key \notin Wanted /\ e.key # "no separator"
    BY <1>2, <1>6, <2>1, <2>2, <2>5
  <2> QED
    BY <2>3, <2>4, <2>5
<1>9. ASSUME new.ok, NEW key \in Wanted
      PROVE  IF A(key) = {} THEN Field(new, key) = Missing
             ELSE \E i \in A(key) : Field(new, key) = header[i].value
  <2>1. CASE key = e.key
    <3>1. k \in A(key) /\ Field(new, key) = header[k].value
      BY <1>2, <1>6, <1>9, <2>1 DEF e
    <3> QED
      BY <3>1
  <2>2. CASE key # e.key
    <3>1. A(key) = B(key) /\ Field(new, key) = Field(acc, key) /\ acc.ok
      BY <1>2, <1>6, <1>9, <2>2
    <3> QED
      BY <3>1 DEF PassInv, ReadOf, B
  <2> QED
    BY <2>1, <2>2
<1> QED
  BY <1>8, <1>9 DEF PassInv, ReadOf, A, new, e

\* What the pass accepts, and what it has read then.
LEMMA PassAccepts ==
  ASSUME NEW header \in Seq(Element(Texts))
  PROVE  LET read == FoldLeft(ReadElement, Start, header)
         IN  read \in Reading /\ PassInv(header, Len(header), read)
<1> DEFINE n == Len(header)
<1>1. n \in Nat
  OBVIOUS
<1>2. PICK f \in [0..n -> Reading] :
        /\ f[0] = Start
        /\ \A k \in 1..n : f[k] = ReadElement(f[k - 1], header[k])
        /\ FoldLeft(ReadElement, Start, header) = f[n]
  BY Pass
<1> DEFINE T == {k \in Nat : k <= n => PassInv(header, k, f[k])}
<1>3. 0 \in T
  <2>1. \A key : Among(header, 0, key) = {}
    BY DEF Among
  <2>2. PassInv(header, 0, Start)
    BY <2>1 DEF PassInv, Single, ReadOf, Start, Field
  <2> QED
    BY <1>2, <2>2
<1>4. ASSUME NEW k \in Nat, k \in T PROVE k + 1 \in T
  <2>1. CASE k + 1 <= n
    <3>1. k + 1 \in 1..n /\ (k + 1) - 1 = k /\ k \in 0..n
      BY <1>1, <2>1
    <3>2. PassInv(header, k, f[k]) /\ f[k] \in Reading
      BY <1>1, <1>2, <1>4, <3>1
    <3>3. f[k + 1] = ReadElement(f[k], header[k + 1])
      BY <1>2, <3>1
    <3>4. PassInv(header, k + 1, f[k + 1])
      BY <3>1, <3>2, <3>3, PassStep
    <3> QED
      BY <3>4
  <2>2. CASE ~(k + 1 <= n)
    BY <2>2
  <2> QED
    BY <2>1, <2>2
<1> HIDE DEF T
<1>5. Nat \subseteq T
  BY <1>3, <1>4, Induction
<1>6. PassInv(header, n, f[n])
  BY <1>1, <1>5 DEF T
<1> QED
  BY <1>1, <1>2, <1>6

-----------------------------------------------------------------------------
(***************************************************************************)
(* One verification: its answer is that of Verify for its call.            *)
(***************************************************************************)
Calls == [payload : Payloads, header : Headers, secret : {NoSecret, "ours"},
          tolerance : Tolerances, now : Instants]

Answered == call \in Calls /\ result \in {Rejected("none"), Verify(call)}

LEMMA AlwaysAnswered == Spec => []Answered
<1>1. Init => Answered
  BY DEF Init, Answered, Calls
<1>2. Answered /\ [VerifyCall]_vars => Answered'
  BY DEF Answered, VerifyCall, vars
<1> QED
  BY <1>1, <1>2, PTL DEF Spec

LEMMA CallType ==
  ASSUME Answered
  PROVE  /\ call.now \in Nat
         /\ call.now + DurationMax < (SecondsMax + 1 - EpochOffset) * Second
         /\ call.tolerance \in Int /\ call.tolerance <= DurationMax
<1>1. call.now \in Instants /\ call.tolerance \in Tolerances
  BY DEF Answered, Calls
<1>2. call.now \in Nat /\ call.now + DurationMax < (SecondsMax + 1 - EpochOffset) * Second
  BY <1>1, VerifyAssumption
<1>3. call.tolerance \in (-DurationMax - 1)..DurationMax /\ DurationMax \in Nat
  BY <1>1, VerifyAssumption
<1>4. call.tolerance \in Int /\ call.tolerance <= DurationMax
  BY <1>3
<1> QED
  BY <1>2, <1>4

\* The header of a call, in the grammar or not: what was read of it.
LEMMA Parsed ==
  ASSUME Answered
  PROVE  LET parsed == ParseSignatureHeader(call.header) IN
         /\ parsed.ok <=> InGrammar
         /\ parsed.ok => \E i \in At("t"), j \in At("v1") :
              /\ At("t") = {i} /\ At("v1") = {j}
              /\ call.header[i].value \in Texts
              /\ parsed.t = call.header[i].value
              /\ parsed.v1 = call.header[j].value
<1> DEFINE header == call.header
           n == Len(header)
           read == FoldLeft(ReadElement, Start, header)
<1>1. header \in Seq(Element(Texts))
  BY HeadersAssumption DEF Answered, Calls
<1>2. n \in Nat /\ \A i \in 1..n : header[i] \in Element(Texts)
  BY <1>1
<1>3. \A key : At(key) = Among(header, n, key)
  BY <1>1 DEF At, Among
<1>4. read \in Reading /\ PassInv(header, n, read)
  BY <1>1, PassAccepts
<1>5. \A key : IsFiniteSet(At(key))
  <2>1. IsFiniteSet(1..n)
    BY <1>2, FS_Interval
  <2>2. \A key : At(key) \subseteq 1..n
    BY <1>3 DEF Among
  <2> QED
    BY <2>1, <2>2, FS_Subset
<1>6. \A key : Cardinality(At(key)) = 1 <=> \E i : At(key) = {i}
  BY <1>5, FS_Singleton
<1>7. /\ Single(header, n) <=>
           At("no separator") = {} /\ \A key \in Wanted : \A i, j \in At(key) : i = j
      /\ read.ok <=> Single(header, n)
  BY <1>3, <1>4 DEF Single, PassInv
<1>8. ASSUME read.ok, NEW key \in Wanted
      PROVE  IF At(key) = {} THEN Field(read, key) = Missing
             ELSE \E i \in At(key) : At(key) = {i} /\ Field(read, key) = header[i].value
  <2>1. IF At(key) = {} THEN Field(read, key) = Missing
        ELSE \E i \in At(key) : Field(read, key) = header[i].value
    BY <1>3, <1>4, <1>8 DEF PassInv, ReadOf
  <2>2. \A i, j \in At(key) : i = j
    BY <1>7, <1>8
  <2>3. \A i \in At(key) : At(key) = {i}
    BY <2>2
  <2> QED
    BY <2>1, <2>3, Zenon
<1>9. \A key \in Wanted : \A i \in At(key) : header[i] \in Element(Texts) /\ header[i].key = key
  BY <1>2, <1>3 DEF Among
<1>10. ASSUME InGrammar PROVE read.ok /\ read.t.digits /\ read.v1.hex
  <2>1. /\ At("no separator") = {}
        /\ \E i : At("t") = {i} /\ header[i].value.digits
        /\ \E j : At("v1") = {j} /\ header[j].value.hex
    BY <1>6, <1>10 DEF InGrammar
  <2>2. read.ok
    <3>1. \A key \in Wanted : \E i : At(key) = {i}
      BY <2>1 DEF Wanted
    <3>2. \A key \in Wanted : \A i, j \in At(key) : i = j
      BY <3>1
    <3> QED
      BY <1>7, <2>1, <3>2
  <2> QED
    BY <1>8, <2>1, <2>2 DEF Field, Wanted
<1>11. ASSUME read.ok, read.t.digits, read.v1.hex
       PROVE  /\ InGrammar
              /\ \E i \in At("t"), j \in At("v1") :
                   /\ At("t") = {i} /\ At("v1") = {j}
                   /\ header[i].value \in Texts
                   /\ read.t = header[i].value
                   /\ read.v1 = header[j].value
  <2>1. At("t") # {} /\ At("v1") # {}
    BY <1>8, <1>11 DEF Field, Wanted, Missing
  <2>2. PICK i \in At("t") : At("t") = {i} /\ read.t = header[i].value
    BY <1>8, <1>11, <2>1 DEF Field, Wanted
  <2>3. PICK j \in At("v1") : At("v1") = {j} /\ read.v1 = header[j].value
    BY <1>8, <1>11, <2>1 DEF Field, Wanted
  <2>4. At("no separator") = {}
    BY <1>7, <1>11
  <2>5. header[i].value \in Texts
    BY <1>9, <2>2, ElementKinds DEF Wanted
  <2>6. InGrammar
    BY <1>6, <1>11, <2>2, <2>3, <2>4 DEF InGrammar
  <2> QED
    BY <2>2, <2>3, <2>5, <2>6
<1>12. ParseSignatureHeader(header)
         = IF read.ok /\ read.t.digits /\ read.v1.hex THEN read ELSE Malformed
  BY DEF ParseSignatureHeader, Start
<1> HIDE DEF read
<1> QED
  BY <1>10, <1>11, <1>12 DEF Malformed

\* verify.go:203: MALFORMED_SIGNATURE is the answer to exactly the headers that
\* are not in the grammar, of any length and with any elements around the two.
THEOREM GrammarExactly == Spec => []MalformedIffNotInGrammar
<1>1. Answered => MalformedIffNotInGrammar
  <2> SUFFICES ASSUME Answered, result = Verify(call), call.tolerance >= 0
               PROVE  result.reason = "MALFORMED_SIGNATURE" <=>
                        call.secret = NoSecret \/ ~InGrammar
    BY DEF Answered, MalformedIffNotInGrammar, Done, Rejected
  <2>1. ~(call.tolerance < 0)
    BY CallType, SMT
  <2> QED
    BY <2>1, Parsed DEF Verify, Rejected, Event
<1> QED
  BY <1>1, AlwaysAnswered, PTL

\* What an accepted call has passed.
LEMMA AcceptedPassed ==
  ASSUME Answered, Accepted
  PROVE  LET parsed == ParseSignatureHeader(call.header) IN
         /\ call.secret = "ours" /\ parsed.ok
         /\ Matches(parsed, call.secret, call.payload)
         /\ ~Stale(parsed.t, call.now, call.tolerance)
         /\ result = Event(call.payload)
  BY DEF Answered, Calls, Accepted, Verify, Rejected, NoSecret

\* verify.go:140: an accepted event was signed with the caller's secret, under
\* the timestamp as the header spells it, and no other v1 element exists.
THEOREM OnlyAuthentic == Spec => []AcceptedIsAuthentic
<1>1. Answered => AcceptedIsAuthentic
  <2> SUFFICES ASSUME Answered, Accepted
               PROVE  /\ result.typed \in {"none", call.payload.type}
                      /\ \E i \in At("t"), j \in At("v1") :
                           /\ At("t") = {i} /\ At("v1") = {j}
                           /\ call.header[j].value =
                                [hex |-> TRUE, secret |-> "ours",
                                 text |-> call.header[i].value, payload |-> call.payload]
    BY DEF AcceptedIsAuthentic
  <2>1. result.typed \in {"none", call.payload.type}
    BY AcceptedPassed DEF Event
  <2>2. PICK i \in At("t"), j \in At("v1") :
          /\ At("t") = {i} /\ At("v1") = {j}
          /\ ParseSignatureHeader(call.header).t = call.header[i].value
          /\ ParseSignatureHeader(call.header).v1 = call.header[j].value
    BY AcceptedPassed, Parsed
  <2>3. call.header[j].value =
          [hex |-> TRUE, secret |-> "ours", text |-> call.header[i].value,
           payload |-> call.payload]
    BY <2>2, AcceptedPassed DEF Matches
  <2> QED
    BY <2>1, <2>2, <2>3
<1> QED
  BY <1>1, AlwaysAnswered, PTL

-----------------------------------------------------------------------------
(***************************************************************************)
(* Package time.                                                           *)
(***************************************************************************)
LEMMA WrapIs ==
  ASSUME NEW n \in Nat, n <= 2 * SecondsMax + 1
  PROVE  WrapSeconds(n) = IF n <= SecondsMax THEN n ELSE n - 2 * (SecondsMax + 1)
<1> DEFINE m == 2 * (SecondsMax + 1)
           x == n + SecondsMax + 1
<1>1. SecondsMax \in Nat
  BY VerifyAssumption
<1>2. \A q \in Nat, w \in Nat \ {0} : (q < w => q % w = q) /\ (w <= q /\ q < 2 * w => q % w = q - w)
  BY SMT
<1>3. /\ m \in Nat \ {0} /\ x \in Nat /\ x < 2 * m
      /\ n <= SecondsMax <=> x < m
  BY <1>1
<1>4. x % m = IF x < m THEN x ELSE x - m
  BY <1>2, <1>3
<1> QED
  BY <1>1, <1>3, <1>4 DEF WrapSeconds

\* The difference as it is computed, and the distance of the two instants.
LEMMA DriftIs ==
  ASSUME NEW now \in Nat, NEW n \in 0..SecondsMax,
         NEW exact \in Int, exact = now - n * Second
  PROVE  /\ n + EpochOffset <= SecondsMax /\ exact \in -DurationMax..DurationMax =>
              Drift(now, n) = IF exact < 0 THEN -exact ELSE exact
         /\ n + EpochOffset > SecondsMax /\ exact >= -DurationMax =>
              Drift(now, n) = DurationMax
<1> DEFINE width == 2 * (SecondsMax + 1)
           k == n + EpochOffset
<1>1. /\ SecondsMax \in Nat /\ EpochOffset \in 0..SecondsMax
      /\ DurationMax \in Nat /\ Second \in Nat \ {0} /\ n \in Nat
      /\ DurationMax <= (SecondsMax + 1) * Second
  BY VerifyAssumption
<1>2. k \in Nat /\ k <= 2 * SecondsMax + 1
  BY <1>1
<1>3. WrapSeconds(k) = IF k <= SecondsMax THEN k ELSE k - width
  <2>1. \A m \in Nat : m <= 2 * SecondsMax + 1 =>
          WrapSeconds(m) = IF m <= SecondsMax THEN m ELSE m - width
    BY WrapIs
  <2> HIDE DEF k
  <2> QED
    BY <1>2, <2>1
<1>4. CASE n + EpochOffset <= SecondsMax
  <2>1. now + EpochOffset * Second - WrapSeconds(n + EpochOffset) * Second = exact
    BY <1>1, <1>3, <1>4
  <2> QED
    BY <1>1, <1>4, <2>1 DEF Drift, Sub, Negated, DurationMin
<1>5. CASE n + EpochOffset > SecondsMax
  <2>1. now + EpochOffset * Second - WrapSeconds(n + EpochOffset) * Second
          = exact + width * Second
    BY <1>1, <1>3, <1>5
  <2>2. width * Second \in Nat /\ width * Second >= 2 * DurationMax
    BY <1>1
  <2> HIDE DEF width
  <2>3. exact >= -DurationMax => exact + width * Second >= DurationMax
    BY <1>1, <2>2
  <2> QED
    BY <1>1, <1>5, <2>1, <2>2, <2>3 DEF Drift, Sub, Negated, DurationMin
<1> QED
  BY <1>1, <1>4, <1>5

LEMMA DistanceIs ==
  ASSUME Answered, NEW n \in Nat
  PROVE  /\ call.now - n * Second \in Int /\ Distance(n) \in Nat
         /\ Distance(n) = IF call.now - n * Second < 0 THEN -(call.now - n * Second)
                          ELSE call.now - n * Second
<1>1. Second \in Nat /\ n * Second \in Nat
  BY VerifyAssumption
<1> QED
  BY <1>1, CallType DEF Distance

\* verify.go:151: an accepted event is inside the window, past and future, for
\* every width of the integers, as far as a Duration can hold the distance.
THEOREM OnlyFresh == Spec => []AcceptedIsFresh
<1>1. Answered => AcceptedIsFresh
  <2> SUFFICES ASSUME Answered, Accepted, NEW i \in At("t"),
                      Distance(call.header[i].value.seconds) <= DurationMax
               PROVE  Distance(call.header[i].value.seconds) <= call.tolerance
    BY DEF AcceptedIsFresh
  <2> DEFINE text == call.header[i].value
             n == text.seconds
             exact == call.now - n * Second
  <2>1. /\ ParseSignatureHeader(call.header).t = text /\ text \in Texts
        /\ ~Stale(text, call.now, call.tolerance)
    BY AcceptedPassed, Parsed
  <2>2. n \in Nat
    BY <2>1, VerifyAssumption
  <2>3. SecondsMax \in Nat /\ DurationMax \in Nat /\ EpochOffset \in Nat
    BY VerifyAssumption
  <2>4. ~(n > SecondsMax) /\ ~(Drift(call.now, n) > call.tolerance)
    BY <2>1 DEF Stale
  <2>5. n \in 0..SecondsMax
    BY <2>2, <2>3, <2>4
  <2>6. /\ exact \in Int /\ Distance(n) \in Nat
        /\ Distance(n) = IF exact < 0 THEN -exact ELSE exact
    BY <2>2, DistanceIs
  <2> HIDE DEF n
  <2>7. /\ n + EpochOffset <= SecondsMax /\ exact \in -DurationMax..DurationMax =>
              Drift(call.now, n) = IF exact < 0 THEN -exact ELSE exact
        /\ n + EpochOffset > SecondsMax /\ exact >= -DurationMax =>
              Drift(call.now, n) = DurationMax
    BY <2>5, <2>6, CallType, DriftIs
  <2>8. Distance(n) <= DurationMax
    BY DEF n
  <2> HIDE DEF exact
  <2>9. Distance(n) <= call.tolerance
    BY <2>2, <2>3, <2>4, <2>6, <2>7, <2>8, CallType
  <2> QED
    BY <2>9 DEF n
<1> QED
  BY <1>1, AlwaysAnswered, PTL

\* verify.go:106: what was signed with the caller's secret, inside the window
\* and in the event's shape, is accepted, for every width and clock.
THEOREM GenuineAccepted == Spec => []GenuineIsAccepted
<1>1. Answered => GenuineIsAccepted
  <2> SUFFICES ASSUME Answered, result = Verify(call), call.secret = "ours",
                      InGrammar, Decodes(call.payload),
                      NEW i \in At("t"), NEW j \in At("v1"),
                      call.header[j].value.secret = "ours",
                      call.header[j].value.text = call.header[i].value,
                      call.header[j].value.payload = call.payload,
                      Distance(call.header[i].value.seconds) <= call.tolerance
               PROVE  Accepted
    BY DEF Answered, GenuineIsAccepted, Done, Rejected
  <2> DEFINE parsed == ParseSignatureHeader(call.header)
             n == call.header[i].value.seconds
             exact == call.now - n * Second
  <2>1. /\ parsed.ok /\ parsed.t = call.header[i].value /\ parsed.t \in Texts
        /\ parsed.v1 = call.header[j].value
    BY Parsed
  <2>2. parsed.v1 \in Mac(Texts)
    <3>1. call.header \in Seq(Element(Texts))
      BY HeadersAssumption DEF Answered, Calls
    <3>2. call.header[j] \in Element(Texts) /\ call.header[j].key = "v1"
      BY <3>1 DEF At
    <3>3. parsed.v1.hex
      BY <2>1 DEF ParseSignatureHeader, Malformed
    <3>4. parsed.v1 \in Mac(Texts) \cup {NotHex}
      BY <2>1, <3>2, ElementKinds
    <3> HIDE DEF parsed
    <3> QED
      BY <3>3, <3>4 DEF NotHex
  <2>3. Matches(parsed, call.secret, call.payload)
    BY <2>1, <2>2 DEF Matches, Mac
  <2>4. n \in Nat
    BY <2>1, VerifyAssumption
  <2>5. /\ SecondsMax \in Nat /\ DurationMax \in Nat /\ EpochOffset \in 0..SecondsMax
        /\ Second \in Nat \ {0}
    BY VerifyAssumption
  <2>6. /\ exact \in Int /\ Distance(n) \in Nat
        /\ Distance(n) = IF exact < 0 THEN -exact ELSE exact
    BY <2>4, DistanceIs
  <2>7. ~(call.tolerance < 0)
    BY <2>6, CallType
  <2>8. n + EpochOffset <= SecondsMax
    <3>1. n * Second <= call.now + DurationMax
      BY <2>4, <2>5, <2>6, CallType
    <3>2. n * Second < (SecondsMax + 1 - EpochOffset) * Second
      BY <2>4, <2>5, <3>1, CallType
    <3> HIDE DEF n
    <3>3. n < SecondsMax + 1 - EpochOffset
      BY <2>4, <2>5, <3>2
    <3> QED
      BY <2>4, <2>5, <3>3
  <2>9. ~Stale(parsed.t, call.now, call.tolerance)
    <3>1. n \in 0..SecondsMax
      BY <2>4, <2>5, <2>8
    <3> HIDE DEF n
    <3>2. exact \in -DurationMax..DurationMax
      BY <2>5, <2>6, CallType DEF n
    <3>3. Drift(call.now, n) = Distance(n)
      BY <2>6, <2>8, <3>1, <3>2, CallType, DriftIs
    <3>4. ~(n > SecondsMax) /\ ~(Distance(n) > call.tolerance)
      BY <2>5, <2>6, <3>1, CallType DEF n
    <3> QED
      BY <2>1, <3>3, <3>4 DEF Stale, n
  <2> QED
    BY <2>1, <2>3, <2>7, <2>9 DEF Verify, Accepted, Event, NoSecret
<1> QED
  BY <1>1, AlwaysAnswered, PTL
=============================================================================
