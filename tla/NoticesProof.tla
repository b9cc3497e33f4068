---------------------------- MODULE NoticesProof ----------------------------
(***************************************************************************)
(* The notice set of Notices, for every number of readers, headers and     *)
(* notices and every cap: the mutex keeps the readers apart, no notice is  *)
(* warned about twice, and the set stays within its cap.                   *)
(***************************************************************************)
EXTENDS Notices, FiniteSetTheorems, TLAPS

\* A reader that has stored its notice and has still to warn about it.
Owes(g) == pc[g] \in {"unlock", "warn"} /\ novel[g]

\* What a reader knows about the set between its lookup and its warning.
ReaderInv(g) ==
  /\ pc[g] = "store" /\ novel[g] => value[g] \notin seen /\ HasRoom
  /\ pc[g] = "store" /\ ~novel[g] => value[g] \in seen \/ ~HasRoom
  /\ pc[g] = "warn" => novel[g]
  /\ Owes(g) => value[g] \in seen /\ warned[value[g]] = 0

IInv ==
  /\ TypeOK
  /\ IsFiniteSet(seen) /\ Cardinality(seen) <= Cap
  /\ \A g \in Reader : ReaderInv(g)
  /\ \A g, h \in Reader : Owes(g) /\ Owes(h) /\ g # h => value[g] # value[h]
  /\ \A v \in Notice : warned[v] <= 1 /\ (v \notin seen => warned[v] = 0)

-----------------------------------------------------------------------------
\* Nothing has been read and nobody is inside.
LEMMA InitInv == Init => IInv
<1> SUFFICES ASSUME Init PROVE IInv
  OBVIOUS
<1> USE NoticesAssumption DEF Init
<1>1. TypeOK
  BY DEF TypeOK
<1>2. IsFiniteSet(seen) /\ Cardinality(seen) <= Cap
  BY FS_EmptySet
<1>3. QED
  BY <1>1, <1>2 DEF IInv, ReaderInv, Owes

\* Types and the ownership of the mutex, one action at a time.
LEMMA TypeStep == TypeOK /\ [Next]_vars => TypeOK'
<1> SUFFICES ASSUME TypeOK, [Next]_vars PROVE TypeOK'
  OBVIOUS
<1> USE NoticesAssumption DEF TypeOK, Step
<1>1. ASSUME NEW g \in Reader, NEW h \in Header, Receive(g, h) PROVE TypeOK'
  BY <1>1 DEF Receive
<1>2. ASSUME NEW g \in Reader, Lock(g) PROVE TypeOK'
  BY <1>2 DEF Lock
<1>3. ASSUME NEW g \in Reader, Look(g) PROVE TypeOK'
  BY <1>3 DEF Look
<1>4. ASSUME NEW g \in Reader, Store(g) PROVE TypeOK'
  BY <1>4 DEF Store
<1>5. ASSUME NEW g \in Reader, Unlock(g) PROVE TypeOK'
  BY <1>5 DEF Unlock
<1>6. ASSUME NEW g \in Reader, Warn(g) PROVE TypeOK'
  BY <1>6 DEF Warn
<1>7. CASE UNCHANGED vars
  BY <1>7 DEF vars
<1>8. QED
  BY <1>1, <1>2, <1>3, <1>4, <1>5, <1>6, <1>7 DEF Next, Running

\* Only Store changes the set, and only into a room its reader has seen.
LEMMA SetStep ==
  IInv /\ [Next]_vars =>
    /\ IsFiniteSet(seen') /\ Cardinality(seen') <= Cap
    /\ HasRoom' => HasRoom
<1> DEFINE Goal == /\ IsFiniteSet(seen') /\ Cardinality(seen') <= Cap
                   /\ HasRoom' => HasRoom
<1> SUFFICES ASSUME IInv, [Next]_vars PROVE Goal
  OBVIOUS
<1>1. ASSUME seen' = seen PROVE Goal
  BY <1>1 DEF IInv, HasRoom
<1>2. ASSUME NEW g \in Reader, Store(g), novel[g] PROVE Goal
  <2>1. value[g] \notin seen /\ Cardinality(seen) < Cap
    BY <1>2 DEF IInv, ReaderInv, Store, Step, HasRoom
  <2>2. seen' = seen \cup {value[g]}
    BY <1>2 DEF Store
  <2>3. IsFiniteSet(seen') /\ Cardinality(seen') = Cardinality(seen) + 1
    BY <2>1, <2>2, FS_AddElement DEF IInv
  <2>4. Cardinality(seen) \in Nat
    BY FS_CardinalityType DEF IInv
  <2>5. QED
    BY <2>1, <2>3, <2>4, NoticesAssumption DEF HasRoom
<1>3. QED
  BY <1>1, <1>2 DEF Next, Running, Receive, Lock, Look, Store, Unlock, Warn, vars

\* The whole invariant, one action at a time.
LEMMA NextInv == IInv /\ [Next]_vars => IInv'
<1> SUFFICES ASSUME IInv, [Next]_vars PROVE IInv'
  OBVIOUS
<1> DEFINE Rest == /\ \A g \in Reader : ReaderInv(g)
                   /\ \A g, h \in Reader : Owes(g) /\ Owes(h) /\ g # h => value[g] # value[h]
                   /\ \A v \in Notice : warned[v] <= 1 /\ (v \notin seen => warned[v] = 0)
<1>1. TypeOK /\ TypeOK' /\ (HasRoom' => HasRoom)
  BY TypeStep, SetStep DEF IInv
<1>2. Rest
  BY DEF IInv
<1> USE <1>1, <1>2, NoticesAssumption DEF TypeOK, Step, ReaderInv, Owes, HasRoom
<1>3. ASSUME NEW g \in Reader, NEW h \in Header, Receive(g, h) PROVE Rest'
  BY <1>3 DEF Receive
<1>4. ASSUME NEW g \in Reader, Lock(g) PROVE Rest'
  BY <1>4 DEF Lock
<1>5. ASSUME NEW g \in Reader, Look(g) PROVE Rest'
  BY <1>5 DEF Look
<1>6. ASSUME NEW g \in Reader, Store(g) PROVE Rest'
  BY <1>6 DEF Store
<1>7. ASSUME NEW g \in Reader, Unlock(g) PROVE Rest'
  BY <1>7 DEF Unlock
<1>8. ASSUME NEW g \in Reader, Warn(g) PROVE Rest'
  BY <1>8 DEF Warn
<1>9. ASSUME UNCHANGED vars PROVE Rest'
  BY <1>9 DEF vars
<1>10. Rest'
  BY <1>3, <1>4, <1>5, <1>6, <1>7, <1>8, <1>9 DEF Next, Running
<1>11. QED
  BY <1>10, SetStep DEF IInv

\* A header that arrived keeps to its three places as long as there is room.
LEMMA DropStep ==
  IInv /\ DroppedOnlyWhenFull /\ [Next]_vars => DroppedOnlyWhenFull'
<1> SUFFICES ASSUME IInv, DroppedOnlyWhenFull, [Next]_vars, HasRoom',
                    NEW h \in received',
                    Clean[h] \notin seen' \cup {Blank}
             PROVE  \E g \in Reader : value'[g] = Clean[h] /\ pc'[g] \in {"lock", "look", "store"}
  BY DEF DroppedOnlyWhenFull, HasRoom
<1>1. TypeOK /\ HasRoom
  BY SetStep DEF IInv
<1> USE <1>1, NoticesAssumption DEF TypeOK, Step
<1>2. CASE h \notin received
  <2>1. PICK g \in Reader : Receive(g, h)
    BY <1>2 DEF Next, Running, Receive, Lock, Look, Store, Unlock, Warn, vars
  <2>2. QED
    BY <2>1 DEF Receive
<1>3. CASE h \in received
  <2>1. seen \subseteq seen'
    BY DEF Next, Running, Receive, Lock, Look, Store, Unlock, Warn, vars
  <2>2. PICK g \in Reader : value[g] = Clean[h] /\ pc[g] \in {"lock", "look", "store"}
    BY <1>3, <2>1 DEF DroppedOnlyWhenFull, HasRoom
  <2>3. ~(pc[g] = "store" /\ Store(g))
    BY <2>2 DEF IInv, ReaderInv, Store, HasRoom
  <2>4. QED
    BY <2>2, <2>3 DEF Next, Running, Receive, Lock, Look, Store, Unlock, Warn, vars
<1>4. QED
  BY <1>2, <1>3

-----------------------------------------------------------------------------
LEMMA Inductive == Spec => []IInv
  BY InitInv, NextInv, PTL DEF Spec

\* Types, and the mutex is held by the reader inside its critical section.
THEOREM TypeCorrect == Spec => []TypeOK
<1>1. IInv => TypeOK
  BY DEF IInv
<1>2. QED
  BY <1>1, Inductive, PTL

\* Goroutines that meet one notice at the same time warn about it once.
THEOREM WarnedOnce == Spec => []WarnedAtMostOnce
<1>1. IInv => WarnedAtMostOnce
  BY DEF IInv, WarnedAtMostOnce
<1>2. QED
  BY <1>1, Inductive, PTL

\* However many goroutines add to it, the set stays within its cap.
THEOREM CapKept == Spec => []SeenWithinCap
<1>1. IInv => SeenWithinCap
  BY DEF IInv, SeenWithinCap
<1>2. QED
  BY <1>1, Inductive, PTL

\* A notice is dropped for want of room and for no other reason.
THEOREM DroppedForRoom == Spec => []DroppedOnlyWhenFull
<1>1. Init => DroppedOnlyWhenFull
  BY DEF Init, DroppedOnlyWhenFull
<1>2. QED
  BY <1>1, DropStep, Inductive, PTL DEF Spec
=============================================================================
