------------------------------ MODULE Notices -------------------------------
(***************************************************************************)
(* The notice set of one client (readNotice, logging.go): goroutines that  *)
(* read responses at the same time warn about each Dominaite-Sdk-Notice    *)
(* value once. The steps of the critical section are separate, so that the *)
(* mutex, and not the grain of the model, keeps them apart.                *)
(***************************************************************************)
EXTENDS Integers, FiniteSets

CONSTANTS
  Reader,  \* goroutines that read a response
  NoOne,   \* the holder of a free mutex
  Header,  \* values of the response header, and its absence
  Notice,  \* header values after cleanHeaderValue
  Blank,   \* what an absent or blank header is cleaned to
  Clean,   \* cleanHeaderValue: cut to 512 bytes, control characters dropped
  Cap      \* maxSeenNotices

ASSUME NoticesAssumption ==
  /\ NoOne \notin Reader
  /\ Blank \notin Notice
  /\ Clean \in [Header -> Notice \cup {Blank}]
  /\ Cap \in Nat

VARIABLES
  pc,       \* where a reader is in readNotice
  value,    \* the notice it read
  novel,    \* ~seen /\ ~full, as it looked them up
  mu,       \* the holder of set.mu
  seen,     \* set.seen
  warned,   \* how often the client warned about a notice
  received  \* history: the headers that arrived

vars == <<pc, value, novel, mu, seen, warned, received>>

Init ==
  /\ pc = [g \in Reader |-> "idle"]
  /\ value = [g \in Reader |-> Blank]
  /\ novel = [g \in Reader |-> FALSE]
  /\ mu = NoOne
  /\ seen = {}
  /\ warned = [v \in Notice |-> 0]
  /\ received = {}

Step(g, from, to) == pc[g] = from /\ pc' = [pc EXCEPT ![g] = to]

\* Mutant: a blank value is kept like any other.
ReceiveAny(g, h) ==
  /\ Step(g, "idle", "lock")
  /\ value' = [value EXCEPT ![g] = Clean[h]]
  /\ received' = received \cup {h}
  /\ UNCHANGED <<novel, mu, seen, warned>>

\* A blank value returns at once.
Receive(g, h) ==
  /\ Step(g, "idle", IF Clean[h] = Blank THEN "idle" ELSE "lock")
  /\ value' = [value EXCEPT ![g] = Clean[h]]
  /\ received' = received \cup {h}
  /\ UNCHANGED <<novel, mu, seen, warned>>

\* Mutant: the mutex is not taken.
LockNothing(g) ==
  /\ Step(g, "lock", "look")
  /\ UNCHANGED <<value, novel, mu, seen, warned, received>>

Lock(g) ==
  /\ mu = NoOne
  /\ mu' = g
  /\ Step(g, "lock", "look")
  /\ UNCHANGED <<value, novel, seen, warned, received>>

\* Mutant: > maxSeenNotices instead of >=.
HasRoomOverCap == Cardinality(seen) <= Cap

\* Mutant: the set counts as full one value early.
HasRoomUnderCap == Cardinality(seen) + 1 < Cap

HasRoom == Cardinality(seen) < Cap

Look(g) ==
  /\ Step(g, "look", "store")
  /\ novel' = [novel EXCEPT ![g] = value[g] \notin seen /\ HasRoom]
  /\ UNCHANGED <<value, mu, seen, warned, received>>

Store(g) ==
  /\ Step(g, "store", "unlock")
  /\ seen' = IF novel[g] THEN seen \cup {value[g]} ELSE seen
  /\ UNCHANGED <<value, novel, mu, warned, received>>

\* Mutant: the lookup is repeated after the store.
UnlockLookAgain(g) ==
  /\ mu' = NoOne
  /\ Step(g, "unlock", IF novel[g] /\ value[g] \notin seen THEN "warn" ELSE "idle")
  /\ UNCHANGED <<value, novel, seen, warned, received>>

\* Mutant: the early return leaves the mutex locked.
UnlockIfNovel(g) ==
  /\ mu' = IF novel[g] THEN NoOne ELSE mu
  /\ Step(g, "unlock", IF novel[g] THEN "warn" ELSE "idle")
  /\ UNCHANGED <<value, novel, seen, warned, received>>

Unlock(g) ==
  /\ mu' = NoOne
  /\ Step(g, "unlock", IF novel[g] THEN "warn" ELSE "idle")
  /\ UNCHANGED <<value, novel, seen, warned, received>>

\* Outside the mutex, for the caller's handler may be slow, or panic.
Warn(g) ==
  /\ Step(g, "warn", "idle")
  /\ warned' = [warned EXCEPT ![value[g]] = @ + 1]
  /\ UNCHANGED <<value, novel, mu, seen, received>>

Running(g) == Look(g) \/ Store(g) \/ Unlock(g) \/ Warn(g)

Next ==
  \E g \in Reader :
    \/ \E h \in Header : Receive(g, h)
    \/ Lock(g)
    \/ Running(g)

Spec == Init /\ [][Next]_vars

\* A goroutine keeps running, and sync.Mutex hands itself to a waiter that
\* has starved for a millisecond, so no waiter is passed over forever.
FairSpec ==
  /\ Spec
  /\ \A g \in Reader : WF_vars(Running(g)) /\ SF_vars(Lock(g))

-----------------------------------------------------------------------------
\* Past the blank check a reader has a notice in hand, the mutex is held by
\* the reader between Lock and Unlock, and the set holds notices only.
TypeOK ==
  /\ pc \in [Reader -> {"idle", "lock", "look", "store", "unlock", "warn"}]
  /\ value \in [Reader -> Notice \cup {Blank}]
  /\ novel \in [Reader -> BOOLEAN]
  /\ mu \in Reader \cup {NoOne}
  /\ seen \subseteq Notice
  /\ warned \in [Notice -> Nat]
  /\ received \subseteq Header
  /\ \A g \in Reader :
       /\ pc[g] # "idle" => value[g] \in Notice
       /\ pc[g] \in {"look", "store", "unlock"} <=> mu = g

\* logging.go:34 "once per distinct value": goroutines that meet a value at
\* the same time do not both warn about it.
WarnedAtMostOnce == \A v \in Notice : warned[v] <= 1

\* The set stays within maxSeenNotices, whoever adds to it: a gateway that
\* sends a new value on every response does not make the client grow.
SeenWithinCap == Cardinality(seen) <= Cap

\* A notice is dropped only because the set is full: one that arrived is in
\* the set, or on its way there, as long as the set has room.
DroppedOnlyWhenFull ==
  Cardinality(seen) < Cap =>
    \A h \in received :
      \/ Clean[h] \in seen \cup {Blank}
      \/ \E g \in Reader : value[g] = Clean[h] /\ pc[g] \in {"lock", "look", "store"}

\* A value that was marked as seen is warned about: marking first and warning
\* outside the mutex loses no warning.
SeenIsWarned == \A v \in Notice : v \in seen ~> warned[v] = 1

\* Every path through the critical section gives the mutex back, so every
\* response gets past the notice set.
ReaderFinishes == \A g \in Reader : pc[g] = "lock" ~> pc[g] = "idle"

=============================================================================
