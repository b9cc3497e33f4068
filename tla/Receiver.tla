------------------------------ MODULE Receiver ------------------------------
(***************************************************************************)
(* The webhook handler of examples/webhook-handler, one goroutine for each *)
(* delivery, and the platform that delivers at least once: it sends an     *)
(* event again when an attempt was refused, was slow or lost its answer,   *)
(* while the handler may still be busy with that attempt. The process may  *)
(* restart at any time, and its seen set is in memory.                     *)
(*                                                                         *)
(* VerifyWebhook accepts a delivery or not; its verdict is the module      *)
(* VerifyWebhook's.                                                        *)
(***************************************************************************)
EXTENDS Naturals

CONSTANTS
  Event,         \* events, by delivery id
  NoOne,         \* the holder of a free mutex
  Attempts,      \* 1 + the endpoint's RetryCount
  MaxRestarts    \* bound: restarts of the process

\* The n-th attempt to deliver an event.
Delivery == Event \X (1..Attempts)

ASSUME ReceiverAssumption ==
  /\ NoOne \notin Delivery
  /\ Attempts \in Nat /\ MaxRestarts \in Nat

VARIABLES
  \* the platform
  sent,       \* attempts made for an event
  waiting,    \* whether it waits for the answer to the last of them
  delivered,  \* events with a 2xx in time
  \* the receiver
  pc,         \* where ServeHTTP is with a delivery
  mu,         \* the holder of h.mu
  seen,       \* h.seen
  restarts,
  \* history
  worked,     \* how often the work of an event was done
  interrupted \* events whose work a restart cut short

platform == <<sent, waiting, delivered>>
handler == <<mu, seen, restarts>>
history == <<worked, interrupted>>
vars == <<platform, pc, handler, history>>

Init ==
  /\ sent = [e \in Event |-> 0]
  /\ waiting = [e \in Event |-> FALSE]
  /\ delivered = {}
  /\ pc = [d \in Delivery |-> "unsent"]
  /\ mu = NoOne
  /\ seen = {}
  /\ restarts = 0
  /\ worked = [e \in Event |-> 0]
  /\ interrupted = {}

Step(d, from, to) == pc[d] = from /\ pc' = [pc EXCEPT ![d] = to]

-----------------------------------------------------------------------------
(***************************************************************************)
(* The platform.                                                           *)
(***************************************************************************)
\* The first attempt, or a retry after one that failed.
Send(e) ==
  /\ e \notin delivered /\ ~waiting[e] /\ sent[e] < Attempts
  /\ Step(<<e, sent[e] + 1>>, "unsent", "sent")
  /\ sent' = [sent EXCEPT ![e] = @ + 1]
  /\ waiting' = [waiting EXCEPT ![e] = TRUE]
  /\ UNCHANGED <<delivered, handler, history>>

\* The attempt is too slow, or its connection broke. It may still arrive, or
\* be at work.
GiveUp(e) ==
  /\ waiting[e]
  /\ waiting' = [waiting EXCEPT ![e] = FALSE]
  /\ UNCHANGED <<sent, delivered, pc, handler, history>>

\* An answer arrives. It counts if it is to the attempt the platform waits
\* for.
Answered(d) ==
  LET e == d[1]
      awaited == waiting[e] /\ d[2] = sent[e]
  IN
  /\ pc[d] \in {"ok", "refused"}
  /\ pc' = [pc EXCEPT ![d] = "closed"]
  /\ waiting' = [waiting EXCEPT ![e] = @ /\ ~awaited]
  /\ delivered' = IF awaited /\ pc[d] = "ok" THEN delivered \cup {e} ELSE delivered
  /\ UNCHANGED <<sent, handler, history>>

-----------------------------------------------------------------------------
(***************************************************************************)
(* ServeHTTP.                                                              *)
(***************************************************************************)
\* Answered 400: the body broke off, or VerifyWebhook returned an error.
Refuse(d) ==
  /\ Step(d, "sent", "refused")
  /\ UNCHANGED <<platform, handler, history>>

\* VerifyWebhook returned the event.
Accept(d) ==
  /\ Step(d, "sent", "lock")
  /\ UNCHANGED <<platform, handler, history>>

\* Mutant: firstTime without its mutex.
LockNothing(d) ==
  /\ Step(d, "lock", "look")
  /\ UNCHANGED <<platform, handler, history>>

Lock(d) ==
  /\ mu = NoOne
  /\ mu' = d
  /\ Step(d, "lock", "look")
  /\ UNCHANGED <<platform, seen, restarts, history>>

Look(d) ==
  /\ Step(d, "look", IF d[1] \in seen THEN "repeat" ELSE "mark")
  /\ UNCHANGED <<platform, handler, history>>

\* Mutant: the early return of firstTime leaves the mutex locked.
RepeatKeepsLock(d) ==
  /\ Step(d, "repeat", "ok")
  /\ UNCHANGED <<platform, handler, history>>

\* A duplicate is answered 200 without work.
Repeat(d) ==
  /\ Step(d, "repeat", "ok")
  /\ mu' = NoOne
  /\ UNCHANGED <<platform, seen, restarts, history>>

\* Mutant: the answer of firstTime is read the wrong way round.
MarkAndAnswer(d) ==
  /\ Step(d, "mark", "ok")
  /\ seen' = seen \cup {d[1]}
  /\ mu' = NoOne
  /\ UNCHANGED <<platform, restarts, history>>

\* Claimed, and the mutex given back, before the work.
Mark(d) ==
  /\ Step(d, "mark", "work")
  /\ seen' = seen \cup {d[1]}
  /\ mu' = NoOne
  /\ UNCHANGED <<platform, restarts, history>>

\* The work of the event's type, which for an unknown type is none; then 200.
Work(d) ==
  /\ Step(d, "work", "ok")
  /\ worked' = [worked EXCEPT ![d[1]] = @ + 1]
  /\ UNCHANGED <<platform, handler, interrupted>>

AtWork(e) == \E n \in 1..Attempts : pc[<<e, n>>] = "work"

\* The process dies and starts with an empty seen set. Answers already written
\* may still arrive.
Restart ==
  /\ restarts < MaxRestarts
  /\ restarts' = restarts + 1
  /\ pc' = [d \in Delivery |->
              IF pc[d] \in {"unsent", "sent", "ok", "refused"} THEN pc[d] ELSE "closed"]
  /\ mu' = NoOne
  /\ seen' = {}
  /\ interrupted' = interrupted \cup {e \in Event : AtWork(e)}
  /\ UNCHANGED <<platform, worked>>

Running(d) == Look(d) \/ Repeat(d) \/ Mark(d) \/ Work(d)

Next ==
  \/ \E e \in Event : Send(e) \/ GiveUp(e)
  \/ \E d \in Delivery :
       Refuse(d) \/ Accept(d) \/ Lock(d) \/ Running(d) \/ Answered(d)
  \/ Restart

Spec == Init /\ [][Next]_vars

\* A goroutine keeps running, and no waiter of a sync.Mutex starves. Nothing
\* of the network or the platform is fair.
FairSpec ==
  /\ Spec
  /\ \A d \in Delivery : WF_vars(Running(d)) /\ SF_vars(Lock(d))

-----------------------------------------------------------------------------
\* The mutex is held by the delivery that looks or marks, and the platform
\* waits only for an attempt it has made.
TypeOK ==
  /\ sent \in [Event -> 0..Attempts]
  /\ waiting \in [Event -> BOOLEAN]
  /\ \A e \in Event : waiting[e] => sent[e] > 0
  /\ delivered \subseteq Event
  /\ pc \in [Delivery -> {"unsent", "sent", "refused", "lock", "look",
                          "repeat", "mark", "work", "ok", "closed"}]
  /\ \A d \in Delivery : pc[d] = "unsent" <=> d[2] > sent[d[1]]
  /\ mu \in Delivery \cup {NoOne}
  /\ \A d \in Delivery : pc[d] \in {"look", "repeat", "mark"} <=> mu = d
  /\ seen \subseteq Event
  /\ restarts \in 0..MaxRestarts
  /\ worked \in [Event -> Nat]
  /\ interrupted \subseteq Event

\* The receiver's promise (main.go:77, main.go:109): however deliveries
\* overlap, an event is claimed once and worked on at most once between two
\* restarts, and what the platform takes for delivered was claimed. An event
\* that is claimed and not done is lost only by a restart.
Inbox == INSTANCE Inbox WITH
  stage <- [e \in Event |-> IF e \notin seen THEN "new"
                            ELSE IF AtWork(e) THEN "claimed" ELSE "worked"],
  times <- worked,
  lost  <- interrupted,
  acked <- delivered

KeepsInbox == Inbox!Spec

\* A delivery past the signature check is answered unless the process dies:
\* every path through firstTime gives the mutex back (main.go:111).
HandlerAnswers ==
  \A d \in Delivery : pc[d] = "lock" ~> pc[d] \in {"ok", "closed"}

\* An event the platform will not send again is worked on, unless a restart
\* cut that work short: a duplicate that was answered while the first
\* delivery was still at work does not lose it (main.go:77).
DeliveredIsWorked ==
  \A e \in Event : e \in delivered ~> worked[e] > 0 \/ e \in interrupted
=============================================================================
