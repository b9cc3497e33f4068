------------------------------- MODULE Inbox --------------------------------
(***************************************************************************)
(* What a webhook receiver with an in-memory dedupe set promises: between  *)
(* two restarts an event is claimed once and its work is done at most      *)
(* once, and the platform is told "received" only of an event that was     *)
(* claimed. A restart forgets the claims, and it loses what was claimed    *)
(* and not yet done.                                                       *)
(***************************************************************************)
EXTENDS Naturals

CONSTANT Event

VARIABLES
  stage,  \* of an event, since the last restart
  times,  \* how often its work was done, ever
  lost,   \* events whose work a restart interrupted
  acked   \* events the platform was told of

vars == <<stage, times, lost, acked>>

Init ==
  /\ stage = [e \in Event |-> "new"]
  /\ times = [e \in Event |-> 0]
  /\ lost = {}
  /\ acked = {}

Claim(e) ==
  /\ stage[e] = "new"
  /\ stage' = [stage EXCEPT ![e] = "claimed"]
  /\ UNCHANGED <<times, lost, acked>>

Work(e) ==
  /\ stage[e] = "claimed"
  /\ stage' = [stage EXCEPT ![e] = "worked"]
  /\ times' = [times EXCEPT ![e] = @ + 1]
  /\ UNCHANGED <<lost, acked>>

Acknowledge(e) ==
  /\ stage[e] # "new" \/ times[e] > 0 \/ e \in lost
  /\ acked' = acked \cup {e}
  /\ UNCHANGED <<stage, times, lost>>

Restart ==
  /\ stage' = [e \in Event |-> "new"]
  /\ lost' = lost \cup {e \in Event : stage[e] = "claimed"}
  /\ UNCHANGED <<times, acked>>

Next ==
  \/ Restart
  \/ \E e \in Event : Claim(e) \/ Work(e) \/ Acknowledge(e)

Spec == Init /\ [][Next]_vars
=============================================================================
