---------------------------- MODULE OncePerTask -----------------------------
(***************************************************************************)
(* What the keyed calls promise, whatever the network does: a task is done *)
(* at most once, its fate never changes, and a call that returns either    *)
(* reports that fate or admits that it does not know. No two calls ever    *)
(* report opposite fates of one task.                                      *)
(***************************************************************************)
CONSTANTS Call, Task, TaskOf

VARIABLES
  fate,  \* what became of a task
  told   \* what a call reported to its caller

Init ==
  /\ fate = [t \in Task |-> "open"]
  /\ told = [c \in Call |-> "nothing"]

Settle(t) ==
  /\ fate[t] = "open"
  /\ \E f \in {"placed", "declined"} : fate' = [fate EXCEPT ![t] = f]
  /\ UNCHANGED told

Tell(c) ==
  /\ told[c] = "nothing"
  /\ \E v \in {"unsure", fate[TaskOf[c]]} \ {"open"} :
       told' = [told EXCEPT ![c] = v]
  /\ UNCHANGED fate

Next == (\E t \in Task : Settle(t)) \/ (\E c \in Call : Tell(c))

Spec == Init /\ [][Next]_<<fate, told>>
=============================================================================
