------------------------------- MODULE Calls --------------------------------
(***************************************************************************)
(* Concurrent calls of clients that share their settings: the retry loop   *)
(* (retry.go), the attempts it puts on the wire (send, client.go), and the *)
(* environment those run in. Each call wants one task done. Calls that     *)
(* share a task are a caller that asks again, or a second goroutine or     *)
(* process doing the same work.                                            *)
(*                                                                         *)
(* Three parts are not in the repository and are modelled from how its     *)
(* code and documentation rely on them: the gateway's idempotency ledger,  *)
(* the network, which loses, delays and mangles, and net/http, which       *)
(* carries one attempt and may replay it.                                  *)
(***************************************************************************)
EXTENDS Operations, FiniteSets

CONSTANTS
  Call,        \* the calls
  Task,        \* what the calls want done
  Key,         \* idempotency keys
  TaskOf,      \* the task of a call
  OpOf,        \* the operation that does a task
  KeyOf,       \* the key the caller derives from a task
  MaxRetries,  \* WithMaxRetries
  Attempts,    \* RetryOptions.Attempts of a call, 0 for the client's policy
  HasTimeout,  \* the HTTP client of a call bounds its attempts
  MaxReplays   \* bound: transport replays of one call

ASSUME CallsAssumption ==
  /\ TaskOf \in [Call -> Task]
  /\ OpOf \in [Task -> Operation]
  /\ KeyOf \in [Task -> Key]
  /\ MaxRetries \in Nat /\ MaxReplays \in Nat
  /\ Attempts \in [Call -> Nat]
  /\ HasTimeout \in [Call -> BOOLEAN]

VARIABLES
  pc,        \* where a call is in retry and send
  attempt,   \* n of the retry loop
  ctxDone,   \* the caller's context ended
  result,    \* what the last attempt returned
  sent,      \* requests a call put on the wire, replays included
  replays,   \* how many of those net/http sent on its own
  wire,      \* requests on their way to the gateway
  answer,    \* the answer on the connection of a waiting attempt
  ledger,    \* the gateway's record of each key
  performed  \* how often the gateway did a task

callVars == <<pc, attempt, ctxDone, result, sent, replays>>
gatewayVars == <<ledger, performed>>
vars == <<callVars, wire, answer, gatewayVars>>

Op(c) == OpOf[TaskOf[c]]

NoReply == Plain(NoStatus, "text")

\* A call's requests are numbered in the order it put them on the wire.
Request == [call : Call, seq : Nat, key : Key]

\* The task and the request that opened a key, and the key's first answer.
Free == [state |-> "free"]
Entry == [state : {"running", "done"}, task : Task, by : Request,
          reply : Reply \cup {NoReply}]

-----------------------------------------------------------------------------
(***************************************************************************)
(* What the SDK decides.                                                   *)
(***************************************************************************)

\* Mutant: a retry makes up a key of its own.
RequestKeyPerAttempt(c, n) ==
  IF n = 0 THEN KeyOf[TaskOf[c]] ELSE CHOOSE k \in Key : k # KeyOf[TaskOf[c]]

\* The key on attempt n: the caller's, on every attempt.
RequestKey(c, n) == KeyOf[TaskOf[c]]

\* Mutant: DELETE, PATCH and the endpoint's POST run under the policy too.
BudgetForAll(c) == IF Attempts[c] > 0 THEN Attempts[c] - 1 ELSE MaxRetries

\* Mutant: RetryOptions.Attempts counts retries and not attempts.
BudgetOfAttempts(c) ==
  IF ~Op(c).retried THEN 0
  ELSE IF Attempts[c] > 0 THEN Attempts[c] ELSE MaxRetries

\* retryPolicy and sessionRetryPolicy: the retries that may follow attempt 0.
Budget(c) ==
  IF ~Op(c).retried THEN 0
  ELSE IF Attempts[c] > 0 THEN Attempts[c] - 1
  ELSE MaxRetries

\* The loop's exit: success, budget spent, nothing to retry, or no context.
Stops(c) ==
  \/ result[c].kind = "Ok"
  \/ attempt[c] >= Budget(c)
  \/ ~IsRetryable(result[c])
  \/ ctxDone[c]

Init ==
  /\ pc = [c \in Call |-> "idle"]
  /\ attempt = [c \in Call |-> 0]
  /\ ctxDone = [c \in Call |-> FALSE]
  /\ result = [c \in Call |-> NoResult]
  /\ sent = [c \in Call |-> 0]
  /\ replays = [c \in Call |-> 0]
  /\ wire = {}
  /\ answer = [c \in Call |-> NoReply]
  /\ ledger = [k \in Key |-> Free]
  /\ performed = [t \in Task |-> 0]

-----------------------------------------------------------------------------
(***************************************************************************)
(* The call: arguments, attempts, judgement, backoff.                      *)
(***************************************************************************)
Step(c, from, to) == pc[c] = from /\ pc' = [pc EXCEPT ![c] = to]

\* Mutant: the refusal's error is dropped.
RefuseSilently(c) ==
  /\ Step(c, "idle", "returned")
  /\ UNCHANGED <<attempt, ctxDone, result, sent, replays, wire, answer,
                 gatewayVars>>

\* prepare* and normalize* refuse the arguments: nothing is sent.
Refuse(c) ==
  /\ Step(c, "idle", "returned")
  /\ result' = [result EXCEPT ![c] = Err("ValidationError", NoStatus, NoCode)]
  /\ UNCHANGED <<attempt, ctxDone, sent, replays, wire, answer, gatewayVars>>

Invoke(c) ==
  /\ Step(c, "idle", "sending")
  /\ UNCHANGED <<attempt, ctxDone, result, sent, replays, wire, answer,
                 gatewayVars>>

PutOnWire(c) ==
  /\ sent' = [sent EXCEPT ![c] = @ + 1]
  /\ wire' = wire \cup {[call |-> c, seq |-> sent[c] + 1,
                         key |-> RequestKey(c, attempt[c])]}

Send(c) ==
  /\ ~ctxDone[c]
  /\ Step(c, "sending", "waiting")
  /\ PutOnWire(c)
  /\ UNCHANGED <<attempt, ctxDone, result, replays, answer, gatewayVars>>

\* Do returns the context's error without sending.
SendNothing(c) ==
  /\ ctxDone[c]
  /\ Step(c, "sending", "judging")
  /\ result' = [result EXCEPT ![c] = NoAnswer]
  /\ UNCHANGED <<attempt, ctxDone, sent, replays, wire, answer, gatewayVars>>

Receive(c) ==
  /\ answer[c] # NoReply
  /\ Step(c, "waiting", "judging")
  /\ result' = [result EXCEPT ![c] = Result(Op(c), answer[c])]
  /\ answer' = [answer EXCEPT ![c] = NoReply]
  /\ UNCHANGED <<attempt, ctxDone, sent, replays, wire, gatewayVars>>

\* Do fails: the connection broke, or it was cut by TimeOut. The request may
\* still reach the gateway later; its answer has nowhere to go.
Break(c) ==
  /\ Step(c, "waiting", "judging")
  /\ result' = [result EXCEPT ![c] = NoAnswer]
  /\ answer' = [answer EXCEPT ![c] = NoReply]
  /\ UNCHANGED <<attempt, ctxDone, sent, replays, wire, gatewayVars>>

\* Mutant: the client's timeout is not set on its HTTP client.
TimeOutOfContext(c) == ctxDone[c] /\ Break(c)

\* Mutant: the end of the context does not end the wait.
TimeOutOfClient(c) == HasTimeout[c] /\ Break(c)

TimeOut(c) == (HasTimeout[c] \/ ctxDone[c]) /\ Break(c)

Return(c) ==
  /\ Stops(c)
  /\ Step(c, "judging", "returned")
  /\ UNCHANGED <<attempt, ctxDone, result, sent, replays, wire, answer,
                 gatewayVars>>

BackOff(c) ==
  /\ ~Stops(c)
  /\ Step(c, "judging", "backoff")
  /\ UNCHANGED <<attempt, ctxDone, result, sent, replays, wire, answer,
                 gatewayVars>>

\* The timer fired first; the context may have ended as well. The next round
\* of the loop has a result of its own.
Wake(c) ==
  /\ Step(c, "backoff", "sending")
  /\ attempt' = [attempt EXCEPT ![c] = @ + 1]
  /\ result' = [result EXCEPT ![c] = NoResult]
  /\ UNCHANGED <<ctxDone, sent, replays, wire, answer, gatewayVars>>

\* "Retrying was cancelled": the last error is gone, its cause is the context.
CancelSleep(c) ==
  /\ ctxDone[c]
  /\ Step(c, "backoff", "returned")
  /\ result' = [result EXCEPT ![c] = NoAnswer]
  /\ UNCHANGED <<attempt, ctxDone, sent, replays, wire, answer, gatewayVars>>

\* The caller cancels, or its deadline passes, at any time.
EndContext(c) ==
  /\ ~ctxDone[c] /\ pc[c] # "returned"
  /\ ctxDone' = [ctxDone EXCEPT ![c] = TRUE]
  /\ UNCHANGED <<pc, attempt, result, sent, replays, wire, answer,
                 gatewayVars>>

-----------------------------------------------------------------------------
(***************************************************************************)
(* External: net/http and the network.                                     *)
(***************************************************************************)

\* A reused connection that breaks before the first byte of an answer: the
\* transport sends the same request again when it is a GET or carries an
\* Idempotency-Key header. The attempt then waits for that one's answer.
TransportReplay(c) ==
  /\ pc[c] = "waiting" /\ answer[c] = NoReply /\ ~ctxDone[c]
  /\ Op(c).keyed \/ Op(c).method = "GET"
  /\ replays[c] < MaxReplays
  /\ replays' = [replays EXCEPT ![c] = @ + 1]
  /\ PutOnWire(c)
  /\ UNCHANGED <<pc, attempt, ctxDone, result, answer, gatewayVars>>

LoseRequest(q) ==
  /\ wire' = wire \ {q}
  /\ UNCHANGED <<callVars, answer, gatewayVars>>

\* The answer is cut short or grows past the cap, or a proxy answers instead.
Mangle(c) ==
  /\ answer[c] # NoReply
  /\ \E r \in {Plain(answer[c].status, "unreadable"), Plain(503, "text")} :
       answer' = [answer EXCEPT ![c] = r]
  /\ UNCHANGED <<callVars, wire, gatewayVars>>

-----------------------------------------------------------------------------
(***************************************************************************)
(* External: the gateway.                                                  *)
(***************************************************************************)

\* The connection of a request that was given up, or replayed, is closed.
AnswerTo(q, r) ==
  answer' = IF pc[q.call] = "waiting" /\ sent[q.call] = q.seq
            THEN [answer EXCEPT ![q.call] = r]
            ELSE answer

Arrive(q, r) ==
  /\ wire' = wire \ {q}
  /\ AnswerTo(q, r)
  /\ UNCHANGED callVars

\* Answers in front of the ledger: nothing was looked at, nothing was done.
GateReplies == {Plain(503, "text"), Coded(429, "OTHER")}

Refused(op, code) ==
  IF op.read = "session" THEN [Plain(200, "json") EXCEPT !.inner = code]
  ELSE IF code = "PAYMENT_PROCESSING_UNAVAILABLE" THEN Coded(503, code)
  ELSE IF code = "DUPLICATE_REQUEST" THEN Coded(409, code)
  ELSE Coded(422, code)

\* What doing a keyed task can come to: whether it was done, and the answer.
Verdicts(op) ==
  {[done |-> 1, reply |-> Row(201, "placed")]} \cup
  IF op.read = "charge"
  THEN {[done |-> 0, reply |-> Row(402, "declined")],
        [done |-> 0, reply |-> Coded(502, "CHARGE_FAILED")]} \cup
       [done : {0, 1},
        reply : {[Coded(502, "CHARGE_OUTCOME_UNKNOWN") EXCEPT !.data = "open"]}]
  ELSE {[done |-> 0, reply |-> Refused(op, "OTHER")]}

TurnAway(q) ==
  /\ \E r \in GateReplies : Arrive(q, r)
  /\ UNCHANGED gatewayVars

\* Card processing is off; the key is not spent.
Unavailable(q) ==
  /\ Op(q.call).read \in {"session", "charge"}
  /\ ledger[q.key].state = "free"
  /\ Arrive(q, Refused(Op(q.call), "PAYMENT_PROCESSING_UNAVAILABLE"))
  /\ UNCHANGED gatewayVars

Begin(q) ==
  /\ Op(q.call).keyed
  /\ ledger[q.key].state = "free"
  /\ ledger' = [ledger EXCEPT ![q.key] =
                  [state |-> "running", task |-> TaskOf[q.call], by |-> q,
                   reply |-> NoReply]]
  /\ wire' = wire \ {q}
  /\ UNCHANGED <<callVars, answer, performed>>

Finish(k) ==
  /\ ledger[k].state = "running"
  /\ \E v \in Verdicts(OpOf[ledger[k].task]) :
       /\ ledger' = [ledger EXCEPT ![k].state = "done", ![k].reply = v.reply]
       /\ performed' = [performed EXCEPT ![ledger[k].task] = @ + v.done]
       /\ AnswerTo(ledger[k].by, v.reply)
  /\ UNCHANGED <<callVars, wire>>

\* The key is taken: by a request still running, or by another task.
Collide(q) ==
  /\ Op(q.call).keyed
  /\ LET e == ledger[q.key] IN
       \/ /\ e.state = "running" /\ e.task = TaskOf[q.call]
          /\ Arrive(q, Refused(Op(q.call), "DUPLICATE_REQUEST"))
       \/ /\ e.state # "free" /\ e.task # TaskOf[q.call]
          /\ Arrive(q, Refused(Op(q.call), "OTHER"))
  /\ UNCHANGED gatewayVars

AnswerAgain(q) ==
  /\ Op(q.call).keyed
  /\ ledger[q.key].state = "done" /\ ledger[q.key].task = TaskOf[q.call]
  /\ Arrive(q, ledger[q.key].reply)
  /\ UNCHANGED gatewayVars

\* A read, or a DELETE or PATCH, which the gateway does as often as it comes.
Execute(q) ==
  /\ ~Op(q.call).keyed
  /\ Arrive(q, Row(200, "placed"))
  /\ performed' = IF Op(q.call).method = "GET" THEN performed
                  ELSE [performed EXCEPT ![TaskOf[q.call]] = @ + 1]
  /\ UNCHANGED ledger

-----------------------------------------------------------------------------
SdkStep(c) ==
  \/ Send(c) \/ SendNothing(c) \/ Receive(c) \/ TimeOut(c)
  \/ Return(c) \/ BackOff(c) \/ Wake(c) \/ CancelSleep(c)

CallStep(c) ==
  \/ Refuse(c) \/ Invoke(c) \/ SdkStep(c) \/ EndContext(c)
  \/ Break(c) \/ TransportReplay(c) \/ Mangle(c)

RequestStep(q) ==
  \/ LoseRequest(q) \/ TurnAway(q) \/ Unavailable(q) \/ Begin(q)
  \/ Collide(q) \/ AnswerAgain(q) \/ Execute(q)

Next ==
  \/ \E c \in Call : CallStep(c)
  \/ \E q \in wire : RequestStep(q)
  \/ \E k \in Key : Finish(k)

Spec == Init /\ [][Next]_vars

\* A goroutine keeps running: it sends, judges and sleeps, and a timeout or
\* an ended context ends its wait. Nothing of the network or the gateway is
\* fair, and no caller has to call or to cancel.
FairSpec == Spec /\ \A c \in Call : WF_vars(SdkStep(c))
=============================================================================
