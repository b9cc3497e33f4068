-------------------------- MODULE CallsProperties ---------------------------
(***************************************************************************)
(* What the calls of a client must keep to, for the system of Calls.       *)
(***************************************************************************)
EXTENDS Calls

Keyed(t) == OpOf[t].keyed

\* The variables hold what the code's types and counters allow; a call has
\* left its loop with a result, and waits only for an answer of its own.
TypeOK ==
  /\ pc \in [Call -> {"idle", "sending", "waiting", "judging", "backoff",
                      "returned"}]
  /\ attempt \in [Call -> Nat]
  /\ ctxDone \in [Call -> BOOLEAN]
  /\ result \in [Call -> Outcome \cup {NoResult}]
  /\ sent \in [Call -> Nat]
  /\ replays \in [Call -> Nat]
  /\ wire \subseteq Request
  /\ answer \in [Call -> Reply \cup {NoReply}]
  /\ ledger \in [Key -> Entry \cup {Free}]
  /\ performed \in [Task -> Nat]
  /\ \A c \in Call :
       /\ pc[c] \in {"judging", "backoff", "returned"} => result[c] # NoResult
       /\ answer[c] # NoReply => pc[c] = "waiting"

\* errors.go:821 "a retried key never creates a second payment": retries,
\* transport replays, late requests and other calls for the same task
\* together do a keyed task at most once.
AtMostOnce == \A t \in Task : Keyed(t) => performed[t] <= 1

\* README, "Automatic retries": a call is sent at most WithMaxRetries + 1
\* times (RetryOptions.Attempts on the deprecated method), apart from the
\* requests net/http repeats; DELETE, PATCH and CreateWebhookEndpoint once.
SendsWithinBudget ==
  \A c \in Call : sent[c] - replays[c] <=
    IF ~Op(c).retried THEN 1
    ELSE IF Attempts[c] > 0 THEN Attempts[c]
    ELSE MaxRetries + 1

\* A write without a key is never put on the wire twice by one call, so a
\* revoke or an archive reaches the gateway at most once.
UnkeyedWriteSentOnce ==
  \A c \in Call :
    ~Op(c).keyed /\ Op(c).method # "GET" =>
      sent[c] <= 1 /\ Cardinality({q \in wire : q.call = c}) <= 1

-----------------------------------------------------------------------------
\* What a result says about the fate of the task.
Verdict(o) ==
  IF o.kind = "Ok" /\ o.data \in {"placed", "declined"} THEN o.data
  ELSE IF o.kind = "ChargeError" /\ o.code = "CHARGE_FAILED" THEN "declined"
  ELSE "unsure"

\* What a call has read of its task's fate is never lost to a retry, a late
\* cancellation or a timeout: it is what the call returns.
VerdictIsKept ==
  [][\A c \in Call : Verdict(result[c]) # "unsure" => result'[c] = result[c]
    ]_vars

-----------------------------------------------------------------------------
(***************************************************************************)
(* Refinement: the keyed calls implement OncePerTask.                      *)
(***************************************************************************)
KeyedTask == {t \in Task : Keyed(t)}
KeyedCall == {c \in Call : Op(c).keyed}

Undecided(r) == r.code = "CHARGE_OUTCOME_UNKNOWN"

FateOf(t) ==
  LET e == ledger[KeyOf[t]] IN
  IF performed[t] > 1 THEN "twice"
  ELSE IF performed[t] = 1 THEN "placed"
  ELSE IF e.state = "done" /\ e.task = t /\ ~Undecided(e.reply) THEN "declined"
  ELSE "open"

ToldBy(c) == IF pc[c] = "returned" THEN Verdict(result[c]) ELSE "nothing"

Promise ==
  INSTANCE OncePerTask WITH
    Call <- KeyedCall, Task <- KeyedTask,
    fate <- [t \in KeyedTask |-> FateOf(t)],
    told <- [c \in KeyedCall |-> ToldBy(c)]

\* Every behaviour of the keyed calls is one OncePerTask allows: the fate of
\* a task is settled once, and what calls report agrees with it.
KeepsPromise == Promise!Spec

-----------------------------------------------------------------------------
\* A call that started returns: the budget, the timeout and the backoff leave
\* nothing to wait for forever, however the network behaves.
CallReturns ==
  \A c \in Call : HasTimeout[c] /\ pc[c] = "sending" ~> pc[c] = "returned"

\* A call whose context ends returns, even without a timeout of the client.
CancelReturns ==
  \A c \in Call : ctxDone[c] /\ pc[c] # "idle" ~> pc[c] = "returned"

-----------------------------------------------------------------------------
(***************************************************************************)
(* What the documentation says and the code does not do.                   *)
(***************************************************************************)

\* README.md:876 "Nothing was charged" on ChargeErrorDuplicateRequest and
\* ChargeErrorProcessingUnavailable.
NothingChargedMeansNothing ==
  \A c \in Call :
    /\ pc[c] = "returned" /\ result[c].kind = "ChargeError"
    /\ result[c].code \in {"DUPLICATE_REQUEST", "PAYMENT_PROCESSING_UNAVAILABLE"}
    => performed[TaskOf[c]] = 0

\* retry_test.go:253 "a lost answer must come back to the caller, not turn
\* into a second POST", of CreateWebhookEndpoint.
EndpointPostedOnce ==
  \A c \in Call : Op(c) = CreateWebhookEndpoint => sent[c] <= 1
=============================================================================
