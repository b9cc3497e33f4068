------------------------------ MODULE Exchange ------------------------------
(***************************************************************************)
(* One attempt of one operation, answered with any reply an API, or an     *)
(* edge or proxy in front of it, can send. The classification of Replies   *)
(* and Operations is checked against the error contract of the README and  *)
(* of the doc comments.                                                    *)
(***************************************************************************)
EXTENDS Operations

CONSTANTS WireStatuses,  \* the statuses this run sends
          WireCodes      \* the error codes this run sends

ASSUME WireAssumption ==
  /\ WireStatuses \subseteq Statuses
  /\ WireCodes \subseteq Codes /\ NoCode \in WireCodes

VARIABLES op, reply, result

vars == <<op, reply, result>>

\* A proxy may put any status on any body.
WireReplies ==
  {r \in [status : WireStatuses, body : Bodies, success : BOOLEAN,
          data : DataKinds, code : WireCodes, inner : WireCodes] : WellFormed(r)}

Init ==
  /\ op \in Operation
  /\ reply \in WireReplies
  /\ result = NoResult

Attempt ==
  /\ result = NoResult
  /\ result' = Result(op, reply)
  /\ UNCHANGED <<op, reply>>

Spec == Init /\ [][Attempt]_vars

-----------------------------------------------------------------------------
(***************************************************************************)
(* The retry table of the README ("Automatic retries"), written from the   *)
(* reply and not from the errors: a 5xx the route does not own, and card   *)
(* processing being unavailable on a session or a charge.                  *)
(***************************************************************************)
OwnAnswer(o, r) ==
  CASE o.read = "charge" ->
         \/ r.code \in {"CHARGE_OUTCOME_UNKNOWN", "CHARGE_FAILED",
                        "PAYMENT_METHOD_CHARGES_DISABLED"}
         \/ r.success /\ IsRow(r.data)
    [] o.read = "revoke" ->
         r.code \in {"UPSTREAM_CONTRACT_ERROR", "MERCHANT_API_UNAVAILABLE"}
    [] OTHER -> FALSE

Unavailable(o, r) ==
  /\ o.read = "session" /\ r.status < 300 /\ r.body = "json"
  /\ r.inner = "PAYMENT_PROCESSING_UNAVAILABLE"
  /\ r.data # "odd" /\ ~(r.success /\ IsRow(r.data))

\* The answers that two lines of the table claim: a 4xx, never retried, and
\* also a network failure, for its body cannot be read, or also a charge's
\* PAYMENT_PROCESSING_UNAVAILABLE, both of which are.
Contested(o, r) ==
  /\ r.status \in 400..499
  /\ \/ r.body = "unreadable"
     \/ o.read = "charge" /\ r.code = "PAYMENT_PROCESSING_UNAVAILABLE"

\* A body that breaks off is a network failure, a 5xx of an edge stays
\* retryable whatever its body, and every other answer is final: the client
\* never sends again what the API already decided.
RetriesWhatIsDocumented ==
  result # NoResult /\ ~Contested(op, reply) =>
    (IsRetryable(result) <=>
       \/ reply.body = "unreadable" /\ reply.status < 300
       \/ reply.status >= 500 /\ ~OwnAnswer(op, reply)
       \/ Unavailable(op, reply))

\* A charge the gateway decided, or may have made, reaches the caller with
\* its row: a decline is a result and an unknown outcome keeps the row to
\* reconcile with, so neither is mistaken for a charge that never happened.
ChargeRowNeverLost ==
  /\ result # NoResult /\ op.read = "charge"
  /\ reply.body = "json" /\ IsRow(reply.data)
  /\ \/ reply.success /\ reply.status \in 200..299
     \/ reply.status = 402
     \/ reply.status = 502 /\ reply.code = "CHARGE_OUTCOME_UNKNOWN"
  => result.data = reply.data /\ ~IsRetryable(result)
=============================================================================
