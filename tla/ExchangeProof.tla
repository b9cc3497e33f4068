--------------------------- MODULE ExchangeProof ----------------------------
(***************************************************************************)
(* What one attempt of any operation makes of any reply, for every set of  *)
(* statuses and codes that the API or a proxy may send.                    *)
(***************************************************************************)
EXTENDS Exchange, TLAPS

\* The result is that of the operation and of the reply.
Answered ==
  /\ op \in Operation /\ reply \in WireReplies
  /\ result \in {NoResult, Result(op, reply)}

LEMMA AlwaysAnswered == Spec => []Answered
<1>1. Init => Answered
  BY DEF Init, Answered
<1>2. Answered /\ [Attempt]_vars => Answered'
  BY DEF Answered, Attempt, vars, WireReplies
<1> QED
  BY <1>1, <1>2, PTL DEF Spec

\* A reply of the wire.
LEMMA WireReply ==
  ASSUME NEW r \in WireReplies
  PROVE  r \in Reply /\ WellFormed(r)
  BY WireAssumption DEF WireReplies, Reply

-----------------------------------------------------------------------------
(***************************************************************************)
(* The generic readings.                                                   *)
(***************************************************************************)
LEMMA GenericRetries ==
  ASSUME NEW r \in Reply
  PROVE  /\ IsRetryable(Rejection(r)) <=> r.status >= 500
         /\ ~IsRetryable(Unexpected(r)) /\ ~IsRetryable(Ok(r))
         /\ RequestFails(r) => (IsRetryable(RequestError(r)) <=> r.status >= 500)
<1>1. IsRetryable(Rejection(r)) <=> r.status >= 500
  BY DEF IsRetryable, Rejection, Err
<1>2. ~IsRetryable(Unexpected(r)) /\ ~IsRetryable(Ok(r))
  BY DEF IsRetryable, Unexpected, Ok, Err
<1>3. r.status >= 400 \/ ~(r.status >= 500)
  BY DEF Reply, Statuses
<1> QED
  BY <1>1, <1>2, <1>3 DEF RequestError

LEMMA SendRetries ==
  ASSUME NEW r \in Reply, SendFails(r)
  PROVE  IsRetryable(SendError(r)) <=> r.body = "unreadable" /\ r.status \notin 300..399
  BY DEF SendFails, SendError, Redirected, IsRetryable, Err

\* A body that send let through was read, and its status is no redirect's.
LEMMA SentOn ==
  ASSUME NEW r \in Reply, ~SendFails(r)
  PROVE  /\ r.body # "unreadable" /\ r.status \in Statuses
         /\ r.status < 300 \/ r.status >= 400
         /\ r.status \notin {401, 403, 429}
  BY DEF SendFails, Redirected, Reply, Statuses

-----------------------------------------------------------------------------
(***************************************************************************)
(* The readers.                                                            *)
(***************************************************************************)
LEMMA PlainRetries ==
  ASSUME NEW r \in Reply, ~SendFails(r), WellFormed(r)
  PROVE  /\ IsRetryable(ReadPayload(r)) <=> r.status >= 500
         /\ IsRetryable(ReadContract(r)) <=> r.status >= 500
         /\ IsRetryable(ReadDelete(r)) <=> r.status >= 500
         /\ IsRetryable(ReadObject(r)) <=> r.status >= 500
         /\ IsRetryable(ReadList(r)) <=> r.status >= 500
         /\ IsRetryable(ReadRefund(r)) <=> r.status >= 500
<1>1. r.status >= 500 => r.status >= 400
  BY SentOn DEF Statuses
<1>2. RequestFails(r) \/ ~(r.status >= 400)
  BY DEF RequestFails
<1>3. IsRetryable(ReadPayload(r)) <=> r.status >= 500
  BY <1>1, <1>2, GenericRetries DEF ReadPayload
<1>4. IsRetryable(ReadContract(r)) <=> r.status >= 500
  BY <1>1, <1>2, <1>3, GenericRetries DEF ReadContract
<1>5. /\ IsRetryable(ReadDelete(r)) <=> r.status >= 500
      /\ IsRetryable(ReadObject(r)) <=> r.status >= 500
      /\ IsRetryable(ReadList(r)) <=> r.status >= 500
  BY <1>1, GenericRetries DEF ReadDelete, ReadObject, ReadList
<1>6. IsRetryable(RefundRejection(r)) <=> r.status >= 500
  <2>1. r.status < 500 <=> ~(r.status >= 500)
    BY SentOn DEF Statuses
  <2>2. ~IsRetryable(Err("RefundError", r.status, r.code))
    BY DEF IsRetryable, Err
  <2> QED
    BY <2>1, <2>2, GenericRetries DEF RefundRejection
<1>7. IsRetryable(ReadRefund(r)) <=> r.status >= 500
  BY <1>1, <1>6, GenericRetries DEF ReadRefund
<1> QED
  BY <1>3, <1>4, <1>5, <1>7

LEMMA SessionRetries ==
  ASSUME NEW r \in Reply, ~SendFails(r)
  PROVE  IsRetryable(ReadSession(r)) <=>
           \/ r.status >= 500
           \/ /\ r.status < 300 /\ r.body = "json"
              /\ r.inner = "PAYMENT_PROCESSING_UNAVAILABLE"
              /\ r.data # "odd" /\ ~(r.success /\ IsRow(r.data))
<1>1. RequestFails(r) <=> ~(r.status < 300) \/ r.body # "json"
  BY SentOn DEF RequestFails, Statuses
<1>2. r.status >= 500 => ~(r.status < 300)
  BY SentOn DEF Statuses
<1>3. IsRetryable(Err("RefusalError", r.status, First(r.inner, "UNKNOWN")))
        <=> r.inner = "PAYMENT_PROCESSING_UNAVAILABLE"
  BY DEF IsRetryable, Err, First, NoCode
<1> QED
  BY <1>1, <1>2, <1>3, GenericRetries DEF ReadSession

\* A charge that is answered unavailable at a 4xx that the route may use.
UnavailableCharge(r) ==
  /\ r.status \in 400..499 /\ r.status \notin {400, 401, 403, 429}
  /\ r.code = "PAYMENT_PROCESSING_UNAVAILABLE"
  /\ ~(IsRow(r.data) /\ (r.success \/ r.status = 402))

LEMMA ChargeRetries ==
  ASSUME NEW r \in Reply, ~SendFails(r)
  PROVE  IsRetryable(ReadCharge(r)) <=>
           \/ /\ r.status >= 500
              /\ r.code \notin {"CHARGE_OUTCOME_UNKNOWN", "CHARGE_FAILED",
                               "PAYMENT_METHOD_CHARGES_DISABLED"}
              /\ ~(r.success /\ IsRow(r.data))
           \/ UnavailableCharge(r)
<1>1. /\ r.status >= 500 => r.status >= 400 /\ r.status # 402 /\ r.status \notin 400..499
      /\ r.status \in 400..499 <=> r.status >= 400 /\ ~(r.status >= 500)
  BY SentOn DEF Statuses
<1>2. ASSUME NEW d \in DataKinds
      PROVE  IsRetryable([Err("ChargeError", r.status, r.code) EXCEPT !.data = d])
               <=> r.code = "PAYMENT_PROCESSING_UNAVAILABLE"
  BY DEF IsRetryable, Err
<1>3. (IF IsRow(r.data) THEN r.data ELSE "absent") \in DataKinds
  BY DEF Reply, DataKinds
<1>4. CASE IsRow(r.data) /\ (r.success \/ r.status = 402)
  BY <1>1, <1>4, GenericRetries DEF ReadCharge, UnavailableCharge
<1>5. CASE /\ ~(IsRow(r.data) /\ (r.success \/ r.status = 402))
           /\ r.code # NoCode
           /\ IsRouteErrorStatus(r.status, r.code, ChargeServerErrorCodes)
  <2>1. IsRetryable(ReadCharge(r)) <=> r.code = "PAYMENT_PROCESSING_UNAVAILABLE"
    BY <1>2, <1>3, <1>5 DEF ReadCharge
  <2>2. /\ r.status >= 400 /\ r.status \notin {400, 401, 403, 429}
        /\ r.status >= 500 => r.code \in ChargeServerErrorCodes
    BY <1>5 DEF IsRouteErrorStatus
  <2> QED
    BY <1>1, <1>5, <2>1, <2>2 DEF ChargeServerErrorCodes, UnavailableCharge
<1>6. CASE /\ ~(IsRow(r.data) /\ (r.success \/ r.status = 402))
           /\ ~(/\ r.code # NoCode
                /\ IsRouteErrorStatus(r.status, r.code, ChargeServerErrorCodes))
  <2>1. IsRetryable(ReadCharge(r)) <=> r.status >= 500
    BY <1>1, <1>6, GenericRetries DEF ReadCharge
  <2>2. r.status >= 500 => r.code \notin ChargeServerErrorCodes
    BY <1>1, <1>6, SentOn DEF IsRouteErrorStatus, ChargeServerErrorCodes, NoCode, Statuses
  <2>3. ~UnavailableCharge(r)
    BY <1>1, <1>6 DEF UnavailableCharge, IsRouteErrorStatus, NoCode
  <2> QED
    BY <1>1, <1>6, <2>1, <2>2, <2>3 DEF ChargeServerErrorCodes
<1> QED
  BY <1>4, <1>5, <1>6

LEMMA RevokeRetries ==
  ASSUME NEW r \in Reply, ~SendFails(r)
  PROVE  IsRetryable(ReadRevoke(r)) <=>
           r.status >= 500 /\ r.code \notin {"UPSTREAM_CONTRACT_ERROR", "MERCHANT_API_UNAVAILABLE"}
<1>1. ~IsRetryable(Err("RevokeError", r.status, r.code))
  BY DEF IsRetryable, Err
<1>2. r.status >= 500 =>
        /\ ~(r.status < 400) /\ r.status # 404
        /\ (r.code # NoCode /\ IsRouteErrorStatus(r.status, r.code, RevokeErrorCodes))
             <=> r.code \in RevokeErrorCodes
  BY SentOn DEF Statuses, IsRouteErrorStatus, RevokeErrorCodes, NoCode
<1> QED
  BY <1>1, <1>2, GenericRetries DEF ReadRevoke, RevokeErrorCodes

-----------------------------------------------------------------------------
Readers == {"payload", "contract", "session", "charge", "revoke", "delete",
            "refund", "object", "list"}

LEMMA ReaderOf == \A o \in Operation : o.read \in Readers
<1>1. /\ \A read : Get(read).read = read /\ Post(read).read = read
      /\ \A method, read : Once(method, read).read = read
  BY DEF Get, Post, Once
<1>2. CreateWebhookEndpoint.read = "object"
  BY DEF CreateWebhookEndpoint, Post
<1> QED
  BY <1>1, <1>2
     DEF Readers, Operation, Ping, GetIntegrationContract, CreateCheckoutSession,
         GetStatus, ChargePaymentMethod, RevokePaymentMethod, CreateRefund,
         GetRefund, ListRefunds, CreatePlan, ListPlans, GetPlan, UpdatePlan,
         DeletePlan, CreateAgreement, GetAgreement, CancelAgreement,
         ListWebhookEndpoints, DeleteWebhookEndpoint, ListTransactions

\* retry.go:97-114: what the loop sends again, for every operation and reply.
\* A 4xx is among it in two cases, against README.md:745 and retry.go:34.
THEOREM RetriesExactly ==
  ASSUME NEW o \in Operation, NEW r \in WireReplies
  PROVE  IsRetryable(Result(o, r)) <=>
           \/ r.body = "unreadable" /\ r.status \notin 300..399
           \/ r.status >= 500 /\ ~OwnAnswer(o, r)
           \/ Unavailable(o, r)
           \/ o.read = "charge" /\ UnavailableCharge(r)
<1>1. r \in Reply /\ WellFormed(r)
  BY WireReply
<1>2. o.read \in Readers
  BY ReaderOf
<1>3. CASE SendFails(r)
  <2>1. IsRetryable(Result(o, r)) <=> r.body = "unreadable" /\ r.status \notin 300..399
    BY <1>1, <1>3, SendRetries DEF Result
  <2>2. r.body = "unreadable" \/ ~(r.status >= 500)
    BY <1>1, <1>3 DEF SendFails, Redirected, Reply, Statuses
  <2>3. r.body = "unreadable" \/ ~Unavailable(o, r)
    BY <1>1, <1>3 DEF SendFails, Redirected, Reply, Statuses, Unavailable
  <2>4. r.body = "unreadable" => ~Unavailable(o, r) /\ (r.status >= 500 => r.status \notin 300..399)
    BY <1>1 DEF Unavailable, Reply, Statuses
  <2>5. ~UnavailableCharge(r)
    <3>1. r.status \in 300..399 => r.status \notin 400..499
      BY <1>1 DEF Reply, Statuses
    <3>2. r.body = "unreadable" => r.code = NoCode
      BY <1>1 DEF WellFormed
    <3> QED
      BY <1>3, <3>1, <3>2 DEF SendFails, Redirected, UnavailableCharge, NoCode
  <2> QED
    BY <2>1, <2>2, <2>3, <2>4, <2>5
<1>4. CASE ~SendFails(r)
  <2>1. r.body # "unreadable"
    BY <1>1, <1>4, SentOn
  <2>2. CASE o.read \notin {"session", "charge", "revoke"}
    <3>1. IsRetryable(Result(o, r)) <=> r.status >= 500
      BY <1>1, <1>2, <1>4, <2>2, PlainRetries DEF Result, Readers
    <3> QED
      BY <2>1, <2>2, <3>1 DEF OwnAnswer, Unavailable
  <2>3. CASE o.read = "session"
    BY <1>1, <1>4, <2>1, <2>3, SessionRetries DEF Result, OwnAnswer, Unavailable
  <2>4. CASE o.read = "charge"
    BY <1>1, <1>4, <2>1, <2>4, ChargeRetries DEF Result, OwnAnswer, Unavailable
  <2>5. CASE o.read = "revoke"
    BY <1>1, <1>4, <2>1, <2>5, RevokeRetries DEF Result, OwnAnswer, Unavailable
  <2> QED
    BY <2>2, <2>3, <2>4, <2>5
<1> QED
  BY <1>3, <1>4

\* retry.go:34 and README.md:745 say that a 429 is never retried, nor any 4xx.
\* client.go:1245 takes a body that breaks off for a failure of the network
\* before it looks at the status, so such an answer is retried.
THEOREM UnreadableIsRetried ==
  ASSUME NEW o \in Operation, NEW r \in Reply,
         r.body = "unreadable", r.status \in 400..499
  PROVE  IsRetryable(Result(o, r))
<1>1. SendFails(r) /\ r.status \notin 300..399
  BY DEF SendFails, Reply, Statuses
<1> QED
  BY <1>1, SendRetries DEF Result

\* README.md:743 retries a charge's PAYMENT_PROCESSING_UNAVAILABLE at a 503 only
\* and README.md:745 no 4xx; retry.go:111 looks at the code and not at the status.
THEOREM UnavailableAtConflictIsRetried ==
  ASSUME NEW r \in Reply, r.status = 409, ~r.success,
         r.code = "PAYMENT_PROCESSING_UNAVAILABLE", r.body = "json"
  PROVE  IsRetryable(Result(ChargePaymentMethod, r))
<1>1. ~SendFails(r) /\ UnavailableCharge(r)
  BY DEF SendFails, Redirected, UnavailableCharge
<1>2. ChargePaymentMethod.read = "charge"
  BY DEF ChargePaymentMethod, Post
<1> QED
  BY <1>1, <1>2, ChargeRetries DEF Result

\* README.md "Automatic retries": what is sent again is exactly the table's
\* lines, for every reply that no two of them claim.
THEOREM RetriesAsDocumented == Spec => []RetriesWhatIsDocumented
<1>1. Answered => RetriesWhatIsDocumented
  <2> SUFFICES ASSUME Answered, result # NoResult, ~Contested(op, reply)
               PROVE  IsRetryable(result) <=>
                        \/ reply.body = "unreadable" /\ reply.status < 300
                        \/ reply.status >= 500 /\ ~OwnAnswer(op, reply)
                        \/ Unavailable(op, reply)
    BY DEF RetriesWhatIsDocumented
  <2>1. /\ op \in Operation /\ reply \in WireReplies /\ result = Result(op, reply)
        /\ reply \in Reply /\ WellFormed(reply)
    BY WireReply DEF Answered
  <2>2. ~(op.read = "charge" /\ UnavailableCharge(reply))
    BY DEF Contested, UnavailableCharge
  <2>3. CASE reply.body = "unreadable"
    <3>1. reply.status \notin 300..399 <=> reply.status < 300 \/ reply.status >= 500
      BY <2>1, <2>3 DEF Contested, Reply, Statuses
    <3>2. ~OwnAnswer(op, reply) /\ ~Unavailable(op, reply)
      BY <2>1, <2>3 DEF WellFormed, OwnAnswer, Unavailable, NoCode
    <3> QED
      BY <2>1, <2>2, <2>3, <3>1, <3>2, RetriesExactly
  <2>4. CASE reply.body # "unreadable"
    BY <2>1, <2>2, <2>4, RetriesExactly
  <2> QED
    BY <2>3, <2>4
<1> QED
  BY <1>1, AlwaysAnswered, PTL

LEMMA ChargeKeepsRow ==
  ASSUME NEW r \in Reply, r.body = "json", IsRow(r.data),
         \/ r.success /\ r.status \in 200..299
         \/ r.status = 402
         \/ r.status = 502 /\ r.code = "CHARGE_OUTCOME_UNKNOWN"
  PROVE  /\ ~SendFails(r)
         /\ ReadCharge(r).data = r.data /\ ~IsRetryable(ReadCharge(r))
<1>1. ~SendFails(r)
  BY DEF SendFails, Redirected, Reply, Statuses
<1>2. CASE r.success \/ r.status = 402
  <2>1. ReadCharge(r) = Ok(r)
    BY <1>2 DEF ReadCharge
  <2> QED
    BY <1>1, <2>1 DEF Ok, IsRetryable
<1>3. CASE ~(r.success \/ r.status = 402)
  <2>1. r.status = 502 /\ r.code = "CHARGE_OUTCOME_UNKNOWN"
    BY <1>3
  <2>2. r.code # NoCode /\ IsRouteErrorStatus(r.status, r.code, ChargeServerErrorCodes)
    BY <2>1 DEF NoCode, IsRouteErrorStatus, ChargeServerErrorCodes
  <2>3. ReadCharge(r) = [Err("ChargeError", r.status, r.code) EXCEPT !.data = r.data]
    BY <1>3, <2>2 DEF ReadCharge
  <2> QED
    BY <1>1, <2>1, <2>3 DEF Err, IsRetryable
<1> QED
  BY <1>2, <1>3

\* client.go:630: the row of a charge that was made, declined or left open
\* reaches the caller with the answer, under every status that carries one.
THEOREM RowKept == Spec => []ChargeRowNeverLost
<1>1. Answered => ChargeRowNeverLost
  <2> SUFFICES ASSUME Answered, result # NoResult, op.read = "charge",
                      reply.body = "json", IsRow(reply.data),
                      \/ reply.success /\ reply.status \in 200..299
                      \/ reply.status = 402
                      \/ reply.status = 502 /\ reply.code = "CHARGE_OUTCOME_UNKNOWN"
               PROVE  result.data = reply.data /\ ~IsRetryable(result)
    BY DEF ChargeRowNeverLost
  <2>1. reply \in Reply /\ result = Result(op, reply)
    BY WireReply DEF Answered
  <2>2. ~SendFails(reply) /\ ReadCharge(reply).data = reply.data
        /\ ~IsRetryable(ReadCharge(reply))
    BY <2>1, ChargeKeepsRow
  <2> QED
    BY <2>1, <2>2 DEF Result
<1> QED
  BY <1>1, AlwaysAnswered, PTL
=============================================================================
