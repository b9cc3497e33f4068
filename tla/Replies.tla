------------------------------ MODULE Replies ------------------------------
(***************************************************************************)
(* One HTTP exchange with the Dominaite API as the SDK sees it, and the    *)
(* reading every route shares: send, request, rejection and the retry      *)
(* policy's isRetryable (client.go, retry.go).                             *)
(*                                                                         *)
(* A reply keeps only what the code branches on: the status, whether the   *)
(* body could be read and is a JSON object, the success flag, what the     *)
(* route's own object decodes to, and the two places of an error code.     *)
(* Texts, request ids and raw bytes are left out.                          *)
(***************************************************************************)
EXTENDS Integers

\* The statuses the code or the documentation tells apart.
Statuses == {200, 201, 202, 204, 302, 400, 401, 402, 403, 404, 409, 422,
             429, 500, 502, 503}

\* "unreadable": the read failed or ran past maxResponseBytes (readLimited).
\* "text": read, but not a JSON object: an HTML page of an edge, or empty.
Bodies == {"unreadable", "text", "json"}

\* What the value the route reads decodes to: nothing there, something of
\* the wrong shape or without its id, the object of a write that was placed,
\* that failed (a declined charge), or that is not decided yet.
DataKinds == {"absent", "odd", "placed", "declined", "open"}

IsRow(d) == d \in {"placed", "declined", "open"}

NoCode == "none"

\* The codes some route branches on; OTHER stands for every other code.
Codes == {NoCode, "PAYMENT_PROCESSING_UNAVAILABLE", "CHARGE_OUTCOME_UNKNOWN",
          "CHARGE_FAILED", "PAYMENT_METHOD_CHARGES_DISABLED",
          "UPSTREAM_CONTRACT_ERROR", "MERCHANT_API_UNAVAILABLE",
          "DUPLICATE_REQUEST", "PAYMENT_METHOD_NOT_FOUND", "OTHER", "UNKNOWN"}

\* success: the flag is present and true. code: error.code of the envelope.
\* inner: errorCode of the payload.
Reply == [status : Statuses, body : Bodies, success : BOOLEAN,
          data : DataKinds, code : Codes, inner : Codes]

\* A body that is no JSON object carries nothing.
WellFormed(r) ==
  r.body # "json" =>
     /\ ~r.success /\ r.data = "absent"
     /\ r.code = NoCode /\ r.inner = NoCode

Plain(status, body) ==
  [status |-> status, body |-> body, success |-> FALSE, data |-> "absent",
   code |-> NoCode, inner |-> NoCode]

Coded(status, code) == [Plain(status, "json") EXCEPT !.code = code]

Row(status, d) ==
  [Plain(status, "json") EXCEPT !.data = d, !.success = (d = "placed")]

(***************************************************************************)
(* The result of one attempt, and of a call: nil error or one error type.  *)
(***************************************************************************)
Kinds == {"Ok", "TransportError", "APIError", "RateLimitError", "AuthError",
          "RefusalError", "ChargeError", "RevokeError", "RefundError",
          "ValidationError"}

NoStatus == 0

\* data is the decoded object, on a result and on a *ChargeError that
\* carries its charge row.
Outcome == [kind : Kinds, status : Statuses \cup {NoStatus}, code : Codes,
            data : DataKinds]

Err(kind, status, code) ==
  [kind |-> kind, status |-> status, code |-> code, data |-> "absent"]

Ok(r) == [kind |-> "Ok", status |-> r.status, code |-> NoCode, data |-> r.data]

First(code1, code2) == IF code1 # NoCode THEN code1 ELSE code2

(***************************************************************************)
(* send: what comes back as an error before any route reads the reply. The *)
(* order is the code's: a redirect first, then the body, then the status.  *)
(***************************************************************************)
Redirected(r) == r.status \in 300..399

SendFails(r) ==
  \/ Redirected(r)
  \/ r.body = "unreadable"
  \/ r.status \in {401, 403, 429}

SendError(r) ==
  IF Redirected(r) THEN Err("APIError", r.status, NoCode)
  ELSE IF r.body = "unreadable" THEN Err("TransportError", r.status, NoCode)
  ELSE IF r.status = 429
       THEN Err("RateLimitError", r.status, First(r.inner, r.code))
       ELSE Err("AuthError", r.status, First(First(r.inner, r.code), "OTHER"))

\* No attempt has ended yet.
NoResult == Err("None", NoStatus, NoCode)

\* The exchange ended with no response at all: http.Client.Do failed.
NoAnswer == Err("TransportError", NoStatus, NoCode)

(***************************************************************************)
(* The generic reading of a failed reply, and request, which applies it.   *)
(***************************************************************************)
Rejection(r) ==
  IF r.status >= 500
  THEN Err("TransportError", r.status, First(r.code, r.inner))
  ELSE Err("APIError", r.status, First(r.inner, r.code))

Unexpected(r) == Err("APIError", r.status, NoCode)

RequestFails(r) == r.status >= 400 \/ r.body # "json"

RequestError(r) == IF r.status >= 400 THEN Rejection(r) ELSE Unexpected(r)

\* Mutant: every coded 5xx is the route's own.
AnyCodedStatus(status, code, serverCodes) ==
  status >= 400 /\ status \notin {400, 401, 403, 429}

\* A coded failure is the route's own typed error, not a generic one.
IsRouteErrorStatus(status, code, serverCodes) ==
  /\ status \notin {400, 401, 403, 429}
  /\ status >= 400
  /\ status >= 500 => code \in serverCodes

(***************************************************************************)
(* isRetryable: the failures the client sends again.                       *)
(***************************************************************************)
\* Mutant: every charge error is sent again.
RetriesChargeErrors(o) == o.kind \in {"TransportError", "ChargeError"}

IsRetryable(o) ==
  \/ o.kind = "TransportError"
  \/ /\ o.kind \in {"RefusalError", "ChargeError"}
     /\ o.code = "PAYMENT_PROCESSING_UNAVAILABLE"
=============================================================================
