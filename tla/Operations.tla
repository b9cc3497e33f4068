---------------------------- MODULE Operations ------------------------------
(***************************************************************************)
(* The SDK's operations: for each client method its HTTP method, whether   *)
(* it signs an idempotency key, whether it runs under the retry policy,    *)
(* and how it reads a reply that send let through.                         *)
(***************************************************************************)
EXTENDS Replies

ChargeServerErrorCodes ==
  {"CHARGE_OUTCOME_UNKNOWN", "CHARGE_FAILED",
   "PAYMENT_METHOD_CHARGES_DISABLED", "PAYMENT_PROCESSING_UNAVAILABLE"}

RevokeErrorCodes == {"UPSTREAM_CONTRACT_ERROR", "MERCHANT_API_UNAVAILABLE"}

(***************************************************************************)
(* The readers. Each takes a reply with ~SendFails(r).                     *)
(***************************************************************************)

\* sendCheckoutSession. data "odd": the payload or its checkout object does
\* not decode.
ReadSession(r) ==
  IF RequestFails(r) THEN RequestError(r)
  ELSE IF r.data = "odd" THEN Unexpected(r)
  ELSE IF IsRow(r.data) /\ r.success THEN Ok(r)
  ELSE Err("RefusalError", r.status, First(r.inner, "UNKNOWN"))

\* Ping and GetStatus decode the payload whatever it holds.
ReadPayload(r) ==
  IF RequestFails(r) THEN RequestError(r)
  ELSE IF r.data = "odd" THEN Unexpected(r)
  ELSE Ok(r)

\* GetIntegrationContract also needs the version.
ReadContract(r) ==
  IF ~RequestFails(r) /\ ~IsRow(r.data) THEN Unexpected(r) ELSE ReadPayload(r)

\* Mutant: only a success is a result; a decline is an error without its row.
ReadChargeSuccessOnly(r) ==
  IF IsRow(r.data) /\ r.success THEN Ok(r)
  ELSE IF r.code # NoCode THEN Err("ChargeError", r.status, r.code)
  ELSE Rejection(r)

\* The charge row is a result on a success and on a 402; a coded failure of
\* the route is a *ChargeError and keeps the row.
ReadCharge(r) ==
  IF IsRow(r.data) /\ (r.success \/ r.status = 402) THEN Ok(r)
  ELSE IF /\ r.code # NoCode
          /\ IsRouteErrorStatus(r.status, r.code, ChargeServerErrorCodes)
       THEN [Err("ChargeError", r.status, r.code) EXCEPT
               !.data = IF IsRow(r.data) THEN r.data ELSE "absent"]
  ELSE IF r.status >= 400 THEN Rejection(r)
  ELSE Unexpected(r)

ReadRevoke(r) ==
  IF r.status < 400 THEN Ok(r)
  ELSE IF /\ r.code # NoCode /\ r.status # 404
          /\ IsRouteErrorStatus(r.status, r.code, RevokeErrorCodes)
       THEN Err("RevokeError", r.status, r.code)
  ELSE Rejection(r)

\* DeletePlan, CancelAgreement and DeleteWebhookEndpoint.
ReadDelete(r) == IF r.status >= 400 THEN Rejection(r) ELSE Ok(r)

RefundRejection(r) ==
  IF r.code # NoCode /\ r.status < 500
  THEN Err("RefundError", r.status, r.code)
  ELSE Rejection(r)

\* CreateRefund and GetRefund; ListRefunds reads its list the same way.
ReadRefund(r) ==
  IF r.status >= 400 THEN RefundRejection(r)
  ELSE IF IsRow(r.data) THEN Ok(r)
  ELSE Unexpected(r)

\* The plan, agreement and webhook endpoint objects, and a page of
\* transactions.
ReadObject(r) ==
  IF r.status >= 400 THEN Rejection(r)
  ELSE IF IsRow(r.data) THEN Ok(r)
  ELSE Unexpected(r)

\* ListPlans and ListWebhookEndpoints: absent data is an empty list.
ReadList(r) ==
  IF r.status >= 400 THEN Rejection(r)
  ELSE IF r.body = "json" /\ r.data # "odd" THEN Ok(r)
  ELSE Unexpected(r)

(***************************************************************************)
(* The operations.                                                         *)
(***************************************************************************)
Get(read)  == [method |-> "GET", keyed |-> FALSE, retried |-> TRUE,
               read |-> read]
Post(read) == [method |-> "POST", keyed |-> TRUE, retried |-> TRUE,
               read |-> read]
Once(method, read) == [method |-> method, keyed |-> FALSE, retried |-> FALSE,
                       read |-> read]

Ping                   == Get("payload")
GetIntegrationContract == Get("contract")
CreateCheckoutSession  == Post("session")
GetStatus              == Get("payload")
ChargePaymentMethod    == Post("charge")
RevokePaymentMethod    == Once("DELETE", "revoke")
CreateRefund           == Post("refund")
GetRefund              == Get("refund")
ListRefunds            == Get("refund")
CreatePlan             == Post("object")
ListPlans              == Get("list")
GetPlan                == Get("object")
UpdatePlan             == Once("PATCH", "object")
DeletePlan             == Once("DELETE", "delete")
CreateAgreement        == Post("object")
GetAgreement           == Get("object")
CancelAgreement        == Once("DELETE", "delete")
CreateWebhookEndpoint  == [Post("object") EXCEPT !.retried = FALSE]
ListWebhookEndpoints   == Get("list")
DeleteWebhookEndpoint  == Once("DELETE", "delete")
ListTransactions       == Get("object")

Operation == {Ping, GetIntegrationContract, CreateCheckoutSession, GetStatus,
              ChargePaymentMethod, RevokePaymentMethod, CreateRefund,
              GetRefund, ListRefunds, CreatePlan, ListPlans, GetPlan,
              UpdatePlan, DeletePlan, CreateAgreement, GetAgreement,
              CancelAgreement, CreateWebhookEndpoint, ListWebhookEndpoints,
              DeleteWebhookEndpoint, ListTransactions}

\* The result of one attempt of op that was answered with r.
Result(op, r) ==
  IF SendFails(r) THEN SendError(r)
  ELSE CASE op.read = "payload"  -> ReadPayload(r)
         [] op.read = "contract" -> ReadContract(r)
         [] op.read = "session"  -> ReadSession(r)
         [] op.read = "charge"   -> ReadCharge(r)
         [] op.read = "revoke"   -> ReadRevoke(r)
         [] op.read = "delete"   -> ReadDelete(r)
         [] op.read = "refund"   -> ReadRefund(r)
         [] op.read = "object"   -> ReadObject(r)
         [] op.read = "list"     -> ReadList(r)
=============================================================================
