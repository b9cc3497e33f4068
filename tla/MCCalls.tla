------------------------------ MODULE MCCalls -------------------------------
(***************************************************************************)
(* Small instances of Calls: which calls ask for which task, and how the   *)
(* keys are derived.                                                       *)
(***************************************************************************)
EXTENDS CallsProperties, TLC

CONSTANTS c1, c2, t1, t2, k1, k2

\* Two calls ask for the same task, under one key; or each for its own.
SameTask   == [c \in Call |-> t1]
OwnTask    == (c1 :> t1) @@ (c2 :> t2)

Charge     == [t \in Task |-> ChargePaymentMethod]
Endpoint   == [t \in Task |-> CreateWebhookEndpoint]

\* A charge and a refund whose caller derived the same key for both.
ChargeAndRefund == (t1 :> ChargePaymentMethod) @@ (t2 :> CreateRefund)

\* A write without a key, and a session call with Attempts of its own.
RevokeAndSession == (t1 :> RevokePaymentMethod) @@ (t2 :> CreateCheckoutSession)

OneKey     == [t \in Task |-> k1]

ClientPolicy == [c \in Call |-> 0]
SecondHasTwo == (c1 :> 0) @@ (c2 :> 2)

Bounded       == [c \in Call |-> TRUE]
SecondBounded == (c1 :> FALSE) @@ (c2 :> TRUE)
=============================================================================
