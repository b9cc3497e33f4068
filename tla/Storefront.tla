----------------------------- MODULE Storefront -----------------------------
(***************************************************************************)
(* A payment page that is entered again and again: a reload, a second tab, *)
(* an edited cart, another spelling of the same price. Each visit derives  *)
(* the key from the order, prepares the request and asks for a session,    *)
(* again after a lost answer; the gateway keeps a ledger of keys.          *)
(*                                                                         *)
(* The gateway is external, as README.md:714 and 727 describe it: it       *)
(* reads keys without regard to letter case, answers a known key with the  *)
(* session that is open for it, and refuses it for another request.        *)
(***************************************************************************)
EXTENDS SessionRequest

CONSTANTS
  Visit,
  Payment,   \* call sites and orders: scope, order id, session params
  Cart,      \* a price and its currency
  Fold       \* a name in lower case

\* A payment of an order. A verify-only call site sends amount 0, for the
\* platform sets it, and makes its key from its scope and order alone.
IsPayment(p) ==
  /\ p.scope \in Seq(Word) /\ p.order \in Seq(Word)
  /\ p.save \in BOOLEAN /\ p.verifyOnly \in BOOLEAN /\ p.free \in BOOLEAN
  /\ IsExtra(p.extra)

ASSUME StorefrontAssumption ==
  /\ \A p \in Payment : IsPayment(p)
  /\ \A c \in Cart : c.price \in Price /\ c.currency \in Currency
  /\ Fold \in [Name -> Name]

VARIABLES
  pc,        \* of a visit
  payment,   \* what it is for
  cart,      \* the cart as it found it
  params,    \* what it asks CreateCheckoutSession for
  sessions,  \* the gateway's ledger: a key, its body and who opened it
  answer     \* the session a visit was given

vars == <<pc, payment, cart, params, sessions, answer>>

Nothing == [key |-> NoKey]

Init ==
  /\ pc = [v \in Visit |-> "idle"]
  /\ payment = [v \in Visit |-> Nothing]
  /\ cart = [v \in Visit |-> Nothing]
  /\ params = [v \in Visit |-> Nothing]
  /\ sessions = {}
  /\ answer = [v \in Visit |-> Nothing]

AmountOf(p, c) == IF p.free THEN 0 ELSE ToMinorUnits(c.price, c.currency)

ParamsOf(p, c) ==
  [amount |-> AmountOf(p, c), currency |-> c.currency,
   reference |-> p.order, save |-> p.save,
   verifyOnly |-> p.verifyOnly, extra |-> p.extra,
   key |-> IF p.free THEN p.scope \o p.order
           ELSE OrderIdempotencyKey(p.scope, p.order, AmountOf(p, c), c.currency)]

\* The page is entered: the request is prepared, or refused before it is sent.
Enter(v, p, c) ==
  /\ pc[v] = "idle"
  /\ payment' = [payment EXCEPT ![v] = p]
  /\ cart' = [cart EXCEPT ![v] = c]
  /\ params' = [params EXCEPT ![v] = ParamsOf(p, c)]
  /\ pc' = [pc EXCEPT ![v] = IF Accepted(ParamsOf(p, c)) THEN "asking" ELSE "refused"]
  /\ UNCHANGED <<sessions, answer>>

FoldKey(key) ==
  [i \in 1..Len(key) |-> IF key[i][1] = "name" THEN Text(Fold[key[i][2]]) ELSE key[i]]

Opened(v) == {s \in sessions : s.key = FoldKey(params[v].key)}

Session(v) ==
  [key |-> FoldKey(params[v].key), body |-> Body(params[v]), by |-> payment[v]]

\* The answer reaches the visit, or it is lost and the same request is sent
\* again.
AnswerOrLose(v, to, session) ==
  \/ /\ pc' = [pc EXCEPT ![v] = to]
     /\ answer' = [answer EXCEPT ![v] = session]
  \/ UNCHANGED <<pc, answer>>

\* A free key opens a session.
Open(v) ==
  /\ pc[v] = "asking" /\ Opened(v) = {}
  /\ sessions' = sessions \cup {Session(v)}
  /\ AnswerOrLose(v, "open", Session(v))
  /\ UNCHANGED <<payment, cart, params>>

\* The gateway may read a currency by its code or as it was spelled.
SameRequest(a, b) ==
  [a EXCEPT !.currency = a.currency.code] = [b EXCEPT !.currency = b.currency.code]

\* A known key with the same request is answered with its session.
Replay(v) ==
  /\ pc[v] = "asking"
  /\ \E s \in Opened(v) :
       /\ SameRequest(s.body, Body(params[v]))
       /\ AnswerOrLose(v, "open", s)
  /\ UNCHANGED <<payment, cart, params, sessions>>

\* IDEMPOTENCY_KEY_REUSED.
RefuseReuse(v) ==
  /\ pc[v] = "asking"
  /\ \E s \in Opened(v) : s.body # Body(params[v])
  /\ AnswerOrLose(v, "reused", Nothing)
  /\ UNCHANGED <<payment, cart, params, sessions>>

Next ==
  \E v \in Visit :
    \/ \E p \in Payment, c \in Cart : Enter(v, p, c)
    \/ Open(v) \/ Replay(v) \/ RefuseReuse(v)

Spec == Init /\ [][Next]_vars

-----------------------------------------------------------------------------
Asked(v) == pc[v] \in {"asking", "open", "reused"}

\* A visit that asked for something else than a free check of a card.
Pays(v) == Asked(v) /\ ~payment[v].free

\* A visit that asks has a valid key, a session was opened under one, and
\* only an answered visit has a session.
TypeOK ==
  /\ pc \in [Visit -> {"idle", "refused", "asking", "open", "reused"}]
  /\ \A v \in Visit : pc[v] # "idle" =>
       /\ payment[v] \in Payment /\ cart[v] \in Cart
       /\ params[v].amount \in Refused..IntMax
  /\ \A v \in Visit : Asked(v) => params[v].key \in Seq(Word) /\ ValidKey(params[v].key)
  /\ \A s \in sessions : s.key \in Seq(Word) /\ s.by \in Payment
  /\ \A v \in Visit : IF pc[v] = "open" THEN answer[v] \in sessions ELSE answer[v] = Nothing

\* A visit whose body has this field as its params have it.
Own(v, field) == field \notin DOMAIN payment[v].extra

\* money.go:57 "The conversion is exact": what is sent for a cart, unless Extra
\* names another amount, is its price in minor units, for every exponent, and
\* not rounded, cut or wrapped.
SentAmountIsExact ==
  \A v \in Visit : Pays(v) /\ Own(v, "amount") =>
    LET c == cart[v]
        amount == Body(params[v]).amount
    IN
    /\ amount \in 1..IntMax
    /\ amount * PowerOf10[Len(c.price.fraction)]
         = Value(c.price.whole \o c.price.fraction) * PowerOf10[Exponent[c.currency.code]]

\* Two carts cost the same, however they spell it.
SameMoney(c, d) ==
  /\ c.currency.code = d.currency.code
  /\ Value(c.price.whole \o c.price.fraction) * PowerOf10[Len(d.price.fraction)]
       = Value(d.price.whole \o d.price.fraction) * PowerOf10[Len(c.price.fraction)]

\* idempotency.go:16 "each of those replays the session already open": visits
\* for one payment at one price end in one session, however the price and the
\* currency are spelled and whichever answers were lost.
OneSessionPerPayment ==
  \A v, w \in Visit :
    /\ Pays(v) /\ Pays(w) /\ pc[v] = "open" /\ pc[w] = "open"
    /\ payment[v] = payment[w] /\ SameMoney(cart[v], cart[w])
    => answer[v] = answer[w]

\* No visitor is handed the session of another order or another price, even
\* when the keys of two orders collide at the gateway: the reference in the
\* body, which is required, tells them apart. Callers that put another
\* reference or price into Extra are what it cannot hold for.
SessionIsTheVisitors ==
  \A v \in Visit : pc[v] = "open" =>
    LET s == answer[v] IN
    /\ Own(v, "orderReference") /\ "orderReference" \notin DOMAIN s.by.extra
         => s.by.order = payment[v].order
    /\ Own(v, "amount") => s.body.amount = params[v].amount
    /\ Own(v, "currency") => s.body.currency.code = cart[v].currency.code

\* idempotency.go:19: an edited cart gets a fresh session. A key is refused as
\* reused only because the keys of two orders collide (by letter case, or by
\* where a hyphen stands), because SaveCard, VerifyOnly or Extra was changed
\* under one scope, because the currency, which the key upper-cases, is spelled
\* otherwise, or because a call site whose keys name no amount took the key.
ReusedOnlyOnCollision ==
  \A v \in Visit : Pays(v) /\ pc[v] = "reused" =>
    \E s \in Opened(v) :
      \/ s.by.order # payment[v].order
      \/ s.by.save # payment[v].save
      \/ s.by.extra # payment[v].extra
      \/ s.body.verifyOnly # Body(params[v]).verifyOnly
      \/ s.body.currency # Body(params[v]).currency
      \/ s.by.free

\* README.md:724 "two kinds of payment for one order never share a key".
KindsNeverShareAKey ==
  \A v, w \in Visit :
    /\ Pays(v) /\ Pays(w) /\ payment[v].order = payment[w].order
    /\ FoldKey(payment[v].scope) # FoldKey(payment[w].scope)
    => FoldKey(params[v].key) # FoldKey(params[w].key)

\* session_fields_test.go:53 "the amount rule follows the body": an amount of 0
\* is sent only in a body that asks for a verify-only session, whether the field
\* or Extra says so and also when Extra says something that is no boolean. An
\* amount in Extra is under no rule.
AmountRuleFollowsBody ==
  \A v \in Visit : Asked(v) /\ Own(v, "amount") =>
    Body(params[v]).amount > 0 \/ Body(params[v]).verifyOnly = "true"
=============================================================================
