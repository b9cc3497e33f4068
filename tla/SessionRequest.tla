--------------------------- MODULE SessionRequest ---------------------------
(***************************************************************************)
(* The idempotency key and the body of a checkout session:                 *)
(* OrderIdempotencyKey (idempotency.go), prepareSessionRequest (client.go) *)
(* and the merging of Extra (types.go).                                    *)
(*                                                                         *)
(* A text that goes into a key is the sequence of its words between        *)
(* hyphens, so that joining texts with hyphens is joining sequences. A     *)
(* word is a name or the decimal numeral of a number.                      *)
(***************************************************************************)
EXTENDS Money

CONSTANTS
  Name,       \* words that are no numerals, currency codes among them
  Length,     \* of a name, in bytes
  Visible,    \* names of visible ASCII characters only
  BlankName,  \* the name that is empty or whitespace
  MaxKey      \* maxIdempotencyKeyLength

ASSUME RequestAssumption ==
  /\ Code \subseteq Name
  /\ Length \in [Name -> Nat]
  /\ Visible \subseteq Name /\ BlankName \in Name \ Visible
  /\ MaxKey \in Nat

Text(name) == <<"name", name>>
Numeral(n) == <<"number", n>>
Word == ({"name"} \X Name) \cup ({"number"} \X Nat)

Blank(text) == text = <<Text(BlankName)>>

\* The digits of a numeral, for numbers as wide as IntMax.
DigitsOf(n) ==
  CHOOSE k \in 1..19 : n < PowerOf10[k] /\ (k = 1 \/ n >= PowerOf10[k - 1])

WordLength(w) == IF w[1] = "name" THEN Length[w[2]] ELSE DigitsOf(w[2])

\* The words and the hyphens between them.
KeyLength(key) == FoldLeft(LAMBDA n, w : n + 1 + WordLength(w), -1, key)

IsVisible(key) == \A i \in 1..Len(key) : key[i][1] = "name" => key[i][2] \in Visible

\* validateIdempotencyKey.
ValidKey(key) == ~Blank(key) /\ KeyLength(key) <= MaxKey /\ IsVisible(key)

NoKey == <<>>

\* Mutant: the key does not name the amount.
KeyOfOrder(scope, order, amount, code) == scope \o order \o <<Text(code)>>

\* Mutant: the key does not name the call site.
KeyWithoutScope(scope, order, amount, code) == order \o <<Numeral(amount), Text(code)>>

Key(scope, order, amount, code) ==
  scope \o order \o <<Numeral(amount), Text(code)>>

OrderIdempotencyKey(scope, order, amount, currency) ==
  IF \/ Blank(scope) \/ Blank(order) \/ amount <= 0 \/ ~IsCode(currency)
     \/ ~ValidKey(Key(scope, order, amount, currency.code))
  THEN NoKey ELSE Key(scope, order, amount, currency.code)

-----------------------------------------------------------------------------
(***************************************************************************)
(* The request. A body is a function on the names of its fields, and Extra *)
(* is another one, on any names, the fields of the params among them.      *)
(***************************************************************************)
\* What Extra may say of the fields of the params that the model has. "odd"
\* is a verifyOnly that is no boolean.
FieldValue(field) ==
  CASE field = "amount"         -> Int
    [] field = "currency"       -> Currency
    [] field = "orderReference" -> Seq(Word)
    [] field = "saveCard"       -> BOOLEAN
    [] field = "verifyOnly"     -> {"true", "false", "odd"}

Field == {"amount", "currency", "orderReference", "saveCard", "verifyOnly"}

IsExtra(extra) == \A field \in Field \cap DOMAIN extra : extra[field] \in FieldValue(field)

NoExtra == [field \in {} |-> "absent"]

\* A key in extra replaces the modelled field of the same name.
MergeExtra(base, extra) ==
  [field \in DOMAIN base \cup DOMAIN extra |->
     IF field \in DOMAIN extra THEN extra[field] ELSE base[field]]

\* Mutant: the body does not name the order.
BodyWithoutReference(params) ==
  MergeExtra([amount |-> params.amount, currency |-> params.currency,
              saveCard |-> params.save,
              verifyOnly |-> IF params.verifyOnly THEN "true" ELSE "absent"],
             params.extra)

\* What is signed and sent, with the key in the header. The reference is the
\* order's own id, and the currency stays as the caller spelled it.
Body(params) ==
  MergeExtra([amount |-> params.amount, currency |-> params.currency,
              orderReference |-> params.reference, saveCard |-> params.save,
              verifyOnly |-> IF params.verifyOnly THEN "true" ELSE "absent"],
             params.extra)

\* Mutant: the checks read the field and the body has Extra's value.
FieldVerifyOnly(params) == params.verifyOnly

\* params.verifyOnly(), by which the checks go.
VerifyOnly(params) ==
  IF "verifyOnly" \in DOMAIN params.extra THEN params.extra.verifyOnly = "true"
  ELSE params.verifyOnly

\* The amount of the params is checked, and not one that Extra names.
AmountAllowed(params) ==
  IF VerifyOnly(params) THEN params.amount >= 0 ELSE params.amount > 0

\* prepareSessionRequest accepts the params. No currency here is blank, and a
\* reference that is part of the key is within its own limit, which is the
\* key's, when the key is.
Accepted(params) ==
  /\ AmountAllowed(params)
  /\ ~Blank(params.reference)
  /\ params.key # NoKey /\ ValidKey(params.key)
=============================================================================
