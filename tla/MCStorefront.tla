---------------------------- MODULE MCStorefront ----------------------------
(***************************************************************************)
(* A small instance of Storefront: call sites and orders whose keys meet,  *)
(* and prices on both sides of every limit of a width of four digits.      *)
(***************************************************************************)
EXTENDS Storefront, TLC

CONSTANTS v1, v2

Visitors == Permutations(Visit)

-----------------------------------------------------------------------------
Codes == {"EUR", "JPY", "KWD", "ISK", "XXX"}
Exponents == [c \in {"EUR", "JPY", "KWD"} |-> CASE c = "EUR" -> 2 [] c = "JPY" -> 0 [] c = "KWD" -> 3]

Names == Codes \cup {"eur", "jpy", "kwd", "isk", "xxx",
                     "checkout", "save", "a", "A", "blank", "two words", "long"}
Lengths == [n \in Names |-> IF n = "long" THEN 84 ELSE Len(n)]
VisibleNames == Names \ {"blank", "two words"}

FoldName ==
  [n \in Names |-> CASE n = "A" -> "a" [] n = "EUR" -> "eur" [] n = "JPY" -> "jpy"
                     [] n = "KWD" -> "kwd" [] n = "ISK" -> "isk" [] n = "XXX" -> "xxx"
                     [] OTHER -> n]

-----------------------------------------------------------------------------
Prices ==
  {Decimal(<<2, 5>>, <<>>), Decimal(<<0, 2, 5>>, <<0>>), Decimal(<<2, 5>>, <<0, 0>>),
   Decimal(<<2>>, <<5, 0, 0>>), Decimal(<<0>>, <<>>), Decimal(<<9, 9>>, <<9, 9>>),
   Decimal(<<1, 0, 0>>, <<0, 0>>), Decimal(<<9, 9, 9, 9>>, <<>>), NoDecimal}

Spelled(code, spelling) == [code |-> code, spelling |-> spelling]

\* Every price in three currencies, and one price in every other spelling.
Carts ==
  [price : Prices,
   currency : {Spelled("EUR", "upper"), Spelled("JPY", "upper"), Spelled("KWD", "padded")}]
  \cup [price : {Decimal(<<2, 5>>, <<>>)},
        currency : {Spelled("EUR", "lower"), Spelled("ISK", "upper"), Spelled("XXX", "upper"), NoCode}]

-----------------------------------------------------------------------------
Paid(scope, order) ==
  [scope |-> scope, order |-> order, save |-> FALSE, verifyOnly |-> FALSE,
   extra |-> NoExtra, free |-> FALSE]

Free(order) ==
  [Paid(<<Text("checkout")>>, order) EXCEPT !.free = TRUE, !.verifyOnly = TRUE]

Checkout == <<Text("checkout")>>
CheckoutSave == <<Text("checkout"), Text("save")>>

Payments ==
  {Paid(Checkout, <<Text("save"), Numeral(2500)>>),
   [Paid(CheckoutSave, <<Numeral(2500)>>) EXCEPT !.save = TRUE],
   Paid(Checkout, <<Numeral(2500)>>),
   [Paid(Checkout, <<Numeral(2500)>>) EXCEPT !.save = TRUE],
   Paid(Checkout, <<Text("a")>>), Paid(Checkout, <<Text("A")>>),
   Paid(Checkout, <<Text("long")>>),
   Free(<<Text("a")>>),
   [Free(<<Text("a")>>) EXCEPT !.extra = [verifyOnly |-> "odd"]],
   [Free(<<Text("a")>>) EXCEPT !.verifyOnly = FALSE, !.extra = [verifyOnly |-> "true"]],
   [Paid(Checkout, <<Text("a")>>) EXCEPT !.extra = [amount |-> 0]],
   [Paid(Checkout, <<Text("A")>>) EXCEPT !.extra = [orderReference |-> <<Text("a")>>]],
   [Paid(Checkout, <<Text("a")>>) EXCEPT !.extra = [someNewField |-> "value"]]}
=============================================================================
