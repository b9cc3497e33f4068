-------------------------------- MODULE Money -------------------------------
(***************************************************************************)
(* ToMinorUnits (money.go) on the digits of an amount, and the currency    *)
(* codes it shares with the idempotency keys. A price is text: digits in   *)
(* front of the point and behind it, or something that is no plain         *)
(* decimal. A currency is text that spells a code, in some letter case and *)
(* some whitespace, or no code at all. The width of int64 is a constant.   *)
(***************************************************************************)
EXTENDS Integers, Sequences, SequencesExt

CONSTANTS
  Code,         \* three-letter codes, upper case
  Exponent,     \* the gateway's exponent of each code it knows
  Unsupported,  \* codes refused by name
  IntMax        \* the largest int64

ASSUME MoneyAssumption ==
  /\ DOMAIN Exponent \subseteq Code
  /\ \A c \in DOMAIN Exponent : Exponent[c] \in Nat
  /\ Unsupported \subseteq Code
  /\ IntMax \in Nat

Spelling == {"upper", "lower", "padded"}
NoCode == [code |-> "none", spelling |-> "odd"]
Currency == [code : Code, spelling : Spelling] \cup {NoCode}

\* A price: a plain decimal is digits with digits in front of the point.
Digit == 0..9
Price == [plain : BOOLEAN, whole : Seq(Digit), fraction : Seq(Digit)]

Decimal(whole, fraction) == [plain |-> TRUE, whole |-> whole, fraction |-> fraction]
NoDecimal == [plain |-> FALSE, whole |-> <<>>, fraction |-> <<>>]

\* What a function of the SDK returns in place of a number when it refuses.
Refused == -1

\* The number that a sequence of digits spells.
Value(digits) == FoldLeft(LAMBDA n, d : 10 * n + d, 0, digits)

PowerOf10[n \in Nat] == IF n = 0 THEN 1 ELSE 10 * PowerOf10[n - 1]

Zeros(n) == [i \in 1..n |-> 0]

\* normalizeCurrencyCode.
IsCode(currency) == currency # NoCode

CurrencyExponent(currency) ==
  IF ~IsCode(currency) \/ currency.code \in Unsupported
       \/ currency.code \notin DOMAIN Exponent
  THEN Refused ELSE Exponent[currency.code]

\* Mutant: an amount is padded to two decimals whatever its currency.
DigitsOfCents(price, exponent) ==
  price.whole \o price.fraction \o Zeros(2 - Len(price.fraction))

\* Mutant: the digits are not padded to the exponent.
DigitsUnpadded(price, exponent) == price.whole \o price.fraction

Digits(price, exponent) ==
  price.whole \o price.fraction \o Zeros(exponent - Len(price.fraction))

\* Mutant: the width of int64 is not checked.
ToMinorUnitsUnchecked(price, currency) ==
  LET exponent == CurrencyExponent(currency) IN
  IF exponent = Refused \/ ~price.plain \/ Len(price.fraction) > exponent
  THEN Refused ELSE Value(Digits(price, exponent))

ToMinorUnits(price, currency) ==
  LET exponent == CurrencyExponent(currency) IN
  IF exponent = Refused \/ ~price.plain \/ Len(price.fraction) > exponent
       \/ Value(Digits(price, exponent)) > IntMax
  THEN Refused ELSE Value(Digits(price, exponent))
=============================================================================
