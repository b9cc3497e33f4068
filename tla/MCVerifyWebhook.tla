-------------------------- MODULE MCVerifyWebhook ---------------------------
(***************************************************************************)
(* Small instances of VerifyWebhook: bodies, and the headers around them.  *)
(***************************************************************************)
EXTENDS VerifyWebhook

PaymentBody == [json |-> TRUE, envelope |-> TRUE, data |-> "plain",
                type |-> "payment"]
ChargeBody  == [PaymentBody EXCEPT !.data = "typed", !.type = "charge"]

TwoBodies == {PaymentBody, ChargeBody}

\* A charge whose data does not fit a charge, one whose data has a field of
\* another type, an event of another shape, and no JSON at all.
FiveOthers ==
  {[ChargeBody EXCEPT !.data = d] : d \in {"plain", "odd"}}
  \cup {[PaymentBody EXCEPT !.type = "agreement"],
        [ChargeBody EXCEPT !.envelope = FALSE],
        [json |-> FALSE, envelope |-> FALSE, data |-> "absent", type |-> "charge"]}

SevenBodies == TwoBodies \cup FiveOthers

Spelled(n) == [digits |-> TRUE, seconds |-> n, zeros |-> FALSE]

\* One number in two spellings, and no number.
Spellings == {Spelled(6), [Spelled(6) EXCEPT !.zeros = TRUE],
              [Spelled(6) EXCEPT !.digits = FALSE]}

\* Around the clock's 6 seconds, and where the widths end: a Duration holds
\* 7 seconds and a half, 27 + EpochOffset is the last int64 of package time.
Times == {Spelled(n) : n \in 0..9 \cup {13, 14, 15, 26, 27, 28, 31, 32}}

EveryText == Spellings \cup Times

\* Bound: elements of a header.
MaxElements == 3

MacsOf(texts, bodies) == {m \in Mac(texts) : m.payload \in bodies}

Elements(texts, bodies) ==
  {e \in Element(texts) :
     e.key = "v1" => e.value = NotHex \/ e.value \in MacsOf(texts, bodies)}

TwoElements(texts, bodies) ==
  {<<[key |-> "t", value |-> t], [key |-> "v1", value |-> m]>> :
     t \in texts, m \in MacsOf(texts, bodies)}

\* Every header over one timestamp, its spellings and the MACs over them and
\* two bodies; every timestamp with a MAC, which is its own or another's; and
\* the headers with one timestamp and a MAC of any body.
EveryHeader ==
  UNION {[1..n -> Elements(Spellings, TwoBodies)] : n \in 0..MaxElements}
  \cup TwoElements(Times, TwoBodies)
  \cup TwoElements({Spelled(6)}, Payloads)

Past == -1
Window == {Past, 0, 3}
=============================================================================
