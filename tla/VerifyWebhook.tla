--------------------------- MODULE VerifyWebhook ----------------------------
(***************************************************************************)
(* One call of VerifyWebhook (verify.go): the header's grammar, the MAC,   *)
(* the freshness check in Go's integer widths, and the decoding of the     *)
(* event, in the code's order.                                             *)
(*                                                                         *)
(* HMAC-SHA256 is perfect: a MAC is the record of what it was made over.   *)
(* The widths are constants, so that a small instance reaches the limits.  *)
(* A text is digits or not, the number they spell, and whether zeros lead, *)
(* which is another spelling of the same number.                           *)
(***************************************************************************)
EXTENDS Integers, Sequences, FiniteSets, SequencesExt

CONSTANTS
  Second,       \* units of time.Duration in a second
  DurationMax,  \* the largest time.Duration
  SecondsMax,   \* the largest int64 count of seconds
  EpochOffset,  \* seconds between year 1 and 1970, in package time
  Instants,     \* what the clock shows, in units since 1970
  Tolerances,   \* durations a caller sets
  Texts,        \* what stands after "t="
  Payloads,     \* raw bodies
  Headers       \* signature headers

\* A body: whether it is JSON, whether it has the event's shape outside data,
\* how far its data fits, and its event type. "plain" data fits WebhookData;
\* "typed" data fits the struct of its event type as well.
Payload == [json : BOOLEAN, envelope : BOOLEAN,
            data : {"absent", "odd", "plain", "typed"},
            type : {"charge", "agreement", "payment"}]

\* Durations and seconds have one width in Go, and a second is many units of a
\* Duration; no clock stands so late that a Duration after it is past the last
\* int64 second.
ASSUME VerifyAssumption ==
  /\ Second \in Nat \ {0} /\ DurationMax \in Nat /\ SecondsMax \in Nat
  /\ DurationMax <= (SecondsMax + 1) * Second
  /\ EpochOffset \in 0..SecondsMax
  /\ Instants \subseteq Nat
  /\ \A now \in Instants : now + DurationMax < (SecondsMax + 1 - EpochOffset) * Second
  /\ Tolerances \subseteq (-DurationMax - 1)..DurationMax
  /\ Texts \subseteq [digits : BOOLEAN, seconds : Nat, zeros : BOOLEAN]
  /\ Payloads \subseteq Payload

NoSecret == "empty"
Secrets == {"ours", "theirs"}

\* 64 lowercase hex characters, a MAC of something; or anything else.
Mac(texts) == [hex : {TRUE}, secret : Secrets, text : texts, payload : Payloads]
NotHex == [hex |-> FALSE]

Element(texts) ==
  [key : {"t"}, value : texts]
  \cup [key : {"v1"}, value : Mac(texts) \cup {NotHex}]
  \cup [key : {"unknown", "no separator"}]

ASSUME HeadersAssumption == Headers \subseteq Seq(Element(Texts))

VARIABLES call, result

vars == <<call, result>>

-----------------------------------------------------------------------------
(***************************************************************************)
(* parseSignatureHeader: one pass over the elements.                       *)
(***************************************************************************)
\* Neither digits nor a MAC: the element was not seen.
Missing == [digits |-> FALSE, hex |-> FALSE]
Malformed == [ok |-> FALSE, t |-> Missing, v1 |-> Missing]

\* Mutant: a repeated element replaces the first one.
ReadElementLastWins(acc, e) ==
  IF e.key = "no separator" THEN Malformed
  ELSE IF e.key \in {"t", "v1"} THEN [acc EXCEPT ![e.key] = e.value]
  ELSE acc

\* Mutant: only the two known keys may appear.
ReadElementKnownOnly(acc, e) ==
  IF ~acc.ok \/ e.key \notin {"t", "v1"} \/ acc[e.key] # Missing THEN Malformed
  ELSE [acc EXCEPT ![e.key] = e.value]

\* The first bad element ends the loop; every later one leaves it ended.
ReadElement(acc, e) ==
  IF ~acc.ok \/ e.key = "no separator" THEN Malformed
  ELSE IF e.key = "unknown" THEN acc
  ELSE IF acc[e.key] # Missing THEN Malformed
  ELSE [acc EXCEPT ![e.key] = e.value]

ParseSignatureHeader(header) ==
  LET read == FoldLeft(ReadElement,
                       [ok |-> TRUE, t |-> Missing, v1 |-> Missing], header)
  IN IF read.ok /\ read.t.digits /\ read.v1.hex THEN read ELSE Malformed

-----------------------------------------------------------------------------
(***************************************************************************)
(* Package time: int64 seconds since year 1, a saturating Sub, and a minus *)
(* sign that leaves the smallest Duration as it is.                        *)
(***************************************************************************)
DurationMin == -DurationMax - 1

WrapSeconds(n) == ((n + SecondsMax + 1) % (2 * (SecondsMax + 1))) - (SecondsMax + 1)

Sub(now, seconds) ==
  LET exact == now + EpochOffset * Second - WrapSeconds(seconds + EpochOffset) * Second
  IN IF exact > DurationMax THEN DurationMax
     ELSE IF exact < DurationMin THEN DurationMin
     ELSE exact

Negated(d) == IF d = DurationMin THEN d ELSE -d

\* Mutant: only the past counts as drift.
DriftOfThePast(now, seconds) == Sub(now, seconds)

Drift(now, seconds) ==
  LET d == Sub(now, seconds) IN IF d < 0 THEN Negated(d) ELSE d

\* ParseInt fails on what int64 cannot hold.
Stale(text, now, tolerance) ==
  text.seconds > SecondsMax \/ Drift(now, text.seconds) > tolerance

-----------------------------------------------------------------------------
(***************************************************************************)
(* The event: json.Unmarshal reads data through WebhookData.UnmarshalJSON, *)
(* then decodeTyped reads it again.                                        *)
(***************************************************************************)
Decodes(p) == p.json /\ p.envelope /\ p.data # "odd"

Rejected(reason) == [reason |-> reason, typed |-> "none"]

Event(p) ==
  [reason |-> "ok",
   typed |-> IF p.data = "typed" /\ p.type # "payment" THEN p.type ELSE "none"]

\* Mutant: the MAC is made over the number and not over its spelling.
SignsTheNumber(parsed, secret, p) ==
  /\ parsed.v1.secret = secret /\ parsed.v1.payload = p
  /\ parsed.v1.text.seconds = parsed.t.seconds

Matches(parsed, secret, p) ==
  parsed.v1 = [hex |-> TRUE, secret |-> secret, text |-> parsed.t, payload |-> p]

Verify(c) ==
  LET parsed == ParseSignatureHeader(c.header) IN
  IF c.tolerance < 0 THEN Rejected("INVALID_TOLERANCE")
  ELSE IF c.secret = NoSecret \/ ~parsed.ok THEN Rejected("MALFORMED_SIGNATURE")
  ELSE IF ~Matches(parsed, c.secret, c.payload) THEN Rejected("SIGNATURE_MISMATCH")
  ELSE IF Stale(parsed.t, c.now, c.tolerance) THEN Rejected("TIMESTAMP_OUT_OF_TOLERANCE")
  ELSE IF ~Decodes(c.payload) THEN Rejected("MALFORMED_PAYLOAD")
  ELSE Event(c.payload)

-----------------------------------------------------------------------------
Init ==
  /\ call \in [payload : Payloads, header : Headers,
               secret : {NoSecret, "ours"}, tolerance : Tolerances,
               now : Instants]
  /\ result = Rejected("none")

VerifyCall ==
  /\ result = Rejected("none")
  /\ result' = Verify(call)
  /\ UNCHANGED call

Spec == Init /\ [][VerifyCall]_vars

-----------------------------------------------------------------------------
Done == result.reason # "none"
Accepted == result.reason = "ok"

\* The positions of a key in the header.
At(key) == {i \in DOMAIN call.header : call.header[i].key = key}

\* The normative grammar of parseSignatureHeader's comment (verify.go:203).
InGrammar ==
  /\ At("no separator") = {}
  /\ Cardinality(At("t")) = 1 /\ \A i \in At("t") : call.header[i].value.digits
  /\ Cardinality(At("v1")) = 1 /\ \A i \in At("v1") : call.header[i].value.hex

\* The pass over the elements accepts exactly the grammar, whatever the order,
\* the repetitions and the unknown elements around the two it wants.
MalformedIffNotInGrammar ==
  Done /\ call.tolerance >= 0 =>
    (result.reason = "MALFORMED_SIGNATURE" <=>
       call.secret = NoSecret \/ ~InGrammar)

\* The window around the clock, in unbounded integers.
Distance(n) == IF call.now >= n * Second THEN call.now - n * Second
               ELSE n * Second - call.now

\* An event comes out only for bytes that the one v1 element signs, with the
\* caller's secret and the timestamp as it is spelled in the header, and its
\* typed data is that of the type which was signed.
AcceptedIsAuthentic ==
  Accepted =>
    /\ result.typed \in {"none", call.payload.type}
    /\ \E i \in At("t"), j \in At("v1") :
         /\ At("t") = {i} /\ At("v1") = {j}
         /\ call.header[j].value =
              [hex |-> TRUE, secret |-> "ours", text |-> call.header[i].value,
               payload |-> call.payload]

\* An accepted event is inside the window, past and future alike, as long as
\* time.Duration can hold the distance to its timestamp.
AcceptedIsFresh ==
  Accepted => \A i \in At("t") :
    LET d == Distance(call.header[i].value.seconds)
    IN d <= DurationMax => d <= call.tolerance

\* What the platform signed with this secret, inside the window and of the
\* event's shape, is accepted, with an unknown element before, between or
\* behind, so that a new scheme next to v1 breaks no deployed merchant, and
\* with data that does not fit the struct of its event type (verify.go:183).
GenuineIsAccepted ==
  /\ Done /\ call.secret = "ours" /\ InGrammar /\ Decodes(call.payload)
  /\ \E i \in At("t"), j \in At("v1") :
       LET text == call.header[i].value IN
       /\ call.header[j].value.secret = "ours"
       /\ call.header[j].value.text = text
       /\ call.header[j].value.payload = call.payload
       /\ Distance(text.seconds) <= call.tolerance
  => Accepted

-----------------------------------------------------------------------------
(***************************************************************************)
(* What the documentation says and the code does not do.                   *)
(***************************************************************************)

\* verify_test.go:177 "a timestamp too far in the FUTURE is equally rejected".
TooFarIsRejected ==
  Accepted => \A i \in At("t") :
    Distance(call.header[i].value.seconds) <= call.tolerance
=============================================================================
