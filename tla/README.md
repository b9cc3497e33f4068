# Verification of merchant-sdk-go

TLA+ models of the Dominaite merchant SDK for Go, the TLC configurations that
check them on small instances, and TLAPS proofs of what matters most for every
instance. Lines such as `retry.go:66` are lines of the repository.

## 1. The system

The SDK is a library: it holds no server, and it persists nothing. A program
makes one `Client` with `New`, and any number of its goroutines call the
client's 21 methods. Each method checks its arguments, signs and sends an HTTP
request, reads the reply into a result or one of the SDK's error types, and,
for most methods, tries again after a failure that is worth it. Beside the
client there are pure helpers (keys, money, signing) and `VerifyWebhook`, which
the merchant's HTTP handler calls on each delivery of an event.

| Component | State it keeps | Operations | Correct when | Models |
| --- | --- | --- | --- | --- |
| Reading of replies: `sendQuery`, `request`, `rejection`, `isRouteErrorStatus`, error types | none | one reading of one reply | an error's kind tells what to do next, and only what is worth retrying is retried; no charge row is lost | `Replies`, `Exchange` |
| Operations: the 21 methods | none | HTTP method, key, retry policy and reader of each | as above, for every route | `Operations`, `Exchange` |
| Retry loop and attempts: `retry`, `sendQuery`, `sleepContext` | `n`, last result, context, per call | send, wait, judge, back off, return | one key on all attempts, sends within the budget, a verdict is never thrown away, an ended context ends it, it returns | `Calls`, `CallsProperties`, `OncePerTask` |
| SDK notices: `readNotice` | `noticeSet`: a mutex and at most 32 strings, shared by all goroutines of a client | receive, lock, look, store, unlock, warn | one warning per value, no value warned about twice, bounded memory, the mutex always given back | `Notices` |
| Webhook verification: `VerifyWebhook`, `parseSignatureHeader`, `WebhookData.UnmarshalJSON` | none | one verification | accepts exactly what the platform signed inside the window | `VerifyWebhook` |
| Webhook delivery and receiver: `examples/webhook-handler` | the handler's `seen` set and its mutex | verify, claim, work, acknowledge, restart | an event is worked on at most once between restarts, no acknowledged work is lost but by a restart, every delivery is answered | `Inbox`, `Receiver` |
| Client construction: `New`, options | the client under construction, and its `http.Client` in the heap | options in any order | bad options are refused wherever they stand, clients share no `http.Client`, a built client is fixed and follows no redirect | `ClientConfig` |
| Idempotency keys: `OrderIdempotencyKey`, `validateIdempotencyKey`, `prepareSessionRequest` | none | derive, check, merge `Extra` | one payment gets one session, nobody gets the session of another | `SessionRequest`, `Storefront` |
| Money: `ToMinorUnits`, `CurrencyExponent` | none | convert | exact or refused | `Money`, `Storefront` |
| Backoff arithmetic: `retryDelay` | none | delay of retry n | positive and at most 8 s | not modelled; in `Calls` a sleep has any length |
| Request signing: `Sign` | none | sign | distinct requests have distinct canonical strings | not modelled; an HMAC is perfect where one is needed |
| Error code lists, wire types, warnings and debug lines, clock skew of `Ping` | none | data and wording | - | the parts the control flow branches on are in `Replies`, `Operations`, `VerifyWebhook` |

Interactions. The methods call `retry`, `retry` calls the method's closure,
the closure calls `send`, and `send` calls `http.Client.Do` and then
`readNotice`. Goroutines share the client's settings, which do not change after
`New`, and the notice set, which does. All other sharing is outside: calls
meet at the gateway's idempotency ledger, under the key the caller derived;
clients built from one list of options meet at the caller's `http.Client`; and
deliveries of one event meet at the handler's `seen` set, each in a goroutine
of its own.

What is hard: a request that is done although its answer was lost; a retry that
overtakes the request it repeats; net/http repeating requests below the SDK;
the end of a context racing the backoff, an answer and the next attempt; two
goroutines at the notice set; answers that break off or come from a proxy; the
integer widths of `time.Duration` in the freshness check; the header grammar
with elements repeated, reordered and unknown; a delivery repeated while the
first one is at work, or cut short by a restart; options whose
effect depends on their order and on who shares their argument; and keys of
different orders that meet, because parts contain hyphens or letters in
another case. `PROJECT.json` lists each under
"hazards" at its line.

## 2. Modules

| Module | What it is |
| --- | --- |
| `Replies` | replies, error kinds, and how `send`, `request` and `rejection` read a reply (pure operators) |
| `Operations` | extends `Replies`: one record per method and one reader per family of methods |
| `Exchange` | one attempt of any operation against any reply |
| `Calls` | extends `Operations`: concurrent calls, their retry loops, net/http, the network and the gateway's ledger |
| `CallsProperties` | the properties of `Calls`, with the refinement mapping to `OncePerTask` |
| `OncePerTask` | the abstract promise: a task's fate is settled once, and each call reports it or admits it does not know |
| `Notices` | `readNotice` by several goroutines |
| `VerifyWebhook` | one verification of a delivery |
| `Inbox` | the abstract promise of a receiver: an event is claimed once and worked on at most once between restarts |
| `Receiver` | the example's handler, a goroutine for each delivery, its restarts and the platform that delivers |
| `ClientConfig` | `New` and the options, run by several goroutines |
| `Money` | `ToMinorUnits` and `CurrencyExponent` on digits |
| `SessionRequest` | extends `Money`: the derived key, the key rule, and the checks and body of a session request |
| `Storefront` | extends `SessionRequest`: visits of a payment page, and the gateway's ledger |
| `MCCalls`, `MCNotices`, `MCVerifyWebhook`, `MCClientConfig`, `MCStorefront` | the small instances |
| `ExchangeProof`, `CallsProof` (with the readers of `Operations`), `NoticesProof`, `VerifyWebhookProof`, `ReceiverProof`, `ClientConfigProof`, `StorefrontProof` | theorems |
| `FoldTheorems` | lemmas on folds over sequences and on recursive functions, for the proofs |

### Replies, Operations, Exchange

A reply is its status, what can be made of its body, whether the envelope says
success, how far `data` fits the operation's struct, the error code of the
envelope and that of the payload. A body is `unreadable` (broken off or over the
cap), `text` (not JSON) or `json`. A data value is absent, decodes badly
(`odd`), or is a row whose fate is `placed`, `declined` or `open`. Codes the
source does not branch on are one value, `OTHER`. The order of the tests in
`sendQuery` is kept: redirect, body, 429, 401 and 403. An outcome is an error's
kind, its status, its code and the row it carries. `Operations` gives
`Result(op, reply)`, the value one attempt of `op` returns.

### Calls

`pc[c]` is where a call is in `retry` and `send`: idle, sending, waiting in
`Do`, judging (the `if` at retry.go:68), backing off, returned. The actions of
a call are the code's steps: `Refuse` (arguments), `Invoke`, `Send` or
`SendNothing` (`Do` with an ended context), `Receive`, `TimeOut` and `Break`
(`Do` failed), `Return`, `BackOff`, `Wake`, `CancelSleep`. `EndContext` is the
caller. Three parts are external, modelled from how the SDK and its README rely
on them:

* net/http sends a request again on a broken reused connection when it is a GET
  or has an `Idempotency-Key` header (`TransportReplay`);
* the network loses, delays and reorders requests, and answers are cut or
  replaced by a proxy's page (`LoseRequest`, `Mangle`); a request that was given
  up stays on the wire and may be done later, its answer then goes nowhere;
* the gateway's ledger: a key is free, running for a task, or done with the
  first answer, which it repeats (`Begin`, `Finish`, `Collide`, `AnswerAgain`);
  it may turn a request away in front of the ledger (`TurnAway`, `Unavailable`);
  a call without a key is done each time it arrives (`Execute`).

Calls that share a task are a caller that asks again, a second goroutine, or a
second process. `KeyOf` is any function from tasks to keys: nothing assumes the
caller's keys to be distinct.

### OncePerTask

The promise has two variables: the fate of each task and what each call told
its caller. The mapping in `CallsProperties` reads the fate from the ledger and
the count of how often the gateway did the task, and what was told from the
result of a returned call. `KeepsPromise` says that every step of `Calls` is a
step of the promise or a stutter. It also says that two calls never report
opposite fates.

### Notices

`readNotice` step by step. The lookup, the store and the unlock are separate
actions, so it is the mutex and not the grain of the model that separates
readers. `Clean` is any function from headers to notices (it cuts at 512 bytes
and drops control characters), so two headers may clean to one notice.

### VerifyWebhook

A text after `t=` is digits or not, the number they spell and whether it has
leading zeros. An HMAC is perfect: the record of the secret, the text and the
body it was made over. `Sub`, `Negated` and `WrapSeconds` are Go's arithmetic,
with saturation and wrap-around, over widths that are constants.

### Inbox, Receiver

A delivery is an event and the number of the attempt. `pc[d]` is where
`ServeHTTP` is with it: waiting for the mutex, looking, marking, answering a
repeat, at work, answered. `firstTime` is four actions (`Lock`, `Look`,
`Repeat` or `Mark`), so that its mutex is what makes the claim atomic. The work
comes after the claim, as in the code. The verdict of `VerifyWebhook` is a
choice (`Refuse`, `Accept`): that module says when it is which. `Restart` empties
`seen`, closes what the process had in hand, and lets answers already written
arrive.

External is the platform, which sends an attempt, gives it up and sends the
next while the handler may still be at work on the first. What the work on an
event is does not matter here: the example logs it, and so the order in which
events are worked on is nothing the handler promises.

The refinement to `Inbox` reads an event's stage from `seen` and from whether
some delivery is at work on it, and maps `times` to `worked`, `lost` to
`interrupted` and `acked` to `delivered`. It is not the identity: that "in `seen`
and nobody at work" means "worked" is what has to hold.

### ClientConfig

An `http.Client` is an object in `heap`, because the question is who shares one.
`New` allocates one per call, `WithHTTPClient` one more each time it is applied;
both are named by the builder and the position of the option. The caller's own
have any timeout of `OwnTimeouts`, the SDK's the default one. An option is the
name of its constructor and its argument; a text is the class the code tells
apart (for a base URL: empty, https, loopback, plain http, no URL). Builders may
pass the same list, with the same caller's `http.Client`, which the caller goes
on using (`CallerSets`).

### Money, SessionRequest, Storefront

A price is the digits before and after the point, or no plain decimal; an int64
is as wide as `IntMax` says. A text that goes into a key is the sequence of its
words between hyphens, so joining with hyphens joins sequences, and
`checkout` + `save-2500` and `checkout-save` + `2500` are the same key, as in the
code. A word is a name or a numeral: an order id may look like an amount.

A body is a function on the names of its fields and `Extra` is another, on any
names: `MergeExtra` lets it replace every field of the params and add others, as
mergeExtra does, and the checks look at the params, except `VerifyOnly`, which
looks at `Extra` first.

In `Storefront` each visit runs the sample's page: amount from the cart, key from
the order, request, again after a lost answer. The gateway is external: it folds
the letter case of keys and answers a known key with its session or refuses it
(README.md:714, 727). Nothing says whether it compares a currency by code or as
spelled, so it may do either.

## 3. Runs

| Run | Asks |
| --- | --- |
| `exchange` | Is what gets retried exactly the README's table, for every reply that no two of its lines claim; does a charge's row always reach the caller? |
| `charge_pair` | Two concurrent calls charge for one task: done at most once, verdicts kept, the promise is kept, types. |
| `shared_key` | A caller derived one key for a charge and a refund: the promise is still kept: each is done once, and neither call takes the other's answer for its own. |
| `two_clients` | A revoke of a client without a timeout beside a session call with its own `Attempts` and net/http replays: sends within the budgets, an unkeyed write sent once, and (liveness) bounded or cancelled calls return. |
| `notices` | One warning per value, the cap, nothing dropped while there is room, and (liveness) every marked value is warned about and every reader gets through. |
| `verify` | The grammar is accepted exactly, what is accepted is authentic, typed as it was signed, and fresh, what is genuine is accepted. |
| `receiver` | However deliveries overlap, repeat or are cut short: is the promise of `Inbox` kept, and (liveness) is each accepted delivery answered and each delivered event worked on? |
| `client_config` | Every list of options: what is refused, what is built, whose `http.Client` is changed, who follows redirects. |
| `storefront` | Two visits: is what is sent the price, does one payment get one session, does everyone get their own, does the amount rule go by the flag that is sent, and when is a key refused? |

Bounds, and why they are enough:

* `exchange`: no counter. 13 statuses include one of every class and each status
  the code names; six codes include one of every list the code looks in. Every code comes with
  every status, also where the gateway has no such answer.
* `charge_pair`, `shared_key`: two calls and one retry. This reaches a first
  request overtaken by its retry, both calls under way at the gateway, and a
  request done after both calls ended. `MaxReplays = 0` keeps these runs small;
  a replay is one more request under the same key, and the theorems hold for
  every number of calls, retries and replays.
* `two_clients`: `WithMaxRetries` of 2 against `Attempts` of 2, one retry less,
  so confusing the two counts shows; one replay per call. The retry loop
  of a read is that of a session and has no run of its own.
* `notices`: two readers, five headers that clean to three notices, a cap of two:
  the set gets full, both readers meet the same value and the last free place.
* `verify`: at most three elements, so that each of two wanted elements can be
  repeated, missing or beside an unknown one. The widths are scaled down (a
  `Duration` of 15 half seconds, 31 for the largest second count) and the times
  lie around the clock and on both sides of every limit. The clock stands at a
  full and at a half second. Of the seven bodies two are signed under every
  header; five more (data that does not fit the event type, data with a field of
  another type, another shape, no JSON) come with a good header.

* `receiver`: two events, so that one may wait for the mutex behind the other;
  two attempts of each, so that a delivery meets its repeat; one restart, at any moment. The theorems hold for any number
  of events, attempts and restarts.
* `client_config`: two builders and every list of at most three options: enough
  for an option before and after the one that matters, and for a bad one between
  two good ones. Both builders pass the one list, which is the case of sharing.
* `storefront`: two visits, thirteen payments chosen so that their keys meet (split
  at another hyphen, another letter case, `SaveCard` flipped, verify-only by field
  or by `Extra`, an `Extra` that replaces the amount or the reference or adds a
  field) or are too long, nine prices in three currencies of exponents 0, 2
  and 3 and one price in every other spelling of a currency. `IntMax` is 9999 and
  prices lie on both sides of it; `MaxKey` is 100, as in the code.

The runs end where the modelled program ends (all calls returned, attempts used
up, clients built, visits answered), so they do not check deadlock
(`CHECK_DEADLOCK FALSE`) except `notices`, where a reader can always receive
the next response.

Fairness. `WF` of a call's own steps: a goroutine that can go on is scheduled,
a timer fires, and `Do` returns when its timeout or context ends. A timeout is
assumed only for clients that have one. Nothing of the network, the gateway or
the caller is fair. In `Notices`, `WF` of a goroutine's steps and `SF` of
taking the mutex: `sync.Mutex` hands itself over to a waiter that has starved
for a millisecond, so a waiter is not passed over forever. In `Receiver`, the
same for the handler's goroutines, and nothing of the platform and the network:
that it restarts, refuses or delivers is never assumed.

## 4. Disagreements between the code and its documentation

Three have a run that TLC ends with a counterexample.

* `too_far_accepted`: verify.go:151. A signed timestamp more than 292 years
  ahead saturates `Sub` at the smallest `Duration`, whose negation is itself, so
  it is "not too far". Only the platform's own key can sign such a value.
* `nothing_charged`: retry.go:69. A retry that meets its own first request at
  the gateway returns `DUPLICATE_REQUEST`, of which README.md:876 says that
  nothing was charged, and the first request then charges.
* `endpoint_posted_twice`: client.go:1212. net/http may repeat the POST of
  `CreateWebhookEndpoint`, because of its key header, against retry_test.go:253.

Seen while modelling and kept in the model, without a run of their own:

* types.go:1046: a signed event whose `data` has a field of another type is
  rejected, against verify.go:183. `GenuineIsAccepted` excepts such a body.
* client.go:1245: a 429, or any 4xx, whose body breaks off becomes a
  `*TransportError` and is retried, against retry.go:34 and README.md:745. The
  theorem `UnreadableIsRetried` says so. Such an error carries statuses below 500,
  where errors.go:828 says 5xx or 0.
* retry.go:111: a charge's `PAYMENT_PROCESSING_UNAVAILABLE` is retried whatever
  its status, where README.md:743 names the 503 and README.md:745 says no 4xx
  is retried. The theorem `UnavailableAtConflictIsRetried` says so of a 409.
  These are the only replies that two lines of the table claim (`Contested`), and
  `RetriesWhatIsDocumented` says nothing of them; `RetriesExactly` says what the
  code does with every reply.
* client.go:634: a charge of an unknown card is a `*ChargeError`, against
  README.md:923.
* client.go:649 and 671: `RevokePaymentMethod` returns nil on every status below
  400, not only 204.
* client.go:183 and README.md:628 say `WithHTTPClient` replaces `WithTimeout`, and
  client.go:197 that `WithTimeout` is for the default client; a `WithTimeout` after
  a `WithHTTPClient` changes the timeout of the copy. The theorem
  `TimeoutNotReplaced` says so; `BuiltAsConfigured` says nothing of that order.
* client.go:847: with `VerifyOnly` a positive amount is sent, where types.go:33
  says the amount must be 0; and an amount in `Extra` is sent as it is, so
  `Extra` can name 0 in a body that is not verify-only. `AmountRuleFollowsBody`
  is about the other bodies.
* idempotency.go:50: orders whose ids differ only in letter case (README.md:727),
  or whose scope and order are split at another hyphen, have one key. The second
  visit is refused as reused; it never gets the other's session
  (`ReusedOnlyOnCollision`, `SessionIsTheVisitors`).
* The key upper-cases the currency and the body keeps the caller's spelling, so
  the same payment spelled `eur` may be another request under the same key.
* logging.go:99: past 32 values a new notice is dropped (README.md:646).
* verify.go:151: with a zero tolerance a timestamp of the clock's own second is
  refused once the clock is past its start (README.md:302).

## 5. Proofs

Every safety invariant, action property and refinement that a passing run checks
is also a theorem, for every value of the constants that the named assumptions
allow. TLC evaluates each assumption. `WireAssumption`, `CallsAssumption`,
`NoticesAssumption`, `ReceiverAssumption`, `ConfigAssumption`, `MoneyAssumption`,
`RequestAssumption` and `StorefrontAssumption` are types of the constants.
`HeadersAssumption` and `VerifyAssumption` are types too, and `VerifyAssumption`
says one thing more, which Go's own widths satisfy: the largest `Duration` is
no longer than the largest count of seconds, and the clock is so far from the last
second of an int64 that adding a `Duration` to it does not wrap (that second is
292 billion years away, the longest `Duration` is 292 years).

**Calls.**

* `CallsProof!ResultType`: every operation reads every reply as a result or
  one of the SDK's errors. It stands for the type invariant of `Exchange`, whose
  only step it is about. One lemma per reader.
* `ExchangeProof!RetriesExactly`: which replies the loop sends again, for every
  operation. From it `RetriesAsDocumented` (the README's table, for every reply
  that no two of its lines claim), and beside it `UnreadableIsRetried` and
  `UnavailableAtConflictIsRetried`, which show what happens to the others (section
  4). `RowKept`: a charge's row survives whatever comes with it. The invariant says
  that what was answered is what the operation's reader makes of its reply; the
  rest is a case for each reader.
* `CallsProof!TypeCorrect` and `DoneAtMostOnce`. That a task is done at most
  once is not inductive. The invariant adds `WireInv` (each request on the wire
  has the key of its task), `LedgerInv` (an opened key belongs to a task that
  derives it) and `DoneInv` (a task was done at most once, and only if its key is
  done for this task). `WireInv` is where the retry loop's promise to keep the
  key enters; the rest is the ledger.
* `CallsProof!BudgetKept`, `VerdictKept`, `UnkeyedOnce`, from
  `LoopInv`: the round is within the budget, a call in backoff has a round left
  and a result worth retrying, a call that waits has no result, and the requests
  that net/http did not add are counted by the round. `UnkeyedOnce` adds
  `NumberInv`: requests on the wire have the numbers their call gave them.
* `CallsProof!Refinement`: `Calls` implements `OncePerTask`. Every record of
  the ledger, reply on the wire and result of a call is true of its task's fate
  (`TruthInv`), and a fate that was settled is kept, so what was true stays true.

`AtMostOnce` and `KeepsPromise` depend on the ledger, which is not in this
repository: they say that *if* the gateway keeps its keys as documented, the
SDK's retries do nothing to spoil it.

**Notices, the receiver and New.**

* `NoticesProof!TypeCorrect`, `WarnedOnce`, `CapKept`, `DroppedForRoom`, from
  `IInv`: what a reader looked up still holds when it stores, because it holds
  the mutex, and a reader that owes a warning is alone in owing it.
* `ReceiverProof!TypeCorrect` and `Refinement` (`Receiver` implements `Inbox`).
  The refinement needs that at most one delivery is at work on an
  event, and only if it is in `seen`; that a delivery about to mark looked at
  a `seen` that has not changed; that a `seen` event is worked on, under work
  or was interrupted; and that an answer of 200 belongs to a claimed event.
* `ClientConfigProof!TypeCorrect`, `CallersUntouched`, `BuiltFixed`,
  `NoRedirects`, `RefusedExactly`, `Configured`, `TimeoutNotReplaced`. The heart of the first four is
  that a client's `http.Client` is one that its own `New` allocated, and that what
  different builders and the caller own is disjoint. `RefusedExactly` rests on
  `OptionsInv`: the error so far tells whether one of the options applied so
  far was bad, and the URL so far is that of the last base URL among them.
  The last two rest on `ConfigInv`, which says the same of the budget (as long as
  there is no error), of the suffixes, and of the timeout: it is the default, that
  of the last `WithTimeout` with no `WithHTTPClient` behind it, or one that the
  caller's client had, with no `WithTimeout` behind.

**Folds.** Headers and digits are read by folds, and a fold recurs over the sets
of positions of its sequence. `FoldTheorems` proves what it takes to reason
about that: induction over the naturals for a set in place of a predicate
(`Induction`, from the library's `WFMin`, since a theorem with an operator for a
parameter cannot be instantiated by the provers installed), that a fold's function
exists (`FoldExists`), and that it goes through the positions one by one
(`FoldSteps`). `IterateExists` does the same for a recursive function.

* `VerifyWebhookProof!GrammarExactly`, `OnlyAuthentic`, `OnlyFresh`,
  `GenuineAccepted`. `Pass` turns the fold over the header into a walk along its
  elements. What was read of each of the two keys after k elements is its only
  occurrence among them, or missing, as long as the header was good (`PassAccepts`):
  so a header passes exactly if it is in the grammar, in whatever order its
  elements stand and with unknown ones anywhere. What is accepted has passed, so
  its HMAC is the only one in the header. `OnlyFresh` and `GenuineAccepted` rest
  on `DistanceIs`: `Sub`, with its saturation, and the negation, which wraps, are
  the distance to the timestamp as long as a `Duration` can hold it.
* `StorefrontProof!Exact` and, for keys and sessions, `TypeCorrect`,
  `AmountsNeverShareAKey`, `OwnSession`, `OneSession`, `AmountRule`,
  `KindsKeepTheirKeys`, `EditedCartIsFresh`. `ValuePadded` says that zeros behind
  digits multiply what they spell by a power of ten, and so `MinorUnits` that
  `ToMinorUnits` returns the price in minor units or refuses. Facts about joined
  sequences (`JoinedAt`, `KeyAt`, `ScopesOfOneKey`) and four invariants do the rest: what
  a visit asks for is what its payment and cart make (`VisitInv`), a session
  is what some visit asked for (`SessionsInv`), no key has two sessions and a
  visit that was answered has that of its key (`LedgerInv`), and a refused
  visit met a session of another request (`RefusedInv`). Two spellings of one
  price are one amount (`OneAmount`), so one key and one session; and since
  amounts never share a key, the request that a refused visit met differs in
  something the key leaves out.

What `Storefront` proves of sessions depends on the external gateway refusing a
known key for another request.

Model-checked only: liveness under fairness, which is out of the prover's reach as
`ENABLED` is (`CallReturns`, `CancelReturns`, `ReaderFinishes`, `SeenIsWarned`,
`HandlerAnswers`, `DeliveredIsWorked`). The runs that end in a counterexample are
of course not proved; that a run reaches it is all they show. No module uses a
`RECURSIVE` operator.

## 6. Left out

* Texts, request ids, raw bytes, wording and layout of messages and debug lines.
* The length of a backoff: a sleep ends at any time.
* Which arguments the other operations refuse: `prepareSessionRequest` is in
  `SessionRequest`; elsewhere a call's arguments are refused or not.
* `retryDelay`'s arithmetic: it can wrap only for a `BaseDelay` the caller sets,
  and is a pure function of two numbers that a table test reaches.
* `Sign`: a pure function that joins five fields with line feeds.
* A panic in the handler's work, and the platform's disabling of an endpoint that
  keeps failing; the wording of the `User-Agent`.
* `Sequence` in a webhook's data: the SDK passes it on and the example's handler
  does not look at it.
* In `Extra`, a value of another JSON type for the amount, the currency, the
  reference or `saveCard`; one for `verifyOnly` is modelled.
* An envelope in which only one field has the wrong type; the model has
  envelopes that decode and bodies that do not.
* Clients not built by `New`, whose notice set is nil.
* Mistakes of the platform's cryptography: a MAC is its input.
* The error code lists beyond the codes the source branches on, the fields of the
  wire types it only passes on, debug lines, and the clock skew warning of `Ping`.

## 7. Plan

Done, in this order: `Replies` and `Operations`, `Exchange`, `Calls` with its
properties and `OncePerTask`, `Notices`, `VerifyWebhook`, the proofs about
`Operations`, `Calls` and `Notices`; then `Inbox` and `Receiver`, `ClientConfig`,
`Money`, `SessionRequest` and `Storefront`, each with its proofs. What is left:

1. The canonical string of `Sign` and the arithmetic of `retryDelay`.
2. The argument checks of the other operations.
3. Polling and paging by callers: `GetStatus`, refunds, `ListTransactions`.
