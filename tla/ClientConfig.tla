---------------------------- MODULE ClientConfig ----------------------------
(***************************************************************************)
(* New and its options (client.go, retry.go, logging.go): goroutines build *)
(* clients, from options that may share the caller's own http.Client and   *)
(* that the caller may pass to New again. An http.Client is an object in   *)
(* the heap, for the question is who shares one with whom.                 *)
(*                                                                         *)
(* An option is a pair of its constructor's name and its argument. A text  *)
(* is the class that the code tells apart.                                 *)
(***************************************************************************)
EXTENDS Integers, Sequences, FiniteSets, SequencesExt

CONSTANTS
  Builder,         \* goroutines that call New
  Own,             \* the caller's http.Client objects
  Nil,             \* a nil *http.Client
  Timeouts,        \* durations given to WithTimeout
  OwnTimeouts,     \* timeouts the caller sets on its own http.Client
  DefaultTimeout,
  Budgets,         \* numbers given to WithMaxRetries
  DefaultRetries,
  MaxOptions,      \* bound: options of one call of New
  Lists            \* the options each builder passes

BaseURLs == {"empty", "https", "loopback", "plain", "no URL"}

Option ==
  ({"baseURL"} \X BaseURLs)
  \cup ({"httpClient"} \X (Own \cup {Nil}))
  \cup ({"timeout"} \X Timeouts)
  \cup ({"userAgent"} \X {"blank", "control", "suffix"})
  \cup ({"maxRetries"} \X Budgets)
  \cup ({"logger"} \X {"nil", "given"})

\* The n-th http.Client a builder allocates: 0 is the default one, n the copy
\* made by option n.
Private(b) == {b} \X (0..MaxOptions)
Address == Own \cup UNION {Private(b) : b \in Builder}

ASSUME ConfigAssumption ==
  /\ Timeouts \subseteq Int /\ OwnTimeouts \subseteq Int /\ Budgets \subseteq Int
  /\ DefaultTimeout \in Int /\ DefaultRetries \in Nat
  /\ MaxOptions \in Nat
  /\ Nil \notin Own
  /\ \A b \in Builder : Own \cap Private(b) = {}
  /\ Lists \subseteq [Builder -> UNION {[1..n -> Option] : n \in 0..MaxOptions}]

VARIABLES
  heap,     \* an http.Client: its timeout, and whether it follows redirects
  options,  \* what each builder passes to New
  keys,     \* whether the credentials have their prefixes
  pc,
  next,     \* the option to apply next
  client    \* the Client under construction, and what New returned

vars == <<heap, options, keys, pc, next, client>>

DefaultClient(b) ==
  [http |-> <<b, 0>>, url |-> "empty", agent |-> <<>>, retries |-> DefaultRetries,
   logger |-> "nil", err |-> FALSE]

Init ==
  /\ \E set \in [Own -> OwnTimeouts] :
       heap = [a \in Address |->
                 [timeout |-> IF a \in Own THEN set[a] ELSE DefaultTimeout, follows |-> TRUE]]
  /\ options \in Lists
  /\ keys \in BOOLEAN
  /\ pc = [b \in Builder |-> "new"]
  /\ next = [b \in Builder |-> 1]
  /\ client = [b \in Builder |-> DefaultClient(b)]

-----------------------------------------------------------------------------
\* The credentials are checked before any option is applied.
Begin(b) ==
  /\ pc[b] = "new"
  /\ pc' = [pc EXCEPT ![b] = IF keys THEN "options" ELSE "refused"]
  /\ UNCHANGED <<heap, options, keys, next, client>>

Current(b) == options[b][next[b]]

\* The next option is of this kind, and its argument is one of these.
Applies(b, kind, arguments) ==
  /\ pc[b] = "options" /\ next[b] <= Len(options[b])
  /\ Current(b)[1] = kind /\ Current(b)[2] \in arguments
  /\ next' = [next EXCEPT ![b] = @ + 1]
  /\ UNCHANGED <<options, keys, pc>>

WithBaseURL(b) ==
  /\ Applies(b, "baseURL", BaseURLs)
  /\ client' = [client EXCEPT ![b].url = Current(b)[2]]
  /\ UNCHANGED heap

\* Mutant: the caller's http.Client itself is taken.
WithHTTPClientShared(b) ==
  /\ Applies(b, "httpClient", Own)
  /\ client' = [client EXCEPT ![b].http = Current(b)[2]]
  /\ UNCHANGED heap

\* Mutant: the timeout set so far outlives the http.Client it was set on.
WithHTTPClientKeepsTimeout(b) ==
  LET copy == <<b, next[b]>> IN
  /\ Applies(b, "httpClient", Own)
  /\ heap' = [heap EXCEPT ![copy] = [heap[Current(b)[2]] EXCEPT
                                       !.timeout = heap[client[b].http].timeout]]
  /\ client' = [client EXCEPT ![b].http = copy]

\* A copy, made each time the option is applied.
WithHTTPClient(b) ==
  LET copy == <<b, next[b]>> IN
  /\ Applies(b, "httpClient", Own)
  /\ heap' = [heap EXCEPT ![copy] = heap[Current(b)[2]]]
  /\ client' = [client EXCEPT ![b].http = copy]

\* On the http.Client of this moment, the default one or a copy.
WithTimeout(b) ==
  /\ Applies(b, "timeout", {t \in Timeouts : t > 0})
  /\ heap' = [heap EXCEPT ![client[b].http].timeout = Current(b)[2]]
  /\ UNCHANGED client

WithUserAgent(b) ==
  \/ /\ Applies(b, "userAgent", {"suffix"})
     /\ client' = [client EXCEPT ![b].agent = Append(@, "suffix")]
     /\ UNCHANGED heap
  \/ /\ Applies(b, "userAgent", {"control"})
     /\ client' = [client EXCEPT ![b].err = TRUE]
     /\ UNCHANGED heap

\* Mutant: a good number takes the error of an earlier option back.
WithMaxRetriesForgives(b) ==
  /\ Applies(b, "maxRetries", Budgets)
  /\ client' = [client EXCEPT ![b].err = Current(b)[2] < 0,
                              ![b].retries = IF Current(b)[2] < 0 THEN @ ELSE Current(b)[2]]
  /\ UNCHANGED heap

WithMaxRetries(b) ==
  /\ Applies(b, "maxRetries", Budgets)
  /\ client' = IF Current(b)[2] < 0 THEN [client EXCEPT ![b].err = TRUE]
               ELSE [client EXCEPT ![b].retries = Current(b)[2]]
  /\ UNCHANGED heap

WithLogger(b) ==
  /\ Applies(b, "logger", {"given"})
  /\ client' = [client EXCEPT ![b].logger = "given"]
  /\ UNCHANGED heap

\* Arguments that an option ignores.
Ignore(b) ==
  /\ \/ Applies(b, "httpClient", {Nil})
     \/ Applies(b, "timeout", {t \in Timeouts : t <= 0})
     \/ Applies(b, "userAgent", {"blank"})
     \/ Applies(b, "logger", {"nil"})
  /\ UNCHANGED <<heap, client>>

\* validateBaseURL.
SafeURL == {"https", "loopback"}

Applied(b) == pc[b] = "options" /\ next[b] > Len(options[b])

\* An option's error, no base URL, or one that would send in clear text.
Refuse(b) ==
  /\ Applied(b)
  /\ client[b].err \/ client[b].url \notin SafeURL
  /\ pc' = [pc EXCEPT ![b] = "refused"]
  /\ UNCHANGED <<heap, options, keys, next, client>>

\* Mutant: the redirect policy is set on the default http.Client.
BuildPinsDefault(b) ==
  /\ Applied(b)
  /\ ~client[b].err /\ client[b].url \in SafeURL
  /\ heap' = [heap EXCEPT ![<<b, 0>>].follows = FALSE]
  /\ pc' = [pc EXCEPT ![b] = "built"]
  /\ UNCHANGED <<options, keys, next, client>>

\* The redirect policy is pinned last, on the http.Client the client ends with.
Build(b) ==
  /\ Applied(b)
  /\ ~client[b].err /\ client[b].url \in SafeURL
  /\ heap' = [heap EXCEPT ![client[b].http].follows = FALSE]
  /\ pc' = [pc EXCEPT ![b] = "built"]
  /\ UNCHANGED <<options, keys, next, client>>

\* The caller keeps using its own http.Client elsewhere.
CallerSets(o) ==
  /\ \E t \in OwnTimeouts : heap' = [heap EXCEPT ![o].timeout = t]
  /\ UNCHANGED <<options, keys, pc, next, client>>

NewStep(b) ==
  \/ Begin(b) \/ Refuse(b) \/ Build(b) \/ Ignore(b)
  \/ WithBaseURL(b) \/ WithHTTPClient(b) \/ WithTimeout(b)
  \/ WithUserAgent(b) \/ WithMaxRetries(b) \/ WithLogger(b)

Next == (\E b \in Builder : NewStep(b)) \/ (\E o \in Own : CallerSets(o))

Spec == Init /\ [][Next]_vars

-----------------------------------------------------------------------------
Settings ==
  [http : Address, url : BaseURLs, agent : Seq({"suffix"}), retries : Nat,
   logger : {"nil", "given"}, err : BOOLEAN]

\* A client's http.Client is always one that its own New allocated.
TypeOK ==
  /\ heap \in [Address -> [timeout : Int, follows : BOOLEAN]]
  /\ \A b \in Builder : options[b] \in Seq(Option) /\ Len(options[b]) <= MaxOptions
  /\ keys \in BOOLEAN
  /\ pc \in [Builder -> {"new", "options", "built", "refused"}]
  /\ next \in [Builder -> 1..(MaxOptions + 1)]
  /\ client \in [Builder -> Settings]
  /\ \A b \in Builder : client[b].http \in Private(b)

\* client.go:187 "without changing the behaviour of the client you keep using
\* elsewhere": no option and no New changes the caller's http.Client.
CallersClientUntouched ==
  [][\A o \in Own : heap'[o] # heap[o] => UNCHANGED <<pc, next, client>>]_vars

\* client.go:125 "safe for concurrent use": once New has returned a client,
\* nothing changes its settings or its http.Client any more: no other New
\* that takes the same options, and nothing the caller does to its own.
BuiltIsFixed ==
  [][\A b \in Builder : pc[b] = "built" =>
       client'[b] = client[b] /\ heap'[client[b].http] = heap[client[b].http]]_vars

\* client.go:284: no client follows a redirect, whichever http.Client it was
\* given, in whatever order, and whoever else was given it.
NeverFollowsRedirects ==
  \A b \in Builder : pc[b] = "built" => ~heap[client[b].http].follows

\* The position of the last option of a kind with one of these arguments.
LastOf(b, kind, arguments) ==
  SelectLastInSeq(options[b], LAMBDA o : o[1] = kind /\ o[2] \in arguments)

\* New refuses exactly when a credential is wrong, some option was given a
\* bad argument, wherever it stands, or the last base URL is not a safe one.
RefusesExactly ==
  \A b \in Builder : pc[b] \in {"built", "refused"} =>
    LET bad == \E i \in 1..Len(options[b]) :
                 \/ options[b][i] = <<"userAgent", "control">>
                 \/ options[b][i][1] = "maxRetries" /\ options[b][i][2] < 0
        i == LastOf(b, "baseURL", BaseURLs)
        safe == i > 0 /\ options[b][i][2] \in SafeURL
    IN pc[b] = "refused" <=> ~keys \/ bad \/ ~safe

\* client.go:183 "It replaces WithTimeout" and client.go:197 "on the default
\* HTTP client": a client built with the caller's http.Client has the caller's
\* timeout, as it was when the option was applied, whatever WithTimeout set
\* before; any other has the timeout that was set last, or the default one. And
\* it has the last budget and every suffix.
BuiltAsConfigured ==
  \A b \in Builder : pc[b] = "built" =>
    LET given == LastOf(b, "httpClient", Own)
        set == LastOf(b, "timeout", {t \in Timeouts : t > 0})
        budget == LastOf(b, "maxRetries", Budgets)
        suffixes == {i \in 1..Len(options[b]) : options[b][i] = <<"userAgent", "suffix">>}
        timeout == heap[client[b].http].timeout
    IN /\ client[b].retries = IF budget = 0 THEN DefaultRetries ELSE options[b][budget][2]
       /\ Len(client[b].agent) = Cardinality(suffixes)
       /\ given = 0 => timeout = IF set = 0 THEN DefaultTimeout ELSE options[b][set][2]
       /\ set < given => timeout \in OwnTimeouts
=============================================================================
