-------------------------- MODULE ClientConfigProof --------------------------
(***************************************************************************)
(* New, for any number of goroutines, http.Client objects and options: a   *)
(* client's http.Client is its own, so no client changes after New, none   *)
(* follows redirects, and the caller's objects are left alone. New refuses *)
(* exactly what the options it was given call for.                         *)
(***************************************************************************)
EXTENDS ClientConfig, FoldTheorems, FiniteSetTheorems

LEMMA AddressOf ==
  /\ \A b \in Builder : Private(b) \subseteq Address
  /\ Own \subseteq Address
  /\ \A b \in Builder, n \in 0..MaxOptions : <<b, n>> \in Private(b)
  /\ \A b, c \in Builder : b # c => Private(b) \cap Private(c) = {}
  /\ \A b \in Builder : Private(b) \cap Own = {}
<1> QED
  BY ConfigAssumption DEF Address, Private

LEMMA InitTypeOK == Init => TypeOK
<1> SUFFICES ASSUME Init PROVE TypeOK
  OBVIOUS
<1> USE ConfigAssumption
<1>1. ASSUME NEW b \in Builder
      PROVE  options[b] \in Seq(Option) /\ Len(options[b]) <= MaxOptions
  <2>1. options \in [Builder -> UNION {[1..n -> Option] : n \in 0..MaxOptions}]
    BY DEF Init
  <2>2. PICK n \in 0..MaxOptions : options[b] \in [1..n -> Option]
    BY <2>1
  <2> QED
    BY <2>2
<1>2. heap \in [Address -> [timeout : Int, follows : BOOLEAN]]
  <2>1. PICK set \in [Own -> OwnTimeouts] :
          heap = [a \in Address |->
                    [timeout |-> IF a \in Own THEN set[a] ELSE DefaultTimeout, follows |-> TRUE]]
    BY DEF Init
  <2>2. \A a \in Address : (IF a \in Own THEN set[a] ELSE DefaultTimeout) \in Int
    OBVIOUS
  <2> QED
    BY <2>1, <2>2
<1>3. client \in [Builder -> Settings] /\ \A b \in Builder : client[b].http \in Private(b)
  <2>1. \A b \in Builder : DefaultClient(b) \in Settings /\ DefaultClient(b).http \in Private(b)
    BY AddressOf DEF DefaultClient, Settings, BaseURLs
  <2> QED
    BY <2>1 DEF Init
<1>4. next \in [Builder -> 1..(MaxOptions + 1)]
  BY DEF Init
<1>5. /\ keys \in BOOLEAN
      /\ pc \in [Builder -> {"new", "options", "built", "refused"}]
  BY DEF Init
<1> QED
  BY <1>1, <1>2, <1>3, <1>4, <1>5 DEF TypeOK

\* What an option that is applied leaves alone, and what it may do.
LEMMA AppliesStep ==
  ASSUME TypeOK, NEW b \in Builder, NEW kind, NEW arguments, Applies(b, kind, arguments)
  PROVE  /\ next[b] \in 1..Len(options[b]) /\ next[b] \in 1..MaxOptions
         /\ next' = [next EXCEPT ![b] = @ + 1]
         /\ next' \in [Builder -> 1..(MaxOptions + 1)]
         /\ UNCHANGED <<options, keys, pc>> /\ pc[b] = "options"
         /\ Current(b) \in Option /\ Current(b)[1] = kind /\ Current(b)[2] \in arguments
<1>1. /\ pc[b] = "options" /\ next[b] <= Len(options[b])
      /\ Current(b)[1] = kind /\ Current(b)[2] \in arguments
      /\ next' = [next EXCEPT ![b] = @ + 1]
      /\ UNCHANGED <<options, keys, pc>>
  BY DEF Applies
<1>2. /\ options[b] \in Seq(Option) /\ Len(options[b]) <= MaxOptions
      /\ next \in [Builder -> 1..(MaxOptions + 1)]
  BY DEF TypeOK
<1>3. Len(options[b]) \in Nat /\ MaxOptions \in Nat
  BY <1>2, ConfigAssumption
<1>4. next[b] \in 1..Len(options[b]) /\ next[b] \in 1..MaxOptions
  BY <1>1, <1>2, <1>3
<1>5. Current(b) \in Option
  BY <1>2, <1>4 DEF Current
<1>6. next' \in [Builder -> 1..(MaxOptions + 1)]
  BY <1>1, <1>2, <1>3, <1>4
<1> QED
  BY <1>1, <1>4, <1>5, <1>6

\* A step of New for one client: it changes that client's settings and its own
\* http.Client objects, and only before New has returned.
Within(b) ==
  /\ pc[b] \in {"new", "options"}
  /\ UNCHANGED <<options, keys>>
  /\ \A c \in Builder \ {b} :
       client'[c] = client[c] /\ pc'[c] = pc[c] /\ next'[c] = next[c]
  /\ \A a \in Address \ Private(b) : heap'[a] = heap[a]
  /\ pc'[b] = "built" => ~heap'[client'[b].http].follows

\* What is common to the options: they end with settings and a heap of the
\* right type, in which only their own client is changed.
LEMMA OptionWithin ==
  ASSUME TypeOK, NEW b \in Builder, NEW kind, NEW arguments, Applies(b, kind, arguments),
         NEW s \in Settings, s.http \in Private(b), client' = [client EXCEPT ![b] = s],
         heap' \in [Address -> [timeout : Int, follows : BOOLEAN]],
         \A a \in Address \ Private(b) : heap'[a] = heap[a]
  PROVE  TypeOK' /\ Within(b)
<1>1. /\ next' = [next EXCEPT ![b] = @ + 1]
      /\ next' \in [Builder -> 1..(MaxOptions + 1)]
      /\ UNCHANGED <<options, keys, pc>> /\ pc[b] = "options"
  BY AppliesStep
<1>2. /\ client' \in [Builder -> Settings]
      /\ \A c \in Builder : client'[c].http \in Private(c)
  BY DEF TypeOK
<1>3. TypeOK'
  BY <1>1, <1>2 DEF TypeOK
<1>4. Within(b)
  BY <1>1 DEF TypeOK, Within
<1> QED
  BY <1>3, <1>4

LEMMA WithBaseURLStep ==
  ASSUME TypeOK, NEW b \in Builder, WithBaseURL(b)
  PROVE  TypeOK' /\ Within(b)
<1> DEFINE s == [client[b] EXCEPT !.url = Current(b)[2]]
<1>1. Current(b)[2] \in BaseURLs
  BY DEF WithBaseURL, Applies
<1>2. s \in Settings /\ s.http \in Private(b) /\ client' = [client EXCEPT ![b] = s]
  BY <1>1 DEF WithBaseURL, TypeOK, Settings
<1>3. UNCHANGED heap /\ Applies(b, "baseURL", BaseURLs)
  BY DEF WithBaseURL
<1> HIDE DEF s
<1> QED
  BY <1>2, <1>3, OptionWithin DEF TypeOK

LEMMA WithHTTPClientStep ==
  ASSUME TypeOK, NEW b \in Builder, WithHTTPClient(b)
  PROVE  TypeOK' /\ Within(b)
<1> DEFINE copy == <<b, next[b]>>
           s == [client[b] EXCEPT !.http = copy]
<1>1. Applies(b, "httpClient", Own) /\ Current(b)[2] \in Own /\ next[b] \in 1..MaxOptions
  BY AppliesStep DEF WithHTTPClient
<1>2. copy \in Private(b) /\ copy \in Address /\ Current(b)[2] \in Address
  BY <1>1, AddressOf, ConfigAssumption
<1>3. s \in Settings /\ s.http \in Private(b) /\ client' = [client EXCEPT ![b] = s]
  BY <1>2 DEF WithHTTPClient, TypeOK, Settings
<1>4. heap' = [heap EXCEPT ![copy] = heap[Current(b)[2]]]
  BY DEF WithHTTPClient
<1>5. /\ heap' \in [Address -> [timeout : Int, follows : BOOLEAN]]
      /\ \A a \in Address \ Private(b) : heap'[a] = heap[a]
  BY <1>2, <1>4 DEF TypeOK
<1> HIDE DEF s
<1> QED
  BY <1>1, <1>3, <1>5, OptionWithin

LEMMA WithTimeoutStep ==
  ASSUME TypeOK, NEW b \in Builder, WithTimeout(b)
  PROVE  TypeOK' /\ Within(b)
<1> DEFINE a == client[b].http
           positive == {t \in Timeouts : t > 0}
<1>1. Applies(b, "timeout", positive) /\ Current(b)[2] \in Int
  BY ConfigAssumption DEF WithTimeout, Applies
<1>2. a \in Private(b) /\ a \in Address
  BY AddressOf DEF TypeOK
<1>3. heap' = [heap EXCEPT ![a].timeout = Current(b)[2]] /\ client' = client
  BY DEF WithTimeout
<1>4. /\ heap' \in [Address -> [timeout : Int, follows : BOOLEAN]]
      /\ \A x \in Address \ Private(b) : heap'[x] = heap[x]
  BY <1>1, <1>2, <1>3 DEF TypeOK
<1>5. client[b] \in Settings /\ client' = [client EXCEPT ![b] = client[b]]
  BY <1>3 DEF TypeOK
<1> HIDE DEF positive
<1> QED
  BY <1>1, <1>2, <1>4, <1>5, OptionWithin

LEMMA WithUserAgentStep ==
  ASSUME TypeOK, NEW b \in Builder, WithUserAgent(b)
  PROVE  TypeOK' /\ Within(b)
<1> DEFINE long == [client[b] EXCEPT !.agent = Append(@, "suffix")]
           bad == [client[b] EXCEPT !.err = TRUE]
<1>0. client[b] \in Settings /\ client[b].http \in Private(b)
  BY DEF TypeOK
<1>1. /\ long \in Settings /\ long.http \in Private(b)
      /\ bad \in Settings /\ bad.http \in Private(b)
  <2>1. client[b].agent \in Seq({"suffix"})
    BY <1>0 DEF Settings
  <2>2. Append(client[b].agent, "suffix") \in Seq({"suffix"})
    BY <2>1
  <2>3. long \in Settings /\ long.http \in Private(b)
    BY <1>0, <2>2 DEF Settings
  <2>4. bad \in Settings /\ bad.http \in Private(b)
    BY <1>0 DEF Settings
  <2> QED
    BY <2>3, <2>4
<1>2. UNCHANGED heap
  BY DEF WithUserAgent
<1>3. CASE Applies(b, "userAgent", {"suffix"}) /\ client' = [client EXCEPT ![b].agent = Append(@, "suffix")]
  <2>1. client' = [client EXCEPT ![b] = long]
    BY <1>3
  <2> HIDE DEF long
  <2> QED
    BY <1>1, <1>2, <1>3, <2>1, OptionWithin DEF TypeOK
<1>4. CASE Applies(b, "userAgent", {"control"}) /\ client' = [client EXCEPT ![b].err = TRUE]
  <2>1. client' = [client EXCEPT ![b] = bad]
    BY <1>4
  <2> HIDE DEF bad
  <2> QED
    BY <1>1, <1>2, <1>4, <2>1, OptionWithin DEF TypeOK
<1> QED
  BY <1>3, <1>4 DEF WithUserAgent

LEMMA WithMaxRetriesStep ==
  ASSUME TypeOK, NEW b \in Builder, WithMaxRetries(b)
  PROVE  TypeOK' /\ Within(b)
<1> DEFINE m == Current(b)[2]
           s == IF m < 0 THEN [client[b] EXCEPT !.err = TRUE] ELSE [client[b] EXCEPT !.retries = m]
<1>1. Applies(b, "maxRetries", Budgets) /\ UNCHANGED heap /\ m \in Int
  BY ConfigAssumption DEF WithMaxRetries, Applies
<1>2. s \in Settings /\ s.http \in Private(b)
  <2>1. client[b] \in Settings /\ client[b].http \in Private(b)
    BY DEF TypeOK
  <2>2. CASE m < 0
    BY <2>1, <2>2 DEF Settings
  <2>3. CASE m \in Nat
    BY <2>1, <2>3 DEF Settings
  <2> QED
    BY <1>1, <2>2, <2>3
<1>3. client' = [client EXCEPT ![b] = s]
  BY DEF WithMaxRetries, TypeOK
<1> HIDE DEF s
<1> QED
  BY <1>1, <1>2, <1>3, OptionWithin DEF TypeOK

LEMMA WithLoggerStep ==
  ASSUME TypeOK, NEW b \in Builder, WithLogger(b)
  PROVE  TypeOK' /\ Within(b)
<1> DEFINE s == [client[b] EXCEPT !.logger = "given"]
<1>1. Applies(b, "logger", {"given"}) /\ UNCHANGED heap
  BY DEF WithLogger
<1>2. s \in Settings /\ s.http \in Private(b) /\ client' = [client EXCEPT ![b] = s]
  BY DEF WithLogger, TypeOK, Settings
<1> HIDE DEF s
<1> QED
  BY <1>1, <1>2, OptionWithin DEF TypeOK

LEMMA IgnoreStep ==
  ASSUME TypeOK, NEW b \in Builder, Ignore(b)
  PROVE  TypeOK' /\ Within(b)
<1>1. UNCHANGED <<heap, client>>
  BY DEF Ignore
<1>2. PICK kind, arguments : Applies(b, kind, arguments)
  BY DEF Ignore
<1>3. client[b] \in Settings /\ client' = [client EXCEPT ![b] = client[b]]
  BY <1>1 DEF TypeOK
<1> QED
  BY <1>1, <1>2, <1>3, OptionWithin DEF TypeOK

\* The start and the end of New.
LEMMA EndsStep ==
  ASSUME TypeOK, NEW b \in Builder, Begin(b) \/ Refuse(b) \/ Build(b)
  PROVE  TypeOK' /\ Within(b)
<1>1. CASE Begin(b) \/ Refuse(b)
  BY <1>1 DEF Begin, Refuse, Applied, TypeOK, Within
<1>2. CASE Build(b)
  <2> DEFINE a == client[b].http
  <2>1. a \in Private(b) /\ a \in Address
    BY AddressOf DEF TypeOK
  <2>2. heap' = [heap EXCEPT ![a].follows = FALSE]
    BY <1>2 DEF Build
  <2>3. /\ heap' \in [Address -> [timeout : Int, follows : BOOLEAN]]
        /\ \A x \in Address \ Private(b) : heap'[x] = heap[x]
        /\ ~heap'[a].follows
    BY <2>1, <2>2 DEF TypeOK
  <2> HIDE DEF a
  <2>4. /\ pc' = [pc EXCEPT ![b] = "built"] /\ pc[b] = "options"
        /\ UNCHANGED <<options, keys, next, client>>
    BY <1>2 DEF Build, Applied
  <2>5. TypeOK'
    BY <2>3, <2>4 DEF TypeOK
  <2>6. Within(b)
    BY <2>3, <2>4 DEF Within, a
  <2> QED
    BY <2>5, <2>6
<1> QED
  BY <1>1, <1>2

LEMMA NewWithin ==
  ASSUME TypeOK, NEW b \in Builder, NewStep(b)
  PROVE  TypeOK' /\ Within(b)
<1> QED
  BY WithBaseURLStep, WithHTTPClientStep, WithTimeoutStep, WithUserAgentStep,
     WithMaxRetriesStep, WithLoggerStep, IgnoreStep, EndsStep DEF NewStep

LEMMA CallerStep ==
  ASSUME TypeOK, NEW o \in Own, CallerSets(o)
  PROVE  /\ TypeOK' /\ UNCHANGED <<options, keys, pc, next, client>>
         /\ \A a \in Address \ {o} : heap'[a] = heap[a]
<1>1. PICK t \in OwnTimeouts : heap' = [heap EXCEPT ![o].timeout = t]
  BY DEF CallerSets
<1>2. o \in Address /\ t \in Int
  BY AddressOf, ConfigAssumption
<1>3. /\ heap' \in [Address -> [timeout : Int, follows : BOOLEAN]]
      /\ \A a \in Address \ {o} : heap'[a] = heap[a]
  BY <1>1, <1>2 DEF TypeOK
<1> QED
  BY <1>3 DEF CallerSets, TypeOK

LEMMA NextTypeOK == TypeOK /\ [Next]_vars => TypeOK'
<1>1. TypeOK /\ UNCHANGED vars => TypeOK'
  BY DEF TypeOK, vars
<1> QED
  BY <1>1, NewWithin, CallerStep DEF Next

-----------------------------------------------------------------------------
\* The types of New; the http.Client of a client is one that its own call of
\* New allocated (client.go:191).
THEOREM TypeCorrect == Spec => []TypeOK
<1> QED
  BY InitTypeOK, NextTypeOK, PTL DEF Spec

\* client.go:187: New and its options leave the caller's http.Client alone, for
\* any number of clients built from it.
THEOREM CallersUntouched == Spec => CallersClientUntouched
<1>1. TypeOK /\ [Next]_vars =>
        [\A o \in Own : heap'[o] # heap[o] => UNCHANGED <<pc, next, client>>]_vars
  <2> SUFFICES ASSUME TypeOK, Next, NEW o \in Own, heap'[o] # heap[o]
               PROVE  UNCHANGED <<pc, next, client>>
    OBVIOUS
  <2>1. ASSUME NEW b \in Builder, NewStep(b) PROVE FALSE
    BY <2>1, NewWithin, AddressOf DEF Within
  <2> QED
    BY <2>1, CallerStep DEF Next
<1> QED
  BY <1>1, TypeCorrect, PTL DEF Spec, CallersClientUntouched

\* client.go:125: nothing changes a client, or its http.Client, that New has
\* returned.
THEOREM BuiltFixed == Spec => BuiltIsFixed
<1>1. TypeOK /\ [Next]_vars =>
        [\A b \in Builder : pc[b] = "built" =>
           client'[b] = client[b] /\ heap'[client[b].http] = heap[client[b].http]]_vars
  <2> SUFFICES ASSUME TypeOK, Next, NEW b \in Builder, pc[b] = "built"
               PROVE  client'[b] = client[b] /\ heap'[client[b].http] = heap[client[b].http]
    OBVIOUS
  <2>1. client[b].http \in Private(b) /\ client[b].http \in Address
    BY AddressOf DEF TypeOK
  <2>2. ASSUME NEW c \in Builder, NewStep(c)
        PROVE  client'[b] = client[b] /\ heap'[client[b].http] = heap[client[b].http]
    BY <2>1, <2>2, NewWithin, AddressOf DEF Within
  <2>3. ASSUME NEW o \in Own, CallerSets(o)
        PROVE  client'[b] = client[b] /\ heap'[client[b].http] = heap[client[b].http]
    BY <2>1, <2>3, CallerStep, AddressOf
  <2> QED
    BY <2>2, <2>3 DEF Next
<1> QED
  BY <1>1, TypeCorrect, PTL DEF Spec, BuiltIsFixed

\* client.go:287: a client that New returned follows no redirect, whichever
\* http.Client its options left it with.
THEOREM NoRedirects == Spec => []NeverFollowsRedirects
<1>1. Init => NeverFollowsRedirects
  BY DEF Init, NeverFollowsRedirects
<1>2. TypeOK /\ NeverFollowsRedirects /\ [Next]_vars => NeverFollowsRedirects'
  <2> SUFFICES ASSUME TypeOK, NeverFollowsRedirects, [Next]_vars,
                      NEW b \in Builder, pc'[b] = "built"
               PROVE  ~heap'[client'[b].http].follows
    BY DEF NeverFollowsRedirects
  <2>1. client[b].http \in Private(b) /\ client[b].http \in Address
    BY AddressOf DEF TypeOK
  <2>2. ASSUME NewStep(b) PROVE ~heap'[client'[b].http].follows
    BY <2>2, NewWithin DEF Within
  <2>3. ASSUME NEW c \in Builder \ {b}, NewStep(c) PROVE ~heap'[client'[b].http].follows
    <3>1. Within(c)
      BY <2>3, NewWithin
    <3>2. pc[b] = "built" /\ client'[b] = client[b]
      BY <3>1 DEF Within
    <3>3. heap'[client[b].http] = heap[client[b].http]
      BY <2>1, <3>1, AddressOf DEF Within
    <3> QED
      BY <3>2, <3>3 DEF NeverFollowsRedirects
  <2>4. ASSUME NEW o \in Own, CallerSets(o) PROVE ~heap'[client'[b].http].follows
    BY <2>1, <2>4, CallerStep, AddressOf DEF NeverFollowsRedirects
  <2>5. CASE UNCHANGED vars
    BY <2>5 DEF vars, NeverFollowsRedirects
  <2> QED
    BY <2>2, <2>3, <2>4, <2>5 DEF Next
<1> QED
  BY <1>1, <1>2, TypeCorrect, PTL DEF Spec

-----------------------------------------------------------------------------
(***************************************************************************)
(* Which lists of options New refuses.                                     *)
(***************************************************************************)
Bad(o) == o = <<"userAgent", "control">> \/ (o[1] = "maxRetries" /\ o[2] < 0)

IsURL(o) == o[1] = "baseURL"

\* The error and the base URL are what the options so far made of them: an
\* error stays, and the last base URL counts.
ErrInv(b) == client[b].err <=> \E i \in 1..(next[b] - 1) : Bad(options[b][i])

UrlInv(b) ==
  \/ /\ client[b].url = "empty"
     /\ \A i \in 1..(next[b] - 1) : ~IsURL(options[b][i])
  \/ \E i \in 1..(next[b] - 1) :
       /\ IsURL(options[b][i]) /\ client[b].url = options[b][i][2]
       /\ \A j \in 1..(next[b] - 1) : j > i => ~IsURL(options[b][j])

Unsafe(b) == client[b].err \/ client[b].url \notin SafeURL

PlaceInv(b) ==
  /\ next[b] <= Len(options[b]) + 1
  /\ pc[b] \in {"options", "built"} => keys
  /\ pc[b] = "built" => next[b] = Len(options[b]) + 1 /\ ~Unsafe(b)
  /\ pc[b] = "refused" => ~keys \/ (next[b] = Len(options[b]) + 1 /\ Unsafe(b))

OptionsInv == \A b \in Builder : ErrInv(b) /\ UrlInv(b) /\ PlaceInv(b)

\* The effect of an option on the error and the base URL.
Reads(b) ==
  /\ client'[b].err <=> client[b].err \/ Bad(Current(b))
  /\ client'[b].url = IF IsURL(Current(b)) THEN Current(b)[2] ELSE client[b].url

LEMMA OptionsRead ==
  ASSUME TypeOK, NEW b \in Builder,
         \/ WithBaseURL(b) \/ WithHTTPClient(b) \/ WithTimeout(b) \/ WithUserAgent(b)
         \/ WithMaxRetries(b) \/ WithLogger(b) \/ Ignore(b)
  PROVE  Reads(b) /\ \E kind, arguments : Applies(b, kind, arguments)
<1> USE AppliesStep DEF Reads, Bad, IsURL
<1>0. client[b] \in Settings /\ \A r : [client EXCEPT ![b] = r][b] = r
  BY DEF TypeOK
<1>1. CASE WithBaseURL(b)
  BY <1>0, <1>1 DEF WithBaseURL, TypeOK, Settings
<1>2. CASE WithHTTPClient(b)
  BY <1>0, <1>2 DEF WithHTTPClient, TypeOK, Settings
<1>3. CASE WithTimeout(b)
  BY <1>0, <1>3 DEF WithTimeout
<1>4. CASE WithUserAgent(b)
  <2>1. CASE Applies(b, "userAgent", {"suffix"}) /\ client' = [client EXCEPT ![b].agent = Append(@, "suffix")]
    BY <1>0, <2>1 DEF TypeOK, Settings
  <2>2. CASE Applies(b, "userAgent", {"control"}) /\ client' = [client EXCEPT ![b].err = TRUE]
    <3>1. Current(b) = <<"userAgent", "control">>
      BY <2>2 DEF Option
    <3> QED
      BY <1>0, <2>2, <3>1 DEF TypeOK, Settings
  <2> QED
    BY <1>4, <2>1, <2>2 DEF WithUserAgent
<1>5. CASE WithMaxRetries(b)
  <2>1. Current(b)[1] = "maxRetries" /\ Current(b)[2] \in Int
    BY <1>5, ConfigAssumption DEF WithMaxRetries
  <2>2. CASE Current(b)[2] < 0
    BY <1>0, <1>5, <2>1, <2>2 DEF WithMaxRetries, TypeOK, Settings
  <2>3. CASE ~(Current(b)[2] < 0)
    BY <1>0, <1>5, <2>1, <2>3 DEF WithMaxRetries, TypeOK, Settings
  <2> QED
    BY <1>5, <2>2, <2>3 DEF WithMaxRetries
<1>6. CASE WithLogger(b)
  BY <1>0, <1>6 DEF WithLogger, TypeOK, Settings
<1>7. CASE Ignore(b)
  BY <1>0, <1>7 DEF Ignore
<1> QED
  BY <1>1, <1>2, <1>3, <1>4, <1>5, <1>6, <1>7

LEMMA OptionKeeps ==
  ASSUME TypeOK, OptionsInv, NEW b \in Builder, NEW kind, NEW arguments,
         Applies(b, kind, arguments), Reads(b)
  PROVE  ErrInv(b)' /\ UrlInv(b)' /\ PlaceInv(b)'
<1> DEFINE n == next[b]
<1>1. /\ n \in 1..Len(options[b]) /\ n \in Nat /\ next'[b] = n + 1
      /\ UNCHANGED <<options, keys, pc>> /\ pc[b] = "options"
  BY AppliesStep DEF TypeOK
<1>2. Current(b) = options[b][n]
  BY DEF Current
<1>3. \A i \in 1..n : i \in 1..(n - 1) \/ i = n
  BY <1>1
<1>4. n \in 1..n /\ \A i \in 1..(n - 1) : i \in 1..n /\ n > i
  BY <1>1
<1>5. next'[b] - 1 = n
  BY <1>1
<1> HIDE DEF n
<1>6. ErrInv(b)'
  <2>1. client[b].err <=> \E i \in 1..(n - 1) : Bad(options[b][i])
    BY DEF OptionsInv, ErrInv, n
  <2>2. client'[b].err <=> \E i \in 1..n : Bad(options[b][i])
    BY <1>2, <1>3, <1>4, <2>1 DEF Reads
  <2> QED
    BY <1>1, <1>5, <2>2 DEF ErrInv
<1>7. UrlInv(b)'
  <2>1. CASE IsURL(options[b][n])
    <3>1. client'[b].url = options[b][n][2]
      BY <1>2, <2>1 DEF Reads
    <3>2. \A j \in 1..n : ~(j > n)
      BY <1>1
    <3> QED
      BY <1>1, <1>4, <1>5, <2>1, <3>1, <3>2 DEF UrlInv
  <2>2. CASE ~IsURL(options[b][n])
    <3>1. client'[b].url = client[b].url
      BY <1>2, <2>2 DEF Reads
    <3>2. \/ /\ client[b].url = "empty"
             /\ \A i \in 1..n : ~IsURL(options[b][i])
          \/ \E i \in 1..n :
               /\ IsURL(options[b][i]) /\ client[b].url = options[b][i][2]
               /\ \A j \in 1..n : j > i => ~IsURL(options[b][j])
      BY <1>3, <1>4, <2>2 DEF OptionsInv, UrlInv, n
    <3> QED
      BY <1>1, <1>5, <3>1, <3>2 DEF UrlInv
  <2> QED
    BY <2>1, <2>2
<1>8. PlaceInv(b)'
  BY <1>1 DEF OptionsInv, PlaceInv
<1> QED
  BY <1>6, <1>7, <1>8

LEMMA InitOptionsInv == Init => OptionsInv
<1> SUFFICES ASSUME Init, NEW b \in Builder PROVE ErrInv(b) /\ UrlInv(b) /\ PlaceInv(b)
  BY DEF OptionsInv
<1>1. next[b] = 1 /\ pc[b] = "new" /\ ~client[b].err /\ client[b].url = "empty"
  BY DEF Init, DefaultClient
<1>2. 1..(next[b] - 1) = {}
  BY <1>1
<1> QED
  BY <1>1, <1>2 DEF ErrInv, UrlInv, PlaceInv

LEMMA NextOptionsInv == TypeOK /\ OptionsInv /\ [Next]_vars => OptionsInv'
<1> SUFFICES ASSUME TypeOK, OptionsInv, [Next]_vars, NEW c \in Builder
             PROVE  ErrInv(c)' /\ UrlInv(c)' /\ PlaceInv(c)'
  BY DEF OptionsInv
<1> DEFINE Same == /\ client'[c] = client[c] /\ next'[c] = next[c] /\ pc'[c] = pc[c]
                   /\ UNCHANGED <<options, keys>>
<1>1. ASSUME Same PROVE ErrInv(c)' /\ UrlInv(c)' /\ PlaceInv(c)'
  BY <1>1 DEF OptionsInv, ErrInv, UrlInv, PlaceInv, Unsafe
<1>2. ASSUME NEW b \in Builder \ {c}, NewStep(b) PROVE ErrInv(c)' /\ UrlInv(c)' /\ PlaceInv(c)'
  BY <1>1, <1>2, NewWithin DEF Within
<1>3. ASSUME Begin(c) PROVE ErrInv(c)' /\ UrlInv(c)' /\ PlaceInv(c)'
  BY <1>3 DEF Begin, OptionsInv, ErrInv, UrlInv, PlaceInv, Unsafe, TypeOK
<1>4. ASSUME Refuse(c) \/ Build(c) PROVE ErrInv(c)' /\ UrlInv(c)' /\ PlaceInv(c)'
  <2>1. next[c] = Len(options[c]) + 1
    <3>1. Len(options[c]) \in Nat /\ next[c] \in Nat /\ next[c] > Len(options[c])
      BY <1>4 DEF Refuse, Build, Applied, TypeOK
    <3>2. next[c] <= Len(options[c]) + 1
      BY DEF OptionsInv, PlaceInv
    <3> QED
      BY <3>1, <3>2
  <2>2. /\ UNCHANGED <<options, keys, next, client>> /\ pc[c] = "options"
        /\ pc'[c] = IF Unsafe(c) THEN "refused" ELSE "built"
    BY <1>4 DEF Refuse, Build, Applied, Unsafe, TypeOK
  <2>3. ErrInv(c)' /\ UrlInv(c)'
    BY <2>2 DEF OptionsInv, ErrInv, UrlInv
  <2>4. PlaceInv(c)'
    BY <2>1, <2>2 DEF OptionsInv, PlaceInv, Unsafe
  <2> QED
    BY <2>3, <2>4
<1>5. ASSUME WithBaseURL(c) \/ WithHTTPClient(c) \/ WithTimeout(c) \/ WithUserAgent(c)
             \/ WithMaxRetries(c) \/ WithLogger(c) \/ Ignore(c)
      PROVE  ErrInv(c)' /\ UrlInv(c)' /\ PlaceInv(c)'
  BY <1>5, OptionsRead, OptionKeeps
<1>6. ASSUME NEW o \in Own, CallerSets(o) PROVE ErrInv(c)' /\ UrlInv(c)' /\ PlaceInv(c)'
  BY <1>1, <1>6, CallerStep
<1>7. CASE UNCHANGED vars
  BY <1>1, <1>7 DEF vars
<1> QED
  BY <1>2, <1>3, <1>4, <1>5, <1>6, <1>7 DEF Next, NewStep

\* The last option of a kind is where one stands and none follows.
LEMMA LastOfIs ==
  ASSUME NEW b \in Builder, options[b] \in Seq(Option),
         NEW kind, NEW arguments, NEW i \in 1..Len(options[b]),
         options[b][i][1] = kind /\ options[b][i][2] \in arguments,
         \A j \in 1..Len(options[b]) :
           j > i => ~(options[b][j][1] = kind /\ options[b][j][2] \in arguments)
  PROVE  LastOf(b, kind, arguments) = i
<1> DEFINE I == {j \in 1..Len(options[b]) :
                   options[b][j][1] = kind /\ options[b][j][2] \in arguments}
<1>1. LastOf(b, kind, arguments) = IF I # {} THEN Max(I) ELSE 0
  BY DEF LastOf, SelectLastInSeq
<1>2. Len(options[b]) \in Nat
  OBVIOUS
<1>3. i \in I /\ I \subseteq Int
  BY <1>2
<1>4. \A j \in I : i >= j
  BY <1>2
<1> HIDE DEF I
<1>5. Max(I) \in I /\ \A j \in I : Max(I) >= j
  BY <1>3, <1>4 DEF Max
<1>6. Max(I) \in Int /\ Max(I) >= i /\ i >= Max(I) /\ i \in Int
  BY <1>3, <1>4, <1>5
<1>7. Max(I) = i
  BY <1>6
<1> QED
  BY <1>1, <1>3, <1>7

LEMMA NoLastOf ==
  ASSUME NEW b \in Builder, NEW kind, NEW arguments,
         \A j \in 1..Len(options[b]) : options[b][j][1] # kind
  PROVE  LastOf(b, kind, arguments) = 0
<1> QED
  BY DEF LastOf, SelectLastInSeq

LEMMA OptionsInvRefuses == TypeOK /\ OptionsInv => RefusesExactly
<1> SUFFICES ASSUME TypeOK, OptionsInv, NEW b \in Builder, pc[b] \in {"built", "refused"}
             PROVE  LET bad == \E i \in 1..Len(options[b]) : Bad(options[b][i])
                        i == LastOf(b, "baseURL", BaseURLs)
                        safe == i > 0 /\ options[b][i][2] \in SafeURL
                    IN pc[b] = "refused" <=> ~keys \/ bad \/ ~safe
  BY DEF RefusesExactly, Bad
<1> DEFINE bad == \E i \in 1..Len(options[b]) : Bad(options[b][i])
           i == LastOf(b, "baseURL", BaseURLs)
           safe == i > 0 /\ options[b][i][2] \in SafeURL
<1>1. options[b] \in Seq(Option) /\ Len(options[b]) \in Nat
  BY DEF TypeOK
<1>2. CASE next[b] = Len(options[b]) + 1
  <2>1. next[b] - 1 = Len(options[b])
    BY <1>1, <1>2
  <2>2. client[b].err <=> bad
    BY <2>1 DEF OptionsInv, ErrInv
  <2>3. client[b].url \in SafeURL <=> safe
    <3>1. CASE /\ client[b].url = "empty"
               /\ \A j \in 1..Len(options[b]) : ~IsURL(options[b][j])
      BY <3>1, NoLastOf DEF IsURL, SafeURL
    <3>2. ASSUME NEW k \in 1..Len(options[b]),
                 IsURL(options[b][k]), client[b].url = options[b][k][2],
                 \A j \in 1..Len(options[b]) : j > k => ~IsURL(options[b][j])
          PROVE  client[b].url \in SafeURL <=> safe
      <4>1. options[b][k] \in Option
        BY <1>1
      <4>2. options[b][k][2] \in BaseURLs
        BY <3>2, <4>1 DEF IsURL, Option
      <4>3. i = k
        BY <1>1, <3>2, <4>2, LastOfIs DEF IsURL
      <4> QED
        BY <3>2, <4>3
    <3> QED
      BY <2>1, <3>1, <3>2 DEF OptionsInv, UrlInv
  <2> QED
    BY <1>2, <2>2, <2>3 DEF OptionsInv, PlaceInv, Unsafe
<1>3. CASE next[b] # Len(options[b]) + 1
  BY <1>3 DEF OptionsInv, PlaceInv
<1> QED
  BY <1>2, <1>3

\* client.go:251-285: New refuses exactly when a credential is wrong, an option
\* anywhere in the list has a bad argument, or the last base URL is not safe,
\* for every list of options.
THEOREM RefusedExactly == Spec => []RefusesExactly
<1> QED
  BY InitOptionsInv, NextOptionsInv, OptionsInvRefuses, TypeCorrect, PTL DEF Spec
-----------------------------------------------------------------------------
(***************************************************************************)
(* What a client is built with.                                            *)
(***************************************************************************)
SetsBudget(o) == o[1] = "maxRetries" /\ o[2] \in Budgets
SetsTimeout(o) == o[1] = "timeout" /\ o[2] \in {t \in Timeouts : t > 0}
GivesClient(o) == o[1] = "httpClient" /\ o[2] \in Own
Suffix == <<"userAgent", "suffix">>

\* Up to position n, the last option that Test holds of is at i.
LastUpTo(b, n, i, Test(_)) ==
  /\ i \in 1..n /\ Test(options[b][i])
  /\ \A j \in 1..n : j > i => ~Test(options[b][j])

NoneUpTo(b, n, Test(_)) == \A j \in 1..n : ~Test(options[b][j])

Timeout(b) == heap[client[b].http].timeout

\* The settings are what the n options so far made of them. Only a client with
\* no error keeps its budget: a bad one is not taken.
BudgetInv(b, n) ==
  ~client[b].err =>
    \/ NoneUpTo(b, n, SetsBudget) /\ client[b].retries = DefaultRetries
    \/ \E i \in 1..n : LastUpTo(b, n, i, SetsBudget) /\ client[b].retries = options[b][i][2]

AgentInv(b, n) ==
  Len(client[b].agent) = Cardinality({i \in 1..n : options[b][i] = Suffix})

TimeoutInv(b, n) ==
  \/ /\ NoneUpTo(b, n, SetsTimeout) /\ NoneUpTo(b, n, GivesClient)
     /\ Timeout(b) = DefaultTimeout
  \/ \E i \in 1..n :
       /\ LastUpTo(b, n, i, SetsTimeout) /\ \A j \in 1..n : j > i => ~GivesClient(options[b][j])
       /\ Timeout(b) = options[b][i][2]
  \/ \E i \in 1..n :
       /\ LastUpTo(b, n, i, GivesClient) /\ \A j \in 1..n : j > i => ~SetsTimeout(options[b][j])
       /\ Timeout(b) \in OwnTimeouts

SettingsInv(b) ==
  LET n == next[b] - 1 IN BudgetInv(b, n) /\ AgentInv(b, n) /\ TimeoutInv(b, n)

ConfigInv ==
  /\ \A b \in Builder : SettingsInv(b)
  /\ \A o \in Own : heap[o].timeout \in OwnTimeouts

\* The effect of an option on the settings.
Configures(b) ==
  LET o == Current(b) IN
  /\ ~client'[b].err =>
       /\ ~client[b].err
       /\ client'[b].retries = IF SetsBudget(o) THEN o[2] ELSE client[b].retries
  /\ client'[b].agent = IF o = Suffix THEN Append(client[b].agent, "suffix") ELSE client[b].agent
  /\ Timeout(b)' = IF SetsTimeout(o) THEN o[2]
                   ELSE IF GivesClient(o) THEN heap[o[2]].timeout ELSE Timeout(b)
  /\ \A a \in Own : heap'[a] = heap[a]

LEMMA OptionsConfigure ==
  ASSUME TypeOK, NEW b \in Builder,
         \/ WithBaseURL(b) \/ WithHTTPClient(b) \/ WithTimeout(b) \/ WithUserAgent(b)
         \/ WithMaxRetries(b) \/ WithLogger(b) \/ Ignore(b)
  PROVE  Configures(b)
<1> USE AppliesStep DEF Configures, SetsBudget, SetsTimeout, GivesClient, Suffix, Timeout
<1>0. /\ client[b] \in Settings /\ client[b].http \in Address
      /\ \A r : [client EXCEPT ![b] = r][b] = r
      /\ \A a \in Own : a \in Address /\ a \notin Private(b)
  BY AddressOf DEF TypeOK
<1>1. CASE WithBaseURL(b)
  BY <1>0, <1>1 DEF WithBaseURL, TypeOK, Settings
<1>2. CASE WithHTTPClient(b)
  <2> DEFINE copy == <<b, next[b]>>
  <2>1. /\ Current(b)[1] = "httpClient" /\ Current(b)[2] \in Own
        /\ copy \in Private(b) /\ copy \in Address
    BY <1>2, AddressOf DEF WithHTTPClient
  <2>2. /\ heap' = [heap EXCEPT ![copy] = heap[Current(b)[2]]]
        /\ client' = [client EXCEPT ![b].http = copy]
    BY <1>2 DEF WithHTTPClient
  <2> HIDE DEF copy
  <2>3. heap'[copy] = heap[Current(b)[2]] /\ \A a \in Own : heap'[a] = heap[a]
    BY <1>0, <2>1, <2>2 DEF TypeOK
  <2>4. /\ client'[b].http = copy /\ client'[b].agent = client[b].agent
        /\ client'[b].retries = client[b].retries /\ client'[b].err = client[b].err
    BY <1>0, <2>2 DEF TypeOK, Settings
  <2> QED
    BY <2>1, <2>3, <2>4
<1>3. CASE WithTimeout(b)
  <2>1. /\ Current(b)[1] = "timeout" /\ Current(b)[2] \in {t \in Timeouts : t > 0}
        /\ heap' = [heap EXCEPT ![client[b].http].timeout = Current(b)[2]] /\ client' = client
    BY <1>3 DEF WithTimeout
  <2>2. heap'[client[b].http].timeout = Current(b)[2]
    BY <1>0, <2>1 DEF TypeOK
  <2>3. \A a \in Own : heap'[a] = heap[a]
    BY <1>0, <2>1 DEF TypeOK
  <2> QED
    BY <2>1, <2>2, <2>3
<1>4. CASE WithUserAgent(b)
  <2>1. CASE Applies(b, "userAgent", {"suffix"}) /\ client' = [client EXCEPT ![b].agent = Append(@, "suffix")]
    <3>1. Current(b) = <<"userAgent", "suffix">>
      BY <2>1 DEF Option
    <3> QED
      BY <1>0, <1>4, <2>1, <3>1 DEF WithUserAgent, TypeOK, Settings
  <2>2. CASE Applies(b, "userAgent", {"control"}) /\ client' = [client EXCEPT ![b].err = TRUE]
    <3>1. Current(b)[2] = "control"
      BY <2>2
    <3> QED
      BY <1>0, <1>4, <2>2, <3>1 DEF WithUserAgent, TypeOK, Settings
  <2> QED
    BY <1>4, <2>1, <2>2 DEF WithUserAgent
<1>5. CASE WithMaxRetries(b)
  <2>1. /\ Current(b)[1] = "maxRetries" /\ Current(b)[2] \in Budgets /\ Current(b)[2] \in Int
        /\ UNCHANGED heap
    BY <1>5, ConfigAssumption DEF WithMaxRetries
  <2>2. CASE Current(b)[2] < 0
    BY <1>0, <1>5, <2>1, <2>2 DEF WithMaxRetries, TypeOK, Settings
  <2>3. CASE ~(Current(b)[2] < 0)
    BY <1>0, <1>5, <2>1, <2>3 DEF WithMaxRetries, TypeOK, Settings
  <2> QED
    BY <1>5, <2>2, <2>3 DEF WithMaxRetries
<1>6. CASE WithLogger(b)
  BY <1>0, <1>6 DEF WithLogger, TypeOK, Settings
<1>7. CASE Ignore(b)
  <2>1. UNCHANGED <<heap, client>>
    BY <1>7 DEF Ignore
  <2>2. ~SetsBudget(Current(b)) /\ ~SetsTimeout(Current(b)) /\ ~GivesClient(Current(b)) /\ Current(b) # Suffix
    <3>1. CASE Applies(b, "httpClient", {Nil})
      BY <3>1, ConfigAssumption
    <3>2. CASE Applies(b, "timeout", {t \in Timeouts : t <= 0})
      <4>1. Current(b)[1] = "timeout" /\ Current(b)[2] \in Int /\ ~(Current(b)[2] > 0)
        <5>1. Current(b)[1] = "timeout" /\ Current(b)[2] \in {t \in Timeouts : t <= 0}
          BY <3>2, Zenon DEF Applies
        <5>2. \A t \in {x \in Timeouts : x <= 0} : t \in Int /\ ~(t > 0)
          BY ConfigAssumption
        <5> QED
          BY <5>1, <5>2, Zenon
      <4> QED
        BY <4>1
    <3>3. CASE Applies(b, "userAgent", {"blank"})
      <4>1. Current(b)[1] = "userAgent" /\ Current(b)[2] = "blank"
        BY <3>3
      <4> QED
        BY <4>1
    <3>4. CASE Applies(b, "logger", {"nil"})
      <4>1. Current(b)[1] = "logger"
        BY <3>4
      <4> QED
        BY <4>1
    <3> QED
      BY <1>7, <3>1, <3>2, <3>3, <3>4 DEF Ignore
  <2> QED
    BY <1>0, <2>1, <2>2
<1> QED
  BY <1>1, <1>2, <1>3, <1>4, <1>5, <1>6, <1>7

\* The invariant after one more option.
LEMMA OptionConfigured ==
  ASSUME TypeOK, ConfigInv, NEW b \in Builder, NEW kind, NEW arguments,
         Applies(b, kind, arguments), Configures(b)
  PROVE  SettingsInv(b)'
<1> DEFINE n == next[b]
           o == options[b][n]
<1>1. /\ n \in Nat /\ n - 1 \in Nat /\ n \in 1..n /\ n \notin 1..(n - 1) /\ 1..(n - 1) \subseteq 1..n
      /\ \A i \in 1..n : i \in 1..(n - 1) \/ i = n
      /\ \A i \in 1..(n - 1) : n > i
      /\ \A i \in 1..n : ~(i > n)
  BY AppliesStep DEF TypeOK
<1>2. next'[b] - 1 = n /\ options' = options /\ Current(b) = o
  BY AppliesStep DEF TypeOK, Current
<1>3. BudgetInv(b, n - 1) /\ AgentInv(b, n - 1) /\ TimeoutInv(b, n - 1)
  BY DEF ConfigInv, SettingsInv
<1>4. Configures(b) /\ ConfigInv /\ client[b] \in Settings
  BY DEF TypeOK
<1> HIDE DEF n
<1>5. ASSUME ~client'[b].err
      PROVE  \/ NoneUpTo(b, n, SetsBudget) /\ client'[b].retries = DefaultRetries
             \/ \E i \in 1..n : LastUpTo(b, n, i, SetsBudget) /\ client'[b].retries = options[b][i][2]
  <2>1. /\ ~client[b].err
        /\ client'[b].retries = IF SetsBudget(o) THEN o[2] ELSE client[b].retries
    BY <1>2, <1>5 DEF Configures
  <2>2. CASE SetsBudget(o)
    <3>1. LastUpTo(b, n, n, SetsBudget)
      BY <1>1, <2>2 DEF LastUpTo
    <3> QED
      BY <1>1, <2>1, <2>2, <3>1
  <2>3. CASE ~SetsBudget(o)
    <3>1. CASE NoneUpTo(b, n - 1, SetsBudget) /\ client[b].retries = DefaultRetries
      BY <1>1, <2>1, <2>3, <3>1 DEF NoneUpTo
    <3>2. ASSUME NEW i \in 1..(n - 1), LastUpTo(b, n - 1, i, SetsBudget)
          PROVE  i \in 1..n /\ LastUpTo(b, n, i, SetsBudget)
      BY <1>1, <2>3, <3>2 DEF LastUpTo
    <3> QED
      BY <1>3, <2>1, <2>3, <3>1, <3>2 DEF BudgetInv
  <2> QED
    BY <2>2, <2>3
<1>6. Len(client'[b].agent) = Cardinality({i \in 1..n : options[b][i] = Suffix})
  <2> DEFINE A == {i \in 1..(n - 1) : options[b][i] = Suffix}
             B == {i \in 1..n : options[b][i] = Suffix}
  <2>1. Len(client[b].agent) = Cardinality(A) /\ client[b].agent \in Seq({"suffix"})
    BY <1>3, <1>4 DEF AgentInv, Settings
  <2>2. IsFiniteSet(A)
    <3>1. IsFiniteSet(1..(n - 1))
      BY <1>1, FS_Interval
    <3> QED
      BY <3>1, FS_Subset
  <2>3. CASE o = Suffix
    <3>1. client'[b].agent = Append(client[b].agent, "suffix")
      BY <1>2, <2>3 DEF Configures
    <3>2. B = A \cup {n} /\ n \notin A
      BY <1>1, <2>3
    <3>3. Cardinality(B) = Cardinality(A) + 1
      BY <2>2, <3>2, FS_AddElement
    <3>4. Len(client'[b].agent) = Len(client[b].agent) + 1
      BY <2>1, <3>1
    <3> QED
      BY <2>1, <3>3, <3>4
  <2>4. CASE o # Suffix
    <3>1. client'[b].agent = client[b].agent
      BY <1>2, <2>4 DEF Configures
    <3>2. B = A
      BY <1>1, <2>4
    <3> QED
      BY <2>1, <3>1, <3>2
  <2> QED
    BY <2>3, <2>4
<1>7. \/ /\ NoneUpTo(b, n, SetsTimeout) /\ NoneUpTo(b, n, GivesClient)
         /\ Timeout(b)' = DefaultTimeout
      \/ \E i \in 1..n :
           /\ LastUpTo(b, n, i, SetsTimeout) /\ \A j \in 1..n : j > i => ~GivesClient(options[b][j])
           /\ Timeout(b)' = options[b][i][2]
      \/ \E i \in 1..n :
           /\ LastUpTo(b, n, i, GivesClient) /\ \A j \in 1..n : j > i => ~SetsTimeout(options[b][j])
           /\ Timeout(b)' \in OwnTimeouts
  <2>1. Timeout(b)' = IF SetsTimeout(o) THEN o[2]
                     ELSE IF GivesClient(o) THEN heap[o[2]].timeout ELSE Timeout(b)
    BY <1>2 DEF Configures
  <2>2. CASE SetsTimeout(o)
    <3>1. LastUpTo(b, n, n, SetsTimeout) /\ \A j \in 1..n : j > n => ~GivesClient(options[b][j])
      BY <1>1, <2>2 DEF LastUpTo
    <3> QED
      BY <1>1, <2>1, <2>2, <3>1
  <2>3. CASE ~SetsTimeout(o) /\ GivesClient(o)
    <3>1. LastUpTo(b, n, n, GivesClient) /\ \A j \in 1..n : j > n => ~SetsTimeout(options[b][j])
      BY <1>1, <2>3 DEF LastUpTo
    <3>2. Timeout(b)' \in OwnTimeouts
      BY <2>1, <2>3 DEF GivesClient, ConfigInv
    <3> QED
      BY <1>1, <3>1, <3>2
  <2>4. CASE ~SetsTimeout(o) /\ ~GivesClient(o)
    <3>1. CASE NoneUpTo(b, n - 1, SetsTimeout) /\ NoneUpTo(b, n - 1, GivesClient) /\ Timeout(b) = DefaultTimeout
      BY <1>1, <2>1, <2>4, <3>1 DEF NoneUpTo
    <3>2. ASSUME NEW i \in 1..(n - 1), LastUpTo(b, n - 1, i, SetsTimeout),
                 \A j \in 1..(n - 1) : j > i => ~GivesClient(options[b][j])
          PROVE  /\ i \in 1..n /\ LastUpTo(b, n, i, SetsTimeout)
                 /\ \A j \in 1..n : j > i => ~GivesClient(options[b][j])
      BY <1>1, <2>4, <3>2 DEF LastUpTo
    <3>3. ASSUME NEW i \in 1..(n - 1), LastUpTo(b, n - 1, i, GivesClient),
                 \A j \in 1..(n - 1) : j > i => ~SetsTimeout(options[b][j])
          PROVE  /\ i \in 1..n /\ LastUpTo(b, n, i, GivesClient)
                 /\ \A j \in 1..n : j > i => ~SetsTimeout(options[b][j])
      BY <1>1, <2>4, <3>3 DEF LastUpTo
    <3> QED
      BY <1>3, <2>1, <2>4, <3>1, <3>2, <3>3 DEF TimeoutInv
  <2> QED
    BY <2>2, <2>3, <2>4
<1> QED
  BY <1>2, <1>5, <1>6, <1>7 DEF SettingsInv, BudgetInv, AgentInv, TimeoutInv, NoneUpTo, LastUpTo, Timeout

LEMMA InitConfigInv == Init => ConfigInv
<1> SUFFICES ASSUME Init PROVE ConfigInv
  OBVIOUS
<1>1. PICK set \in [Own -> OwnTimeouts] :
        heap = [a \in Address |->
                  [timeout |-> IF a \in Own THEN set[a] ELSE DefaultTimeout, follows |-> TRUE]]
  BY DEF Init
<1>2. \A o \in Own : heap[o].timeout \in OwnTimeouts
  BY <1>1, AddressOf
<1>3. ASSUME NEW b \in Builder PROVE SettingsInv(b)
  <2>1. client[b] = DefaultClient(b) /\ next[b] = 1
    BY DEF Init
  <2>2. /\ client[b].http = <<b, 0>> /\ client[b].agent = <<>>
        /\ client[b].retries = DefaultRetries
    BY <2>1 DEF DefaultClient
  <2>3. <<b, 0>> \in Private(b)
    BY AddressOf, ConfigAssumption
  <2>4. <<b, 0>> \in Address /\ <<b, 0>> \notin Own
    BY <2>3, AddressOf
  <2>5. Timeout(b) = DefaultTimeout
    BY <1>1, <2>2, <2>4 DEF Timeout
  <2>6. 1..(next[b] - 1) = {}
    BY <2>1
  <2>7. Cardinality({i \in 1..(next[b] - 1) : options[b][i] = Suffix}) = 0 /\ Len(client[b].agent) = 0
    BY <2>2, <2>6, FS_EmptySet
  <2> QED
    BY <2>2, <2>5, <2>6, <2>7 DEF SettingsInv, BudgetInv, AgentInv, TimeoutInv, NoneUpTo
<1> QED
  BY <1>2, <1>3 DEF ConfigInv

LEMMA NextConfigInv == TypeOK /\ ConfigInv /\ [Next]_vars => ConfigInv'
<1> SUFFICES ASSUME TypeOK, ConfigInv, [Next]_vars PROVE ConfigInv'
  OBVIOUS
<1>1. ASSUME NEW c \in Builder,
             client'[c] = client[c], next'[c] = next[c], options' = options,
             heap'[client[c].http].timeout = heap[client[c].http].timeout
      PROVE  SettingsInv(c)'
  <2> DEFINE n == next[c] - 1
  <2>1. next'[c] - 1 = n /\ Timeout(c)' = Timeout(c)
    BY <1>1 DEF Timeout
  <2>2. BudgetInv(c, n) /\ AgentInv(c, n) /\ TimeoutInv(c, n)
    BY DEF ConfigInv, SettingsInv
  <2> HIDE DEF n
  <2>3. BudgetInv(c, next[c] - 1)' <=> BudgetInv(c, n)
    BY <1>1, <2>1 DEF BudgetInv, NoneUpTo, LastUpTo
  <2>4. AgentInv(c, next[c] - 1)' <=> AgentInv(c, n)
    BY <1>1, <2>1 DEF AgentInv
  <2>5. TimeoutInv(c, next[c] - 1)' <=> TimeoutInv(c, n)
    BY <1>1, <2>1 DEF TimeoutInv, NoneUpTo, LastUpTo
  <2> QED
    BY <2>2, <2>3, <2>4, <2>5 DEF SettingsInv
<1>2. ASSUME NEW b \in Builder, NewStep(b) PROVE ConfigInv'
  <2>1. Within(b)
    BY <1>2, NewWithin
  <2>2. ASSUME NEW c \in Builder \ {b} PROVE SettingsInv(c)'
    <3>1. client[c].http \in Private(c) /\ client[c].http \in Address
      BY AddressOf DEF TypeOK
    <3>2. heap'[client[c].http] = heap[client[c].http]
      BY <2>1, <3>1, AddressOf DEF Within
    <3> QED
      BY <1>1, <2>1, <3>2 DEF Within
  <2>3. SettingsInv(b)'
    <3>1. CASE Begin(b) \/ Refuse(b)
      BY <1>1, <3>1 DEF Begin, Refuse
    <3>2. CASE Build(b)
      <4>1. client[b].http \in Address
        BY AddressOf DEF TypeOK
      <4>2. heap' = [heap EXCEPT ![client[b].http].follows = FALSE] /\ UNCHANGED <<options, next, client>>
        BY <3>2 DEF Build
      <4>3. heap'[client[b].http].timeout = heap[client[b].http].timeout
        BY <4>1, <4>2 DEF TypeOK
      <4> QED
        BY <1>1, <4>2, <4>3
    <3>3. CASE \/ WithBaseURL(b) \/ WithHTTPClient(b) \/ WithTimeout(b) \/ WithUserAgent(b)
               \/ WithMaxRetries(b) \/ WithLogger(b) \/ Ignore(b)
      BY <3>3, OptionsRead, OptionsConfigure, OptionConfigured
    <3> QED
      BY <1>2, <3>1, <3>2, <3>3 DEF NewStep
  <2>4. ASSUME NEW o \in Own PROVE heap'[o].timeout \in OwnTimeouts
    BY <2>1, AddressOf DEF Within, ConfigInv
  <2> QED
    BY <2>2, <2>3, <2>4 DEF ConfigInv
<1>3. ASSUME NEW o \in Own, CallerSets(o) PROVE ConfigInv'
  <2>1. /\ UNCHANGED <<options, keys, pc, next, client>>
        /\ \A a \in Address \ {o} : heap'[a] = heap[a]
    BY <1>3, CallerStep
  <2>2. ASSUME NEW c \in Builder PROVE SettingsInv(c)'
    <3>1. client[c].http \in Address \ {o}
      BY AddressOf DEF TypeOK
    <3> QED
      BY <1>1, <2>1, <3>1
  <2>3. PICK t \in OwnTimeouts : heap' = [heap EXCEPT ![o].timeout = t]
    BY <1>3 DEF CallerSets
  <2>4. ASSUME NEW p \in Own PROVE heap'[p].timeout \in OwnTimeouts
    BY <2>3, AddressOf DEF ConfigInv, TypeOK
  <2> QED
    BY <2>2, <2>4 DEF ConfigInv
<1>4. CASE UNCHANGED vars
  BY <1>1, <1>4 DEF vars, ConfigInv
<1> QED
  BY <1>2, <1>3, <1>4 DEF Next

\* The last option of a kind: there is none, or it is where one stands and
\* none follows.
LEMMA LastOfRange ==
  ASSUME NEW b \in Builder, options[b] \in Seq(Option), NEW kind, NEW arguments
  PROVE  LET Has(o) == o[1] = kind /\ o[2] \in arguments
             i == LastOf(b, kind, arguments)
         IN \/ i = 0 /\ \A j \in 1..Len(options[b]) : ~Has(options[b][j])
            \/ /\ i \in 1..Len(options[b]) /\ Has(options[b][i])
               /\ \A j \in 1..Len(options[b]) : j > i => ~Has(options[b][j])
<1> DEFINE I == {j \in 1..Len(options[b]) :
                   options[b][j][1] = kind /\ options[b][j][2] \in arguments}
<1>1. LastOf(b, kind, arguments) = IF I # {} THEN Max(I) ELSE 0
  BY DEF LastOf, SelectLastInSeq
<1>2. CASE I = {}
  BY <1>1, <1>2
<1>3. CASE I # {}
  <2>1. Len(options[b]) \in Nat /\ I \in SUBSET (1..Len(options[b]))
    OBVIOUS
  <2>2. Max(I) \in I /\ \A j \in I : j <= Max(I)
    BY <1>3, <2>1, MaxOf
  <2>3. \A j \in 1..Len(options[b]) : j > Max(I) => j \notin I
    BY <2>1, <2>2
  <2>4. LastOf(b, kind, arguments) = Max(I)
    BY <1>1, <1>3
  <2> QED
    BY <2>2, <2>3, <2>4
<1> QED
  BY <1>2, <1>3

\* client.go:200: a WithTimeout behind a WithHTTPClient sets the timeout of the
\* copy, where README.md:628 says that WithHTTPClient replaces it and client.go:197
\* that it is for the default http.Client.
LaterTimeoutWins ==
  \A b \in Builder : pc[b] = "built" =>
    LET given == LastOf(b, "httpClient", Own)
        set == LastOf(b, "timeout", {t \in Timeouts : t > 0})
    IN given > 0 /\ set > given => heap[client[b].http].timeout = options[b][set][2]

LEMMA ConfigInvBuilt == TypeOK /\ OptionsInv /\ ConfigInv => BuiltAsConfigured /\ LaterTimeoutWins
<1> SUFFICES ASSUME TypeOK, OptionsInv, ConfigInv, NEW b \in Builder, pc[b] = "built"
             PROVE  LET given == LastOf(b, "httpClient", Own)
                        set == LastOf(b, "timeout", {t \in Timeouts : t > 0})
                        budget == LastOf(b, "maxRetries", Budgets)
                        suffixes == {i \in 1..Len(options[b]) : options[b][i] = <<"userAgent", "suffix">>}
                        timeout == heap[client[b].http].timeout
                    IN /\ client[b].retries = IF budget = 0 THEN DefaultRetries ELSE options[b][budget][2]
                       /\ Len(client[b].agent) = Cardinality(suffixes)
                       /\ given = 0 => timeout = IF set = 0 THEN DefaultTimeout ELSE options[b][set][2]
                       /\ set < given => timeout \in OwnTimeouts
                       /\ given > 0 /\ set > given => timeout = options[b][set][2]
  BY DEF BuiltAsConfigured, LaterTimeoutWins
<1> DEFINE n == Len(options[b])
           given == LastOf(b, "httpClient", Own)
           set == LastOf(b, "timeout", {t \in Timeouts : t > 0})
           budget == LastOf(b, "maxRetries", Budgets)
<1>1. options[b] \in Seq(Option) /\ n \in Nat /\ next[b] - 1 = n /\ ~client[b].err
  BY DEF TypeOK, OptionsInv, PlaceInv, Unsafe
<1>2. BudgetInv(b, n) /\ AgentInv(b, n) /\ TimeoutInv(b, n)
  BY <1>1 DEF ConfigInv, SettingsInv
<1>3. \/ budget = 0 /\ NoneUpTo(b, n, SetsBudget)
      \/ budget \in 1..n /\ LastUpTo(b, n, budget, SetsBudget)
  BY <1>1, LastOfRange DEF NoneUpTo, LastUpTo, SetsBudget
<1>4. \/ set = 0 /\ NoneUpTo(b, n, SetsTimeout)
      \/ set \in 1..n /\ LastUpTo(b, n, set, SetsTimeout)
  BY <1>1, LastOfRange DEF NoneUpTo, LastUpTo, SetsTimeout
<1>5. \/ given = 0 /\ NoneUpTo(b, n, GivesClient)
      \/ given \in 1..n /\ LastUpTo(b, n, given, GivesClient)
  BY <1>1, LastOfRange DEF NoneUpTo, LastUpTo, GivesClient
<1> HIDE DEF given, set, budget, n
<1>6. client[b].retries = IF budget = 0 THEN DefaultRetries ELSE options[b][budget][2]
  <2>1. CASE NoneUpTo(b, n, SetsBudget) /\ client[b].retries = DefaultRetries
    BY <1>1, <1>3, <2>1 DEF NoneUpTo, LastUpTo
  <2>2. ASSUME NEW i \in 1..n, LastUpTo(b, n, i, SetsBudget), client[b].retries = options[b][i][2]
        PROVE  budget # 0 /\ client[b].retries = options[b][budget][2]
    BY <1>1, <1>3, <2>2 DEF NoneUpTo, LastUpTo
  <2> QED
    BY <1>1, <1>2, <2>1, <2>2, <1>3 DEF BudgetInv
<1>7. Timeout(b) \in IF set > given THEN {options[b][set][2]}
                     ELSE IF given > 0 THEN OwnTimeouts ELSE {DefaultTimeout}
  <2>1. \A i \in 1..n : ~(SetsTimeout(options[b][i]) /\ GivesClient(options[b][i]))
    BY DEF SetsTimeout, GivesClient
  <2>2. CASE /\ NoneUpTo(b, n, SetsTimeout) /\ NoneUpTo(b, n, GivesClient)
             /\ Timeout(b) = DefaultTimeout
    BY <1>1, <1>4, <1>5, <2>2 DEF NoneUpTo, LastUpTo
  <2>3. ASSUME NEW i \in 1..n, LastUpTo(b, n, i, SetsTimeout),
               \A j \in 1..n : j > i => ~GivesClient(options[b][j])
        PROVE  set > given /\ set = i
    BY <1>1, <1>4, <1>5, <2>1, <2>3 DEF NoneUpTo, LastUpTo
  <2>4. ASSUME NEW i \in 1..n, LastUpTo(b, n, i, GivesClient),
               \A j \in 1..n : j > i => ~SetsTimeout(options[b][j])
        PROVE  ~(set > given) /\ given > 0
    BY <1>1, <1>4, <1>5, <2>1, <2>4 DEF NoneUpTo, LastUpTo
  <2> QED
    BY <1>2, <2>2, <2>3, <2>4 DEF TimeoutInv
<1>8. /\ given = 0 => Timeout(b) = IF set = 0 THEN DefaultTimeout ELSE options[b][set][2]
      /\ set < given => Timeout(b) \in OwnTimeouts
      /\ given > 0 /\ set > given => Timeout(b) = options[b][set][2]
  <2>1. given \in Nat /\ set \in Nat
    BY <1>1, <1>4, <1>5
  <2> QED
    BY <1>7, <2>1
<1> QED
  BY <1>2, <1>6, <1>8 DEF AgentInv, Suffix, Timeout, n, set, given, budget

\* client.go:182-224: a client is built with the last retry budget, every suffix
\* and the caller's timeout or the one that was set, for every list of options.
THEOREM Configured == Spec => []BuiltAsConfigured
<1> QED
  BY InitOptionsInv, NextOptionsInv, InitConfigInv, NextConfigInv, ConfigInvBuilt,
     TypeCorrect, PTL DEF Spec

\* A timeout given after the caller's http.Client always takes effect, for every
\* list of options.
THEOREM TimeoutNotReplaced == Spec => []LaterTimeoutWins
<1> QED
  BY InitOptionsInv, NextOptionsInv, InitConfigInv, NextConfigInv, ConfigInvBuilt,
     TypeCorrect, PTL DEF Spec
=============================================================================
