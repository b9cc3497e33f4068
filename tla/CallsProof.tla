----------------------------- MODULE CallsProof -----------------------------
(***************************************************************************)
(* Calls, for every number of calls, tasks and keys, every derivation of   *)
(* keys and every retry policy: the types, no keyed task done twice, what  *)
(* the retry loop sends, never sends again, and never forgets, and the     *)
(* promise of OncePerTask, which the keyed calls implement.                *)
(***************************************************************************)
EXTENDS CallsProperties, FiniteSetTheorems, TLAPS

-----------------------------------------------------------------------------
(***************************************************************************)
(* What the readers of Operations return, for every reply of every status, *)
(* code and data.                                                          *)
(***************************************************************************)
Reads == {"payload", "contract", "session", "charge", "revoke", "delete",
          "refund", "object", "list"}

OperationRecord == [method : {"GET", "POST", "DELETE", "PATCH"}, keyed : BOOLEAN,
                    retried : BOOLEAN, read : Reads]

LEMMA OperationType ==
  ASSUME NEW op \in Operation
  PROVE  op \in OperationRecord
<1>1. \A read \in Reads :
        /\ Get(read) \in OperationRecord
        /\ Post(read) \in OperationRecord
        /\ Once("DELETE", read) \in OperationRecord
        /\ Once("PATCH", read) \in OperationRecord
  BY DEF Get, Post, Once, OperationRecord
<1>2. CreateWebhookEndpoint \in OperationRecord
  BY DEF CreateWebhookEndpoint, Post, OperationRecord, Reads
<1>3. /\ {"payload", "contract", "session", "charge", "revoke"} \subseteq Reads
      /\ {"delete", "refund", "object", "list"} \subseteq Reads
  BY DEF Reads
<1>4. QED
  BY <1>1, <1>2, <1>3
     DEF Operation, Ping, GetIntegrationContract, CreateCheckoutSession,
         GetStatus, ChargePaymentMethod, RevokePaymentMethod, CreateRefund,
         GetRefund, ListRefunds, CreatePlan, ListPlans, GetPlan, UpdatePlan,
         DeletePlan, CreateAgreement, GetAgreement, CancelAgreement,
         ListWebhookEndpoints, DeleteWebhookEndpoint, ListTransactions

LEMMA OkType == ASSUME NEW r \in Reply PROVE Ok(r) \in Outcome
  BY DEF Ok, Outcome, Reply, Kinds, Codes, NoCode

LEMMA ErrType ==
  ASSUME NEW kind \in Kinds, NEW status \in Statuses \cup {NoStatus},
         NEW code \in Codes
  PROVE  Err(kind, status, code) \in Outcome
  BY DEF Err, Outcome, DataKinds

LEMMA FirstType ==
  ASSUME NEW code1 \in Codes, NEW code2 \in Codes
  PROVE  First(code1, code2) \in Codes
  BY DEF First

\* The codes and kinds the definitions name.
LEMMA Names ==
  /\ {"OTHER", "UNKNOWN", NoCode} \subseteq Codes
  /\ {"TransportError", "APIError", "RateLimitError", "AuthError",
      "RefusalError", "ChargeError", "RevokeError", "RefundError",
      "ValidationError"} \subseteq Kinds
  BY DEF Codes, NoCode, Kinds

LEMMA SendErrorType == ASSUME NEW r \in Reply PROVE SendError(r) \in Outcome
<1>1. r.status \in Statuses \cup {NoStatus} /\ r.code \in Codes /\ r.inner \in Codes
  BY DEF Reply
<1>2. First(r.inner, r.code) \in Codes /\ First(First(r.inner, r.code), "OTHER") \in Codes
  BY <1>1, FirstType, Names
<1>3. QED
  BY <1>1, <1>2, ErrType, Names DEF SendError

LEMMA RejectionType ==
  ASSUME NEW r \in Reply
  PROVE  Rejection(r) \in Outcome /\ Unexpected(r) \in Outcome
<1>1. r.status \in Statuses \cup {NoStatus} /\ r.code \in Codes /\ r.inner \in Codes
  BY DEF Reply
<1>2. First(r.inner, r.code) \in Codes /\ First(r.code, r.inner) \in Codes
  BY <1>1, FirstType
<1>3. QED
  BY <1>1, <1>2, ErrType, Names DEF Rejection, Unexpected

\* The readers that build no error of their own.
LEMMA PlainReadersType ==
  ASSUME NEW r \in Reply
  PROVE  /\ RequestError(r) \in Outcome /\ ReadPayload(r) \in Outcome
         /\ ReadContract(r) \in Outcome /\ ReadDelete(r) \in Outcome
         /\ ReadObject(r) \in Outcome /\ ReadList(r) \in Outcome
  BY OkType, RejectionType
     DEF RequestError, ReadPayload, ReadContract, ReadDelete, ReadObject, ReadList

\* The readers with an error of their own.
LEMMA CodedReadersType ==
  ASSUME NEW r \in Reply
  PROVE  /\ ReadSession(r) \in Outcome /\ ReadCharge(r) \in Outcome
         /\ ReadRevoke(r) \in Outcome /\ ReadRefund(r) \in Outcome
<1>1. /\ r.status \in Statuses \cup {NoStatus} /\ r.code \in Codes
      /\ r.inner \in Codes /\ r.data \in DataKinds
  BY DEF Reply
<1>2. First(r.inner, "UNKNOWN") \in Codes
  BY <1>1, FirstType, Names
<1>3. ReadSession(r) \in Outcome
  BY <1>1, <1>2, OkType, RejectionType, PlainReadersType, ErrType, Names DEF ReadSession
<1>4. ReadCharge(r) \in Outcome
  <2>1. Err("ChargeError", r.status, r.code) \in Outcome
    BY <1>1, ErrType, Names
  <2>2. \A d \in DataKinds :
          [Err("ChargeError", r.status, r.code) EXCEPT !.data = d] \in Outcome
    BY <2>1 DEF Outcome
  <2>3. QED
    BY <1>1, <2>2, OkType, RejectionType DEF ReadCharge, DataKinds
<1>5. ReadRevoke(r) \in Outcome
  BY <1>1, OkType, RejectionType, ErrType, Names DEF ReadRevoke
<1>6. ReadRefund(r) \in Outcome
  BY <1>1, OkType, RejectionType, ErrType, Names DEF ReadRefund, RefundRejection
<1>7. QED
  BY <1>3, <1>4, <1>5, <1>6

\* Every operation answers every reply with an error of its documented kinds
\* or a result, and never with nothing.
THEOREM ResultType ==
  ASSUME NEW op \in Operation, NEW r \in Reply
  PROVE  Result(op, r) \in Outcome /\ Result(op, r) # NoResult
<1>1. op.read \in Reads
  BY OperationType DEF OperationRecord
<1>2. Result(op, r) \in Outcome
  BY <1>1, SendErrorType, PlainReadersType, CodedReadersType DEF Result, Reads
<1>3. \A o \in Outcome : o # NoResult
  BY DEF Outcome, Kinds, NoResult, Err
<1>4. QED
  BY <1>2, <1>3

-----------------------------------------------------------------------------
(***************************************************************************)
(* Types of what the environment sends.                                    *)
(***************************************************************************)
LEMMA OpType == \A c \in Call : Op(c) \in Operation
  BY CallsAssumption DEF Op

LEMMA PlainType ==
  ASSUME NEW status \in Statuses, NEW body \in Bodies
  PROVE  Plain(status, body) \in Reply
  BY DEF Plain, Reply, DataKinds, Codes, NoCode

LEMMA CodedType ==
  ASSUME NEW status \in Statuses, NEW code \in Codes
  PROVE  Coded(status, code) \in Reply
<1>1. Plain(status, "json") \in Reply
  BY PlainType DEF Bodies
<1>2. QED
  BY <1>1 DEF Coded, Reply

LEMMA RowType ==
  ASSUME NEW status \in Statuses, NEW d \in DataKinds
  PROVE  Row(status, d) \in Reply
<1>1. Plain(status, "json") \in Reply
  BY PlainType DEF Bodies
<1>2. QED
  BY <1>1 DEF Row, Reply

LEMMA RefusedType ==
  ASSUME NEW op, NEW code \in Codes
  PROVE  Refused(op, code) \in Reply
<1>1. {200, 409, 422, 503} \subseteq Statuses
  BY DEF Statuses
<1>2. /\ Coded(503, code) \in Reply /\ Coded(409, code) \in Reply
      /\ Coded(422, code) \in Reply
  BY <1>1, CodedType
<1>3. Plain(200, "json") \in Reply
  BY <1>1, PlainType DEF Bodies
<1>4. [Plain(200, "json") EXCEPT !.inner = code] \in Reply
  BY <1>3 DEF Reply
<1>5. QED
  BY <1>2, <1>4 DEF Refused

LEMMA GateRepliesType == GateReplies \subseteq Reply
  BY PlainType, CodedType DEF GateReplies, Statuses, Bodies, Codes

\* Doing a task adds at most one to how often it was done.
LEMMA VerdictsType ==
  ASSUME NEW op, NEW v \in Verdicts(op)
  PROVE  v.done \in {0, 1} /\ v.reply \in Reply
<1>1. /\ {201, 402, 502} \subseteq Statuses
      /\ {"placed", "declined", "open"} \subseteq DataKinds
      /\ {"CHARGE_FAILED", "CHARGE_OUTCOME_UNKNOWN", "OTHER"} \subseteq Codes
  BY DEF Statuses, DataKinds, Codes
<1>2. Row(201, "placed") \in Reply /\ Row(402, "declined") \in Reply
  BY <1>1, RowType
<1>3. /\ Coded(502, "CHARGE_FAILED") \in Reply
      /\ [Coded(502, "CHARGE_OUTCOME_UNKNOWN") EXCEPT !.data = "open"] \in Reply
  <2>1. Coded(502, "CHARGE_FAILED") \in Reply /\ Coded(502, "CHARGE_OUTCOME_UNKNOWN") \in Reply
    BY <1>1, CodedType
  <2>2. QED
    BY <1>1, <2>1 DEF Reply
<1>4. Refused(op, "OTHER") \in Reply
  BY <1>1, RefusedType
<1>5. QED
  BY <1>2, <1>3, <1>4 DEF Verdicts

-----------------------------------------------------------------------------
(***************************************************************************)
(* Types. One lemma for the SDK's actions, one for the environment's.      *)
(***************************************************************************)
SomeReply == Reply \cup {NoReply}

LEMMA PutOnWireType ==
  ASSUME TypeOK, NEW c \in Call, PutOnWire(c)
  PROVE  sent' \in [Call -> Nat] /\ wire' \subseteq Request
<1>1. RequestKey(c, attempt[c]) \in Key
  BY CallsAssumption DEF RequestKey
<1>2. [call |-> c, seq |-> sent[c] + 1, key |-> RequestKey(c, attempt[c])] \in Request
  BY <1>1 DEF TypeOK, Request
<1>3. QED
  BY <1>2 DEF PutOnWire, TypeOK

LEMMA AnswerToType ==
  ASSUME TypeOK, NEW q \in Request, NEW r \in SomeReply, AnswerTo(q, r), pc' = pc
  PROVE  /\ answer' \in [Call -> SomeReply]
         /\ \A c \in Call : answer'[c] # NoReply => pc'[c] = "waiting"
  BY DEF AnswerTo, TypeOK, SomeReply, Request

LEMMA ErrResult ==
  /\ NoAnswer \in Outcome /\ NoAnswer # NoResult
  /\ Err("ValidationError", NoStatus, NoCode) \in Outcome
  /\ Err("ValidationError", NoStatus, NoCode) # NoResult
<1>1. NoAnswer \in Outcome /\ Err("ValidationError", NoStatus, NoCode) \in Outcome
  BY ErrType, Names DEF NoAnswer
<1>2. QED
  BY <1>1 DEF NoAnswer, NoResult, Err

LEMMA SdkTypeStep ==
  ASSUME TypeOK, NEW c \in Call,
         Refuse(c) \/ Invoke(c) \/ SdkStep(c) \/ EndContext(c) \/ Break(c)
  PROVE  TypeOK'
<1> USE DEF TypeOK, Step, gatewayVars
<1>1. CASE Refuse(c)
  BY <1>1, ErrResult DEF Refuse
<1>2. CASE Invoke(c)
  BY <1>2 DEF Invoke
<1>3. CASE Send(c)
  BY <1>3, PutOnWireType DEF Send
<1>4. CASE SendNothing(c)
  BY <1>4, ErrResult DEF SendNothing
<1>5. CASE Receive(c)
  <2>1. /\ Result(Op(c), answer[c]) \in Outcome
        /\ Result(Op(c), answer[c]) # NoResult
    BY <1>5, OpType, ResultType DEF Receive
  <2>2. QED
    BY <1>5, <2>1 DEF Receive
<1>6. CASE Break(c) \/ TimeOut(c)
  BY <1>6, ErrResult DEF Break, TimeOut
<1>7. CASE Return(c)
  BY <1>7 DEF Return
<1>8. CASE BackOff(c)
  BY <1>8 DEF BackOff
<1>9. CASE Wake(c)
  BY <1>9 DEF Wake
<1>10. CASE CancelSleep(c)
  BY <1>10, ErrResult DEF CancelSleep
<1>11. CASE EndContext(c)
  BY <1>11 DEF EndContext
<1>12. QED
  BY <1>1, <1>2, <1>3, <1>4, <1>5, <1>6, <1>7, <1>8, <1>9, <1>10, <1>11 DEF SdkStep

LEMMA NetworkTypeStep ==
  ASSUME TypeOK,
         \/ \E c \in Call : TransportReplay(c) \/ Mangle(c)
         \/ \E q \in wire : LoseRequest(q)
  PROVE  TypeOK'
<1> USE DEF TypeOK, gatewayVars, callVars
<1>1. ASSUME NEW c \in Call, TransportReplay(c) PROVE TypeOK'
  BY <1>1, PutOnWireType DEF TransportReplay
<1>2. ASSUME NEW c \in Call, Mangle(c) PROVE TypeOK'
  <2>1. answer[c].status \in Statuses /\ 503 \in Statuses
    BY <1>2 DEF Mangle, Reply, Statuses
  <2>2. {Plain(answer[c].status, "unreadable"), Plain(503, "text")} \subseteq Reply
    BY <2>1, PlainType DEF Bodies
  <2>3. QED
    BY <1>2, <2>2 DEF Mangle
<1>3. ASSUME NEW q \in wire, LoseRequest(q) PROVE TypeOK'
  BY <1>3 DEF LoseRequest
<1>4. QED
  BY <1>1, <1>2, <1>3

LEMMA ArriveType ==
  ASSUME TypeOK, NEW q \in wire, NEW r \in SomeReply, Arrive(q, r),
         ledger' = ledger, performed' \in [Task -> Nat]
  PROVE  TypeOK'
<1>1. q \in Request /\ pc' = pc
  BY DEF TypeOK, Arrive, callVars
<1>2. /\ answer' \in [Call -> SomeReply]
      /\ \A c \in Call : answer'[c] # NoReply => pc'[c] = "waiting"
  BY <1>1, AnswerToType DEF Arrive
<1>3. QED
  BY <1>2 DEF TypeOK, Arrive, callVars, SomeReply

LEMMA GatewayTypeStep ==
  ASSUME TypeOK,
         \/ \E q \in wire : \/ TurnAway(q) \/ Unavailable(q) \/ Begin(q)
                           \/ Collide(q) \/ AnswerAgain(q) \/ Execute(q)
         \/ \E k \in Key : Finish(k)
  PROVE  TypeOK'
<1>0. /\ \A q \in wire : q \in Request /\ q.key \in Key /\ q.call \in Call
      /\ {"PAYMENT_PROCESSING_UNAVAILABLE", "DUPLICATE_REQUEST", "OTHER"} \subseteq Codes
  BY DEF TypeOK, Request, Codes
<1>1. ASSUME NEW q \in wire, TurnAway(q) PROVE TypeOK'
  BY <1>1, ArriveType, GateRepliesType DEF TurnAway, gatewayVars, SomeReply, TypeOK
<1>2. ASSUME NEW q \in wire, Unavailable(q) PROVE TypeOK'
  BY <1>0, <1>2, ArriveType, RefusedType DEF Unavailable, gatewayVars, SomeReply, TypeOK
<1>3. ASSUME NEW q \in wire, Begin(q) PROVE TypeOK'
  <2>1. [state |-> "running", task |-> TaskOf[q.call], by |-> q,
         reply |-> NoReply] \in Entry
    BY <1>0, CallsAssumption DEF Entry
  <2>2. QED
    BY <1>0, <1>3, <2>1 DEF Begin, callVars, TypeOK
<1>4. ASSUME NEW q \in wire, Collide(q) PROVE TypeOK'
  BY <1>0, <1>4, ArriveType, RefusedType DEF Collide, gatewayVars, SomeReply, TypeOK
<1>5. ASSUME NEW q \in wire, AnswerAgain(q) PROVE TypeOK'
  <2>1. ledger[q.key].reply \in SomeReply
    BY <1>0, <1>5 DEF AnswerAgain, TypeOK, Entry, Free, SomeReply
  <2>2. QED
    BY <1>5, <2>1, ArriveType DEF AnswerAgain, gatewayVars, TypeOK
<1>6. ASSUME NEW q \in wire, Execute(q) PROVE TypeOK'
  <2>1. Row(200, "placed") \in SomeReply
    BY RowType DEF Statuses, DataKinds, SomeReply
  <2>2. performed' \in [Task -> Nat]
    BY <1>0, <1>6, CallsAssumption DEF Execute, TypeOK
  <2>3. QED
    BY <1>6, <2>1, <2>2, ArriveType DEF Execute
<1>7. ASSUME NEW k \in Key, Finish(k) PROVE TypeOK'
  <2>1. ledger[k] \in Entry
    BY <1>7 DEF Finish, TypeOK, Free
  <2>2. PICK v \in Verdicts(OpOf[ledger[k].task]) :
          /\ ledger' = [ledger EXCEPT ![k].state = "done", ![k].reply = v.reply]
          /\ performed' = [performed EXCEPT ![ledger[k].task] = @ + v.done]
          /\ AnswerTo(ledger[k].by, v.reply)
    BY <1>7 DEF Finish
  <2>3. v.done \in {0, 1} /\ v.reply \in Reply
    BY <2>2, VerdictsType
  <2>4. ledger' \in [Key -> Entry \cup {Free}]
    BY <2>1, <2>2, <2>3 DEF TypeOK, Entry
  <2>5. performed' \in [Task -> Nat]
    BY <2>1, <2>2, <2>3 DEF TypeOK, Entry
  <2>6. /\ answer' \in [Call -> SomeReply]
        /\ \A c \in Call : answer'[c] # NoReply => pc'[c] = "waiting"
    BY <1>7, <2>1, <2>2, <2>3, AnswerToType DEF Finish, callVars, Entry, SomeReply
  <2>7. QED
    BY <1>7, <2>4, <2>5, <2>6 DEF Finish, callVars, TypeOK, SomeReply
<1>8. QED
  BY <1>1, <1>2, <1>3, <1>4, <1>5, <1>6, <1>7

LEMMA TypeInit == Init => TypeOK
  BY CallsAssumption DEF Init, TypeOK

LEMMA TypeStep == TypeOK /\ [Next]_vars => TypeOK'
<1> SUFFICES ASSUME TypeOK, [Next]_vars PROVE TypeOK'
  OBVIOUS
<1>1. CASE UNCHANGED vars
  BY <1>1 DEF vars, callVars, gatewayVars, TypeOK
<1>2. CASE Next
  BY <1>2, SdkTypeStep, NetworkTypeStep, GatewayTypeStep
     DEF Next, CallStep, RequestStep
<1>3. QED
  BY <1>1, <1>2

\* The types of Calls, for every instance: in particular a call never leaves
\* its loop without a result, and a closed connection gets no answer.
THEOREM TypeCorrect == Spec => []TypeOK
  BY TypeInit, TypeStep, PTL DEF Spec

-----------------------------------------------------------------------------
(***************************************************************************)
(* One key per task. A request carries its task's key, an entry of the     *)
(* ledger belongs to the task that opened it, and a task that was done has *)
(* left its entry behind: so no second request can open the key again.     *)
(***************************************************************************)
WireInv == \A q \in wire : q.key = KeyOf[TaskOf[q.call]]

LedgerInv ==
  \A k \in Key : ledger[k].state # "free" =>
    Keyed(ledger[k].task) /\ KeyOf[ledger[k].task] = k

DoneInv ==
  \A t \in Task : Keyed(t) =>
    /\ performed[t] <= 1
    /\ performed[t] = 1 => ledger[KeyOf[t]].state = "done"

KeyInv == WireInv /\ LedgerInv /\ DoneInv

LEMMA WireStep == TypeOK /\ WireInv /\ [Next]_vars => WireInv'
<1> SUFFICES ASSUME TypeOK, WireInv, [Next]_vars PROVE WireInv'
  OBVIOUS
<1>1. ASSUME NEW c \in Call, PutOnWire(c) PROVE WireInv'
  BY <1>1 DEF PutOnWire, RequestKey, WireInv
<1>2. CASE wire' \subseteq wire
  BY <1>2 DEF WireInv
<1>3. ASSUME NEW c \in Call, CallStep(c) PROVE WireInv'
  BY <1>1, <1>2, <1>3
     DEF CallStep, SdkStep, Refuse, Invoke, Send, SendNothing, Receive, Break,
         TimeOut, Return, BackOff, Wake, CancelSleep, EndContext,
         TransportReplay, Mangle
<1>4. ASSUME NEW q \in wire, RequestStep(q) PROVE WireInv'
  BY <1>2, <1>4
     DEF RequestStep, LoseRequest, TurnAway, Unavailable, Begin, Collide,
         AnswerAgain, Execute, Arrive
<1>5. ASSUME NEW k \in Key, Finish(k) PROVE WireInv'
  BY <1>2, <1>5 DEF Finish
<1>6. CASE UNCHANGED vars
  BY <1>2, <1>6 DEF vars
<1>7. QED
  BY <1>3, <1>4, <1>5, <1>6 DEF Next

LEMMA DoneStep ==
  TypeOK /\ KeyInv /\ [Next]_vars => LedgerInv' /\ DoneInv'
<1> DEFINE Goal == LedgerInv' /\ DoneInv'
<1> SUFFICES ASSUME TypeOK, KeyInv, [Next]_vars PROVE Goal
  OBVIOUS
<1>1. ASSUME UNCHANGED gatewayVars PROVE Goal
  BY <1>1 DEF gatewayVars, KeyInv, LedgerInv, DoneInv
<1>2. ASSUME NEW q \in wire, Begin(q) PROVE Goal
  <2>1. q.call \in Call /\ q.key \in Key /\ TaskOf[q.call] \in Task
    BY CallsAssumption DEF TypeOK, Request
  <2>2. Keyed(TaskOf[q.call]) /\ q.key = KeyOf[TaskOf[q.call]]
    BY <1>2 DEF Begin, Op, Keyed, KeyInv, WireInv
  <2>3. ledger' = [ledger EXCEPT ![q.key] =
                     [state |-> "running", task |-> TaskOf[q.call], by |-> q,
                      reply |-> NoReply]]
    BY <1>2 DEF Begin
  <2>4. LedgerInv'
    BY <2>1, <2>2, <2>3 DEF LedgerInv, KeyInv, TypeOK
  <2>5. DoneInv'
    BY <1>2, <2>1, <2>3, CallsAssumption DEF DoneInv, KeyInv, TypeOK, Begin
  <2>6. QED
    BY <2>4, <2>5
<1>3. ASSUME NEW q \in wire, Execute(q) PROVE Goal
  <2>1. q.call \in Call /\ ~Keyed(TaskOf[q.call])
    BY <1>3 DEF Execute, Op, Keyed, TypeOK, Request
  <2>2. \A t \in Task : Keyed(t) => performed'[t] = performed[t]
    BY <1>3, <2>1 DEF Execute, TypeOK
  <2>3. QED
    BY <1>3, <2>2 DEF Execute, KeyInv, LedgerInv, DoneInv
<1>4. ASSUME NEW k \in Key, Finish(k) PROVE Goal
  <2> DEFINE t == ledger[k].task
  <2>1. ledger[k] \in Entry /\ t \in Task
    BY <1>4 DEF Finish, TypeOK, Free, Entry
  <2>2. Keyed(t) /\ KeyOf[t] = k /\ performed[t] = 0
    BY <1>4, <2>1 DEF Finish, KeyInv, LedgerInv, DoneInv, TypeOK
  <2>3. PICK v \in Verdicts(OpOf[t]) :
          /\ ledger' = [ledger EXCEPT ![k].state = "done", ![k].reply = v.reply]
          /\ performed' = [performed EXCEPT ![t] = @ + v.done]
    BY <1>4 DEF Finish
  <2>4. v.done \in {0, 1}
    BY VerdictsType
  <2>5. /\ ledger'[k].state = "done" /\ ledger'[k].task = t
        /\ \A j \in Key \ {k} : ledger'[j] = ledger[j]
    BY <2>1, <2>3 DEF TypeOK, Entry
  <2>6. LedgerInv'
    BY <2>2, <2>5 DEF LedgerInv, KeyInv
  <2>7. performed'[t] <= 1 /\ \A u \in Task \ {t} : performed'[u] = performed[u]
    BY <2>1, <2>2, <2>3, <2>4 DEF TypeOK
  <2>8. DoneInv'
    BY <2>2, <2>5, <2>7, CallsAssumption DEF DoneInv, KeyInv
  <2>9. QED
    BY <2>6, <2>8
<1>5. CASE UNCHANGED vars
  BY <1>1, <1>5 DEF vars
<1>6. ASSUME NEW c \in Call, CallStep(c) PROVE Goal
  BY <1>1, <1>6
     DEF CallStep, SdkStep, Refuse, Invoke, Send, SendNothing, Receive, Break,
         TimeOut, Return, BackOff, Wake, CancelSleep, EndContext,
         TransportReplay, Mangle
<1>7. ASSUME NEW q \in wire, RequestStep(q) PROVE Goal
  BY <1>1, <1>2, <1>3, <1>7
     DEF RequestStep, LoseRequest, TurnAway, Unavailable, Collide, AnswerAgain
<1>8. QED
  BY <1>4, <1>5, <1>6, <1>7 DEF Next

LEMMA KeyInvInit == Init => KeyInv
  BY CallsAssumption DEF Init, KeyInv, WireInv, LedgerInv, DoneInv, Free

LEMMA KeyInvariant == Spec => []KeyInv
<1>1. TypeOK /\ KeyInv /\ [Next]_vars => KeyInv'
  BY WireStep, DoneStep DEF KeyInv
<1>2. QED
  BY <1>1, KeyInvInit, TypeCorrect, PTL DEF Spec

\* A keyed task is done at most once, whatever the network loses, delays or
\* repeats, and however many calls and retries ask for it.
THEOREM DoneAtMostOnce == Spec => []AtMostOnce
<1>1. KeyInv => AtMostOnce
  BY DEF KeyInv, DoneInv, AtMostOnce
<1>2. QED
  BY <1>1, KeyInvariant, PTL

-----------------------------------------------------------------------------
(***************************************************************************)
(* The retry loop of one call, for every policy.                           *)
(***************************************************************************)
\* Where a call stands in its loop: the round it is in is within its budget,
\* a round that may still be repeated has a result worth repeating, and the
\* rounds that were sent are counted.
LoopInv ==
  \A c \in Call :
    /\ attempt[c] <= Budget(c)
    /\ pc[c] = "backoff" => attempt[c] < Budget(c) /\ IsRetryable(result[c])
    /\ pc[c] \in {"idle", "sending", "waiting"} => result[c] = NoResult
    /\ pc[c] \in {"idle", "sending"} => sent[c] - replays[c] <= attempt[c]
    /\ sent[c] - replays[c] <= attempt[c] + 1

LEMMA BudgetType == \A c \in Call : Budget(c) \in Nat
  BY CallsAssumption DEF Budget

LEMMA LoopInit == Init => LoopInv
  BY BudgetType DEF Init, LoopInv

LEMMA LoopStep == TypeOK /\ LoopInv /\ [Next]_vars => LoopInv'
<1> SUFFICES ASSUME TypeOK, LoopInv, [Next]_vars PROVE LoopInv'
  OBVIOUS
<1> USE BudgetType DEF TypeOK, Step, LoopInv, Budget, Op
<1>1. ASSUME NEW c \in Call, CallStep(c) PROVE LoopInv'
  <2>1. CASE Refuse(c) \/ Invoke(c)
    BY <2>1 DEF Refuse, Invoke
  <2>2. CASE Send(c)
    BY <2>2 DEF Send, PutOnWire
  <2>3. CASE SendNothing(c)
    BY <2>3 DEF SendNothing
  <2>4. CASE Receive(c) \/ TimeOut(c) \/ Break(c)
    BY <2>4 DEF Receive, TimeOut, Break
  <2>5. CASE Return(c)
    BY <2>5 DEF Return
  <2>6. CASE BackOff(c)
    BY <2>6 DEF BackOff, Stops
  <2>7. CASE Wake(c)
    BY <2>7 DEF Wake
  <2>8. CASE CancelSleep(c)
    BY <2>8 DEF CancelSleep
  <2>9. CASE EndContext(c)
    BY <2>9 DEF EndContext
  <2>10. CASE TransportReplay(c)
    BY <2>10 DEF TransportReplay, PutOnWire
  <2>11. CASE Mangle(c)
    BY <2>11 DEF Mangle, callVars
  <2>12. QED
    BY <1>1, <2>1, <2>2, <2>3, <2>4, <2>5, <2>6, <2>7, <2>8, <2>9, <2>10, <2>11
       DEF CallStep, SdkStep
<1>2. CASE UNCHANGED callVars
  BY <1>2 DEF callVars
<1>3. QED
  BY <1>1, <1>2
     DEF Next, RequestStep, LoseRequest, TurnAway, Unavailable, Begin, Collide,
         AnswerAgain, Execute, Finish, Arrive, vars

LEMMA LoopInvariant == Spec => []LoopInv
  BY LoopInit, LoopStep, TypeCorrect, PTL DEF Spec

\* A call sends at most its budget and one more, net/http's replays aside.
THEOREM BudgetKept == Spec => []SendsWithinBudget
<1>1. TypeOK /\ LoopInv => SendsWithinBudget
  BY BudgetType, CallsAssumption DEF TypeOK, LoopInv, SendsWithinBudget, Budget
<1>2. QED
  BY <1>1, LoopInvariant, TypeCorrect, PTL

-----------------------------------------------------------------------------
\* What a call has read of its task's fate is what it returns.
THEOREM VerdictKept == Spec => VerdictIsKept
<1> DEFINE Kept == \A c \in Call : Verdict(result[c]) # "unsure" => result'[c] = result[c]
<1>1. TypeOK /\ LoopInv /\ [Next]_vars => [Kept]_vars
  <2> SUFFICES ASSUME TypeOK, LoopInv, Next, NEW c \in Call, Verdict(result[c]) # "unsure"
               PROVE  result'[c] = result[c]
    OBVIOUS
  <2>1. result[c] # NoResult /\ ~IsRetryable(result[c])
    BY DEF Verdict, NoResult, Err, IsRetryable
  <2>2. pc[c] \in {"judging", "returned"}
    BY <2>1 DEF LoopInv, TypeOK
  <2>3. ASSUME NEW d \in Call, CallStep(d) PROVE result'[c] = result[c]
    BY <2>2, <2>3
       DEF CallStep, SdkStep, Refuse, Invoke, Send, SendNothing, Receive, Break,
           TimeOut, Return, BackOff, Wake, CancelSleep, EndContext,
           TransportReplay, Mangle, Step, TypeOK, callVars
  <2>4. CASE UNCHANGED callVars
    BY <2>4 DEF callVars
  <2>5. QED
    BY <2>3, <2>4
       DEF Next, RequestStep, LoseRequest, TurnAway, Unavailable, Begin,
           Collide, AnswerAgain, Execute, Finish, Arrive
<1>2. QED
  BY <1>1, LoopInvariant, TypeCorrect, PTL DEF Spec, VerdictIsKept

-----------------------------------------------------------------------------
(***************************************************************************)
(* The writes without a key: DELETE and PATCH.                             *)
(***************************************************************************)
UnkeyedWrite(op) == ~op.keyed /\ op.method # "GET"

LEMMA UnkeyedNotRetried ==
  ASSUME NEW op \in Operation, UnkeyedWrite(op)
  PROVE  ~op.retried
<1>1. \A read : ~UnkeyedWrite(Get(read)) /\ ~UnkeyedWrite(Post(read))
  BY DEF UnkeyedWrite, Get, Post
<1>2. \A method, read : ~Once(method, read).retried
  BY DEF Once
<1>3. ~UnkeyedWrite(CreateWebhookEndpoint)
  BY DEF UnkeyedWrite, CreateWebhookEndpoint, Post
<1>4. QED
  BY <1>1, <1>2, <1>3
     DEF Operation, Ping, GetIntegrationContract, CreateCheckoutSession,
         GetStatus, ChargePaymentMethod, RevokePaymentMethod, CreateRefund,
         GetRefund, ListRefunds, CreatePlan, ListPlans, GetPlan, UpdatePlan,
         DeletePlan, CreateAgreement, GetAgreement, CancelAgreement,
         ListWebhookEndpoints, DeleteWebhookEndpoint, ListTransactions

\* net/http replays nothing but reads and keyed writes, and the requests of a
\* call on the wire have the numbers it gave them.
NumberInv ==
  /\ \A c \in Call : UnkeyedWrite(Op(c)) => replays[c] = 0
  /\ \A q \in wire : q.seq \in 1..sent[q.call]

LEMMA NumberStep == TypeOK /\ NumberInv /\ [Next]_vars => NumberInv'
<1> SUFFICES ASSUME TypeOK, NumberInv, [Next]_vars PROVE NumberInv'
  OBVIOUS
<1> USE DEF TypeOK, NumberInv, Request
<1>1. ASSUME wire' \subseteq wire, UNCHANGED <<sent, replays>> PROVE NumberInv'
  BY <1>1
<1>2. ASSUME NEW c \in Call, PutOnWire(c) PROVE \A q \in wire' : q.seq \in 1..sent'[q.call]
  BY <1>2 DEF PutOnWire
<1>3. ASSUME NEW c \in Call, Send(c) PROVE NumberInv'
  BY <1>2, <1>3 DEF Send
<1>4. ASSUME NEW c \in Call, TransportReplay(c) PROVE NumberInv'
  BY <1>2, <1>4 DEF TransportReplay, UnkeyedWrite
<1>5. ASSUME NEW c \in Call, CallStep(c) PROVE NumberInv'
  BY <1>1, <1>3, <1>4, <1>5
     DEF CallStep, SdkStep, Refuse, Invoke, SendNothing, Receive, Break,
         TimeOut, Return, BackOff, Wake, CancelSleep, EndContext, Mangle, callVars
<1>6. QED
  BY <1>1, <1>5
     DEF Next, RequestStep, LoseRequest, TurnAway, Unavailable, Begin, Collide,
         AnswerAgain, Execute, Finish, Arrive, vars, callVars

LEMMA NumberInvariant == Spec => []NumberInv
<1>1. Init => NumberInv
  BY DEF Init, NumberInv
<1>2. QED
  BY <1>1, NumberStep, TypeCorrect, PTL DEF Spec

\* A DELETE or a PATCH is sent once and is never twice on the wire.
THEOREM UnkeyedOnce == Spec => []UnkeyedWriteSentOnce
<1>1. TypeOK /\ LoopInv /\ WireInv /\ NumberInv => UnkeyedWriteSentOnce
  <2> SUFFICES ASSUME TypeOK, LoopInv, WireInv, NumberInv,
                      NEW c \in Call, UnkeyedWrite(Op(c))
               PROVE  /\ sent[c] <= 1
                      /\ Cardinality({q \in wire : q.call = c}) <= 1
    BY DEF UnkeyedWriteSentOnce, UnkeyedWrite
  <2> DEFINE Its == {q \in wire : q.call = c}
             Only == [call |-> c, seq |-> 1, key |-> KeyOf[TaskOf[c]]]
  <2>1. Budget(c) = 0
    BY OpType, UnkeyedNotRetried DEF Budget
  <2>2. sent[c] <= 1
    BY <2>1 DEF LoopInv, NumberInv, TypeOK
  <2>3. Its \subseteq {Only}
    BY <2>2 DEF NumberInv, WireInv, TypeOK, Request
  <2>4. Cardinality(Its) <= Cardinality({Only}) /\ Cardinality({Only}) = 1
    BY <2>3, FS_Subset, FS_Singleton
  <2>5. Cardinality(Its) <= 1
    BY <2>4
  <2>6. QED
    BY <2>2, <2>5
<1>2. QED
  BY <1>1, LoopInvariant, NumberInvariant, KeyInvariant, TypeCorrect, PTL DEF KeyInv

-----------------------------------------------------------------------------
(***************************************************************************)
(* The promise. A reply is true of a task if what it says of the task's    *)
(* fate is that fate. Fates do not change once they are settled, so what   *)
(* was true when the ledger recorded it is true in every later answer.     *)
(***************************************************************************)
Settled == {"placed", "declined"}

TrueOf(t, r) ==
  /\ r.data \in Settled => FateOf(t) = r.data
  /\ r.code = "CHARGE_FAILED" => FateOf(t) = "declined"

OwnerInv ==
  \A k \in Key : ledger[k].state # "free" => ledger[k].task = TaskOf[ledger[k].by.call]

RecordInv ==
  \A k \in Key : ledger[k].state = "done" => TrueOf(ledger[k].task, ledger[k].reply)

AnswerInv == \A c \in KeyedCall : TrueOf(TaskOf[c], answer[c])

ResultInv == \A c \in KeyedCall : Verdict(result[c]) \in {"unsure", FateOf(TaskOf[c])}

TruthInv == OwnerInv /\ RecordInv /\ AnswerInv /\ ResultInv

\* A reply that says nothing of a fate.
Silent(r) == r.data \notin Settled /\ r.code # "CHARGE_FAILED"

LEMMA SilentIsTrue == ASSUME NEW t, NEW r, Silent(r) PROVE TrueOf(t, r)
  BY DEF Silent, TrueOf

LEMMA SilentReplies ==
  /\ Silent(NoReply)
  /\ \A status \in Statuses, body \in Bodies : Silent(Plain(status, body))
  /\ \A r \in GateReplies : Silent(r)
  /\ \A op, code : code # "CHARGE_FAILED" => Silent(Refused(op, code))
<1>1. \A status, body : Silent(Plain(status, body))
  BY DEF Silent, Plain, Settled, NoCode
<1>2. \A status, code : code # "CHARGE_FAILED" => Silent(Coded(status, code))
  BY DEF Silent, Coded, Plain, Settled
<1>3. \A code : Silent([Plain(200, "json") EXCEPT !.inner = code])
  BY DEF Silent, Plain, Settled, NoCode
<1> QED
  BY <1>1, <1>2, <1>3 DEF NoReply, GateReplies, Refused

\* An operation reads of a fate only what the reply says.
LEMMA ReadsWhatIsSaid ==
  ASSUME NEW op \in Operation, NEW r \in Reply
  PROVE  LET o == Result(op, r) IN
         /\ o.kind = "Ok" => o.data = r.data
         /\ o.kind = "ChargeError" => o.code = r.code
<1> DEFINE Said(o) == /\ o.kind = "Ok" => o.data = r.data
                      /\ o.kind = "ChargeError" => o.code = r.code
<1>1. Said(Ok(r)) /\ Said(Unexpected(r)) /\ Said(Rejection(r)) /\ Said(RequestError(r))
  BY DEF Ok, Unexpected, Rejection, RequestError, Err
<1>2. ASSUME NEW code
      PROVE  /\ Said(Err("RefusalError", r.status, code))
             /\ Said(Err("RevokeError", r.status, code))
             /\ Said(Err("RefundError", r.status, code))
  BY DEF Err
<1>3. \A d : Said([Err("ChargeError", r.status, r.code) EXCEPT !.data = d])
  BY DEF Err
<1>4. Said(SendError(r))
  BY DEF SendError, Err
<1>5. /\ Said(ReadPayload(r)) /\ Said(ReadContract(r)) /\ Said(ReadDelete(r))
      /\ Said(ReadObject(r)) /\ Said(ReadList(r))
  BY <1>1 DEF ReadPayload, ReadContract, ReadDelete, ReadObject, ReadList
<1>6. Said(ReadSession(r)) /\ Said(ReadRevoke(r)) /\ Said(ReadRefund(r))
  BY <1>1, <1>2 DEF ReadSession, ReadRevoke, ReadRefund, RefundRejection
<1>7. Said(ReadCharge(r))
  BY <1>1, <1>3 DEF ReadCharge
<1>8. op.read \in Reads
  BY OperationType DEF OperationRecord
<1> HIDE DEF Said
<1>9. Said(Result(op, r))
  BY <1>4, <1>5, <1>6, <1>7, <1>8 DEF Result, Reads
<1> QED
  BY <1>9 DEF Said

LEMMA TrueReplyTrueVerdict ==
  ASSUME NEW op \in Operation, NEW r \in Reply, NEW t, TrueOf(t, r)
  PROVE  Verdict(Result(op, r)) \in {"unsure", FateOf(t)}
  BY ReadsWhatIsSaid DEF TrueOf, Verdict, Settled

-----------------------------------------------------------------------------
(***************************************************************************)
(* Fates.                                                                  *)
(***************************************************************************)
Fates == {"open", "placed", "declined"}

LEMMA FateType == TypeOK /\ KeyInv => \A t \in KeyedTask : FateOf(t) \in Fates
  BY DEF TypeOK, KeyInv, DoneInv, KeyedTask, FateOf, Fates

\* A task whose key's entry is not done was not done itself.
LEMMA OpenFate ==
  ASSUME TypeOK, KeyInv, NEW t \in KeyedTask, ledger[KeyOf[t]].state # "done"
  PROVE  performed[t] = 0 /\ FateOf(t) = "open"
<1>1. performed[t] = 0
  BY DEF TypeOK, KeyInv, DoneInv, KeyedTask
<1> QED
  BY <1>1 DEF FateOf

\* A request that opens its key settles nothing.
LEMMA BeginFate ==
  ASSUME TypeOK, KeyInv, NEW q \in wire, Begin(q)
  PROVE  \A t \in KeyedTask : FateOf(t)' = FateOf(t)
<1>1. /\ performed' = performed
      /\ \A k \in Key \ {q.key} : ledger'[k] = ledger[k]
      /\ q.key \in Key => ledger'[q.key].state = "running"
      /\ ledger[q.key].state = "free"
  BY DEF Begin, TypeOK
<1>2. SUFFICES ASSUME NEW t \in KeyedTask PROVE FateOf(t)' = FateOf(t)
  OBVIOUS
<1>3. KeyOf[t] \in Key
  BY CallsAssumption DEF KeyedTask
<1>4. CASE KeyOf[t] = q.key
  <2>1. performed[t] = 0 /\ FateOf(t) = "open"
    BY <1>1, <1>4, OpenFate
  <2> QED
    BY <1>1, <1>3, <1>4, <2>1 DEF FateOf
<1>5. CASE KeyOf[t] # q.key
  BY <1>1, <1>3, <1>5 DEF FateOf
<1> QED
  BY <1>4, <1>5

\* What is done without a key settles no keyed task.
LEMMA ExecuteFate ==
  ASSUME TypeOK, NEW q \in wire, Execute(q)
  PROVE  \A t \in KeyedTask : FateOf(t)' = FateOf(t)
<1>1. q.call \in Call /\ ~Keyed(TaskOf[q.call])
  BY DEF Execute, Op, Keyed, TypeOK, Request
<1>2. \A t \in KeyedTask : performed'[t] = performed[t]
  BY <1>1 DEF Execute, KeyedTask, TypeOK
<1> QED
  BY <1>2 DEF Execute, FateOf

\* The gateway settles the task that opened the key, once, and what it answers
\* is true of it.
LEMMA FinishFate ==
  ASSUME TypeOK, KeyInv, NEW k \in Key, Finish(k)
  PROVE  LET t == ledger[k].task IN
         /\ t \in KeyedTask /\ FateOf(t) = "open"
         /\ \A u \in KeyedTask \ {t} : FateOf(u)' = FateOf(u)
         /\ ledger'[k].state = "done" /\ ledger'[k].task = t /\ ledger'[k].by = ledger[k].by
         /\ \A j \in Key \ {k} : ledger'[j] = ledger[j]
         /\ TrueOf(ledger[k].task, ledger[k].reply)'
         /\ ledger'[k].reply \in Reply
         /\ AnswerTo(ledger[k].by, ledger'[k].reply)
<1> DEFINE t == ledger[k].task
<1>1. ledger[k] \in Entry /\ ledger[k].state = "running" /\ t \in Task
  BY DEF Finish, TypeOK, Free, Entry
<1>2. t \in KeyedTask /\ KeyOf[t] = k
  BY <1>1 DEF KeyInv, LedgerInv, KeyedTask
<1>3. performed[t] = 0 /\ FateOf(t) = "open"
  BY <1>1, <1>2, OpenFate
<1>4. PICK v \in Verdicts(OpOf[t]) :
        /\ ledger' = [ledger EXCEPT ![k].state = "done", ![k].reply = v.reply]
        /\ performed' = [performed EXCEPT ![t] = @ + v.done]
        /\ AnswerTo(ledger[k].by, v.reply)
  BY DEF Finish
<1>5. v.done \in {0, 1} /\ v.reply \in Reply
  BY VerdictsType
<1>6. /\ ledger'[k].state = "done" /\ ledger'[k].task = t /\ ledger'[k].reply = v.reply
      /\ ledger'[k].by = ledger[k].by
      /\ \A j \in Key \ {k} : ledger'[j] = ledger[j]
  BY <1>1, <1>4 DEF TypeOK, Entry
<1>7. performed'[t] = v.done /\ \A u \in Task \ {t} : performed'[u] = performed[u]
  BY <1>1, <1>3, <1>4, <1>5 DEF TypeOK
<1>8. ASSUME NEW u \in KeyedTask, u # t PROVE FateOf(u)' = FateOf(u)
  <2>1. u \in Task /\ KeyOf[u] \in Key /\ performed'[u] = performed[u]
    BY <1>7, <1>8, CallsAssumption DEF KeyedTask
  <2>2. CASE KeyOf[u] # k
    BY <1>6, <2>1, <2>2 DEF FateOf
  <2>3. CASE KeyOf[u] = k
    <3>1. performed[u] = 0 /\ FateOf(u) = "open"
      BY <1>1, <2>3, OpenFate
    <3> QED
      BY <1>6, <1>8, <2>1, <2>3, <3>1 DEF FateOf
  <2> QED
    BY <2>2, <2>3
<1>9. TrueOf(ledger[k].task, ledger[k].reply)'
  <2>1. /\ v.done = 1 => FateOf(t)' = "placed"
        /\ v.done = 0 /\ ~Undecided(v.reply) => FateOf(t)' = "declined"
    BY <1>2, <1>6, <1>7 DEF FateOf
  <2>2. \/ v.done = 1 /\ v.reply.data = "placed" /\ v.reply.code = NoCode
        \/ v.done = 0 /\ v.reply.data = "declined" /\ v.reply.code = NoCode
        \/ v.done = 0 /\ v.reply.data = "absent" /\ v.reply.code = "CHARGE_FAILED"
        \/ Silent(v.reply)
    <3>1. Row(201, "placed").data = "placed" /\ Row(201, "placed").code = NoCode
      BY DEF Row, Plain
    <3>2. Row(402, "declined").data = "declined" /\ Row(402, "declined").code = NoCode
      BY DEF Row, Plain
    <3>3. Coded(502, "CHARGE_FAILED").data = "absent" /\ Coded(502, "CHARGE_FAILED").code = "CHARGE_FAILED"
      BY DEF Coded, Plain
    <3>4. Silent([Coded(502, "CHARGE_OUTCOME_UNKNOWN") EXCEPT !.data = "open"])
      BY DEF Silent, Coded, Plain, Settled
    <3>5. Silent(Refused(OpOf[t], "OTHER"))
      BY SilentReplies
    <3> QED
      BY <3>1, <3>2, <3>3, <3>4, <3>5 DEF Verdicts
  <2>3. CASE Silent(v.reply)
    BY <1>6, <2>3 DEF Silent, TrueOf
  <2>4. CASE ~Silent(v.reply)
    BY <1>6, <2>1, <2>2, <2>4 DEF TrueOf, Undecided, NoCode, Settled
  <2> QED
    BY <2>3, <2>4
<1> QED
  BY <1>2, <1>3, <1>4, <1>5, <1>6, <1>8, <1>9

\* What the gateway has settled of a task it does not change.
LEMMA FateKept ==
  ASSUME TypeOK, KeyInv, [Next]_vars
  PROVE  \A t \in KeyedTask : FateOf(t) # "open" => FateOf(t)' = FateOf(t)
<1>1. CASE UNCHANGED gatewayVars
  BY <1>1 DEF gatewayVars, FateOf
<1>2. CASE \E q \in wire : Begin(q)
  BY <1>2, BeginFate
<1>3. CASE \E q \in wire : Execute(q)
  BY <1>3, ExecuteFate
<1>4. CASE \E k \in Key : Finish(k)
  <2>1. PICK k \in Key : Finish(k)
    BY <1>4
  <2> DEFINE t == ledger[k].task
  <2>2. FateOf(t) = "open" /\ \A u \in KeyedTask \ {t} : FateOf(u)' = FateOf(u)
    BY <2>1, FinishFate
  <2>3. SUFFICES ASSUME NEW u \in KeyedTask, FateOf(u) # "open" PROVE FateOf(u)' = FateOf(u)
    OBVIOUS
  <2> QED
    BY <2>2, <2>3
<1>5. ASSUME NEW c \in Call, CallStep(c) PROVE UNCHANGED gatewayVars
  BY <1>5
     DEF CallStep, SdkStep, Refuse, Invoke, Send, SendNothing, Receive, Break,
         TimeOut, Return, BackOff, Wake, CancelSleep, EndContext,
         TransportReplay, Mangle
<1>6. ASSUME NEW q \in wire, RequestStep(q), ~Begin(q), ~Execute(q)
      PROVE  UNCHANGED gatewayVars
  BY <1>6
     DEF RequestStep, LoseRequest, TurnAway, Unavailable, Collide, AnswerAgain
<1> QED
  BY <1>1, <1>2, <1>3, <1>4, <1>5, <1>6 DEF Next, vars

LEMMA TrueKept ==
  ASSUME TypeOK, KeyInv, [Next]_vars, NEW CONSTANT t \in KeyedTask, NEW CONSTANT r, TrueOf(t, r)
  PROVE  TrueOf(t, r)'
<1>1. FateOf(t) # "open" => FateOf(t)' = FateOf(t)
  BY FateKept
<1> QED
  BY <1>1 DEF TrueOf, Settled

LEMMA EntryTask ==
  ASSUME TypeOK, KeyInv, NEW k \in Key, ledger[k].state # "free"
  PROVE  ledger[k].task \in KeyedTask /\ ledger[k] \in Entry
  BY DEF TypeOK, KeyInv, LedgerInv, KeyedTask, Entry, Free

LEMMA CallTask == \A c \in KeyedCall : c \in Call /\ Op(c) \in Operation /\ TaskOf[c] \in KeyedTask
  BY CallsAssumption, OpType DEF KeyedCall, KeyedTask, Keyed, Op

-----------------------------------------------------------------------------
(***************************************************************************)
(* What the ledger recorded, what is on its way to a call, and what a call *)
(* has read, stays true.                                                   *)
(***************************************************************************)
LEMMA RecordStep ==
  ASSUME TypeOK, KeyInv, TruthInv, [Next]_vars
  PROVE  OwnerInv' /\ RecordInv'
<1>1. ASSUME NEW k \in Key, ledger'[k] = ledger[k], ledger[k].state = "done"
      PROVE  TrueOf(ledger[k].task, ledger[k].reply)'
  <2>1. ledger[k].task \in KeyedTask /\ TrueOf(ledger[k].task, ledger[k].reply)
    BY <1>1, EntryTask DEF TruthInv, RecordInv
  <2>2. \A t \in KeyedTask : \A r : TrueOf(t, r) => TrueOf(t, r)'
    BY TrueKept
  <2> QED
    BY <1>1, <2>1, <2>2 DEF TrueOf
<1>2. CASE ledger' = ledger
  BY <1>1, <1>2 DEF TruthInv, OwnerInv, RecordInv
<1>3. ASSUME NEW q \in wire, Begin(q) PROVE OwnerInv' /\ RecordInv'
  <2>1. /\ \A k \in Key \ {q.key} : ledger'[k] = ledger[k]
        /\ q.key \in Key
        /\ ledger'[q.key].state = "running" /\ ledger'[q.key].task = TaskOf[q.call]
        /\ ledger'[q.key].by = q
    BY <1>3 DEF Begin, TypeOK, Request
  <2> QED
    BY <1>1, <2>1 DEF TruthInv, OwnerInv, RecordInv
<1>4. ASSUME NEW k \in Key, Finish(k) PROVE OwnerInv' /\ RecordInv'
  <2>1. /\ ledger[k].state # "free"
        /\ \A j \in Key \ {k} : ledger'[j] = ledger[j]
        /\ ledger'[k].task = ledger[k].task /\ ledger'[k].by = ledger[k].by
        /\ TrueOf(ledger[k].task, ledger[k].reply)'
    BY <1>4, FinishFate DEF Finish
  <2> QED
    BY <1>1, <2>1 DEF TruthInv, OwnerInv, RecordInv
<1>5. ASSUME NEW c \in Call, CallStep(c) PROVE ledger' = ledger
  BY <1>5
     DEF CallStep, SdkStep, Refuse, Invoke, Send, SendNothing, Receive, Break,
         TimeOut, Return, BackOff, Wake, CancelSleep, EndContext,
         TransportReplay, Mangle, gatewayVars
<1>6. ASSUME NEW q \in wire, RequestStep(q), ~Begin(q) PROVE ledger' = ledger
  BY <1>6
     DEF RequestStep, LoseRequest, TurnAway, Unavailable, Collide, AnswerAgain,
         Execute, gatewayVars
<1> QED
  BY <1>2, <1>3, <1>4, <1>5, <1>6 DEF Next, vars, gatewayVars

\* An answer that is true of its call's task keeps all answers true.
LEMMA AnswerToTrue ==
  ASSUME TypeOK, KeyInv, AnswerInv, [Next]_vars, NEW CONSTANT q \in Request,
         NEW CONSTANT r, AnswerTo(q, r),
         q.call \in KeyedCall => TrueOf(TaskOf[q.call], r)'
  PROVE  AnswerInv'
<1>1. SUFFICES ASSUME NEW c \in KeyedCall PROVE TrueOf(TaskOf[c], answer[c])'
  BY DEF AnswerInv
<1>2. c \in Call /\ TaskOf[c] \in KeyedTask
  BY CallTask
<1>3. CASE answer'[c] = answer[c]
  <2>1. \A s : TrueOf(TaskOf[c], s) => TrueOf(TaskOf[c], s)'
    BY <1>2, TrueKept
  <2> QED
    BY <1>3, <2>1 DEF AnswerInv, TrueOf
<1>4. CASE answer'[c] # answer[c]
  <2>1. c = q.call /\ answer'[c] = r
    BY <1>2, <1>4 DEF AnswerTo, TypeOK
  <2> QED
    BY <2>1 DEF TrueOf
<1> QED
  BY <1>3, <1>4

LEMMA AnswerStep ==
  ASSUME TypeOK, KeyInv, TruthInv, [Next]_vars
  PROVE  AnswerInv'
<1>1. AnswerInv
  BY DEF TruthInv
<1>2. \A c \in KeyedCall : \A r : TrueOf(TaskOf[c], r) => TrueOf(TaskOf[c], r)'
  BY CallTask, TrueKept
<1>3. \A q \in wire : \A r :
        AnswerTo(q, r) /\ (q.call \in KeyedCall => TrueOf(TaskOf[q.call], r)') => AnswerInv'
  BY <1>1, AnswerToTrue DEF TypeOK
<1>4. \A c \in KeyedCall : \A r : Silent(r) => TrueOf(TaskOf[c], r)'
  BY DEF Silent, TrueOf
<1>5. ASSUME answer' = answer PROVE AnswerInv'
  BY <1>1, <1>2, <1>5 DEF AnswerInv, TrueOf
<1>6. ASSUME NEW c \in Call, NEW r, Silent(r), answer' = [answer EXCEPT ![c] = r]
      PROVE  AnswerInv'
  <2>1. \A d \in KeyedCall : answer'[d] = IF d = c THEN r ELSE answer[d]
    BY <1>6, CallTask DEF TypeOK
  <2>2. SUFFICES ASSUME NEW d \in KeyedCall PROVE TrueOf(TaskOf[d], answer[d])'
    BY DEF AnswerInv
  <2>3. CASE d = c
    BY <1>4, <1>6, <2>1, <2>3 DEF TrueOf
  <2>4. CASE d # c
    BY <1>1, <1>2, <2>1, <2>4 DEF TrueOf, AnswerInv
  <2> QED
    BY <2>3, <2>4
<1>7. ASSUME NEW c \in Call, Receive(c) \/ Break(c) \/ TimeOut(c) PROVE AnswerInv'
  BY <1>6, <1>7, SilentReplies DEF Receive, Break, TimeOut
<1>8. ASSUME NEW c \in Call, Mangle(c) PROVE AnswerInv'
  <2>1. answer[c].status \in Statuses /\ 503 \in Statuses /\ {"unreadable", "text"} \subseteq Bodies
    BY <1>8 DEF Mangle, TypeOK, Reply, Statuses, Bodies
  <2> QED
    BY <1>6, <1>8, <2>1, SilentReplies DEF Mangle
<1>9. ASSUME NEW c \in Call, CallStep(c) PROVE AnswerInv'
  BY <1>5, <1>7, <1>8, <1>9
     DEF CallStep, SdkStep, Refuse, Invoke, Send, SendNothing, Return, BackOff,
         Wake, CancelSleep, EndContext, TransportReplay
<1>10. ASSUME NEW q \in wire, NEW r, Arrive(q, r), Silent(r) PROVE AnswerInv'
  BY <1>3, <1>4, <1>10 DEF Arrive
<1>11. ASSUME NEW q \in wire, RequestStep(q) PROVE AnswerInv'
  <2>1. CASE LoseRequest(q) \/ Begin(q)
    BY <1>5, <2>1 DEF LoseRequest, Begin
  <2>2. CASE TurnAway(q) \/ Unavailable(q) \/ Collide(q)
    BY <1>10, <2>2, SilentReplies DEF TurnAway, Unavailable, Collide
  <2>3. CASE AnswerAgain(q)
    <3>1. /\ ledger[q.key].task = TaskOf[q.call] /\ q.key \in Key
          /\ TrueOf(TaskOf[q.call], ledger[q.key].reply)
      BY <2>3 DEF AnswerAgain, TruthInv, RecordInv, TypeOK, Request
    <3>2. AnswerTo(q, ledger[q.key].reply)
      BY <2>3 DEF AnswerAgain, Arrive
    <3>3. PICK r : r = ledger[q.key].reply
      OBVIOUS
    <3>4. q.call \in KeyedCall => TrueOf(TaskOf[q.call], r)'
      BY <1>2, <3>1, <3>3
    <3> QED
      BY <1>3, <3>2, <3>3, <3>4
  <2>4. CASE Execute(q)
    BY <1>3, <2>4 DEF Execute, Arrive, KeyedCall
  <2> QED
    BY <1>11, <2>1, <2>2, <2>3, <2>4 DEF RequestStep
<1>12. ASSUME NEW k \in Key, Finish(k) PROVE AnswerInv'
  <2>1. PICK q, r : q = ledger[k].by /\ r = ledger'[k].reply
    OBVIOUS
  <2>2. q \in Request /\ ledger[k].task = TaskOf[q.call]
    BY <1>12, <2>1, EntryTask DEF Finish, TruthInv, OwnerInv, Entry
  <2>3. AnswerTo(q, r) /\ ledger'[k].task = ledger[k].task /\ TrueOf(ledger[k].task, ledger[k].reply)'
    BY <1>12, <2>1, FinishFate
  <2>4. TrueOf(TaskOf[q.call], r)'
    BY <2>1, <2>2, <2>3 DEF TrueOf
  <2> QED
    BY <1>1, <2>2, <2>3, <2>4, AnswerToTrue
<1> QED
  BY <1>5, <1>9, <1>11, <1>12 DEF Next, vars

LEMMA ErrUnsure ==
  /\ Verdict(NoResult) = "unsure" /\ Verdict(NoAnswer) = "unsure"
  /\ Verdict(Err("ValidationError", NoStatus, NoCode)) = "unsure"
  BY DEF Verdict, NoResult, NoAnswer, Err

LEMMA ResultStep ==
  ASSUME TypeOK, KeyInv, TruthInv, [Next]_vars
  PROVE  ResultInv'
<1>1. SUFFICES ASSUME NEW c \in KeyedCall
               PROVE  Verdict(result'[c]) \in {"unsure", FateOf(TaskOf[c])'}
  BY DEF ResultInv
<1>2. c \in Call /\ Op(c) \in Operation /\ TaskOf[c] \in KeyedTask
  BY CallTask
<1>3. FateOf(TaskOf[c]) # "open" => FateOf(TaskOf[c])' = FateOf(TaskOf[c])
  BY <1>2, FateKept
<1>4. \A o : Verdict(o) # "open"
  BY DEF Verdict
<1>5. CASE result'[c] = result[c]
  BY <1>3, <1>4, <1>5 DEF TruthInv, ResultInv
<1>6. CASE Verdict(result'[c]) = "unsure"
  BY <1>6
<1>7. CASE Receive(c)
  <2>1. answer[c] \in Reply /\ TrueOf(TaskOf[c], answer[c])
    BY <1>2, <1>7 DEF Receive, TypeOK, TruthInv, AnswerInv
  <2>2. Verdict(Result(Op(c), answer[c])) \in {"unsure", FateOf(TaskOf[c])}
    BY <1>2, <2>1, TrueReplyTrueVerdict
  <2>3. result'[c] = Result(Op(c), answer[c])
    BY <1>2, <1>7 DEF Receive, TypeOK
  <2> QED
    BY <1>3, <1>4, <2>2, <2>3
<1>8. ASSUME NEW d \in Call, CallStep(d), ~Receive(c)
      PROVE  result'[c] = result[c] \/ Verdict(result'[c]) = "unsure"
  BY <1>2, <1>8, ErrUnsure
     DEF CallStep, SdkStep, Refuse, Invoke, Send, SendNothing, Receive, Break,
         TimeOut, Return, BackOff, Wake, CancelSleep, EndContext,
         TransportReplay, Mangle, TypeOK, callVars
<1>9. ASSUME UNCHANGED callVars PROVE result'[c] = result[c]
  BY <1>9 DEF callVars
<1> QED
  BY <1>5, <1>6, <1>7, <1>8, <1>9
     DEF Next, RequestStep, LoseRequest, TurnAway, Unavailable, Begin, Collide,
         AnswerAgain, Execute, Finish, Arrive, vars

LEMMA TruthInvariant == Spec => []TruthInv
<1>1. Init => TruthInv
  <2>1. Init => OwnerInv /\ RecordInv
    BY DEF Init, OwnerInv, RecordInv, Free
  <2>2. Init => AnswerInv /\ ResultInv
    BY CallTask, SilentReplies, SilentIsTrue, ErrUnsure DEF Init, AnswerInv, ResultInv
  <2> QED
    BY <2>1, <2>2 DEF TruthInv
<1>2. TypeOK /\ KeyInv /\ TruthInv /\ [Next]_vars => TruthInv'
  BY RecordStep, AnswerStep, ResultStep DEF TruthInv
<1> QED
  BY <1>1, <1>2, TypeCorrect, KeyInvariant, PTL DEF Spec

-----------------------------------------------------------------------------
(***************************************************************************)
(* The refinement.                                                         *)
(***************************************************************************)
LEMMA PromiseInit == Init => Promise!Init
<1> SUFFICES ASSUME Init PROVE Promise!Init
  OBVIOUS
<1>1. \A t \in KeyedTask : FateOf(t) = "open"
  BY CallsAssumption DEF Init, FateOf, KeyedTask, Free
<1>2. \A c \in KeyedCall : ToldBy(c) = "nothing"
  BY CallTask DEF Init, ToldBy
<1> QED
  BY <1>1, <1>2 DEF Promise!Init

\* A call's own step settles no fate, and when it returns, it tells its caller
\* what is true or that it does not know.
LEMMA CallTells ==
  ASSUME TypeOK, KeyInv, TruthInv, NEW c \in Call, CallStep(c)
  PROVE  \/ \A d \in KeyedCall : ToldBy(d)' = ToldBy(d)
         \/ /\ c \in KeyedCall /\ ToldBy(c) = "nothing"
            /\ ToldBy(c)' \in {"unsure", FateOf(TaskOf[c])} \ {"open"}
            /\ \A d \in KeyedCall \ {c} : ToldBy(d)' = ToldBy(d)
<1>1. \A d \in KeyedCall \ {c} : pc'[d] = pc[d] /\ result'[d] = result[d]
  BY CallTask
     DEF CallStep, SdkStep, Refuse, Invoke, Send, SendNothing, Receive, Break,
         TimeOut, Return, BackOff, Wake, CancelSleep, EndContext,
         TransportReplay, Mangle, Step, TypeOK, callVars
<1>2. \A d \in KeyedCall \ {c} : ToldBy(d)' = ToldBy(d)
  BY <1>1 DEF ToldBy
<1>3. \/ pc'[c] = pc[c] /\ result'[c] = result[c]
      \/ pc[c] # "returned" /\ pc'[c] # "returned"
      \/ /\ pc[c] # "returned" /\ pc'[c] = "returned"
         /\ result'[c] \in {result[c], NoAnswer, Err("ValidationError", NoStatus, NoCode)}
  BY DEF CallStep, SdkStep, Refuse, Invoke, Send, SendNothing, Receive, Break,
         TimeOut, Return, BackOff, Wake, CancelSleep, EndContext,
         TransportReplay, Mangle, Step, TypeOK, callVars
<1>4. CASE c \notin KeyedCall \/ ToldBy(c)' = ToldBy(c)
  BY <1>2, <1>4
<1>5. CASE c \in KeyedCall /\ ToldBy(c)' # ToldBy(c)
  <2>1. /\ pc[c] # "returned" /\ pc'[c] = "returned"
        /\ result'[c] \in {result[c], NoAnswer, Err("ValidationError", NoStatus, NoCode)}
    BY <1>3, <1>5 DEF ToldBy
  <2>2. Verdict(result[c]) \in {"unsure", FateOf(TaskOf[c])}
    BY <1>5 DEF TruthInv, ResultInv
  <2>3. \A o : Verdict(o) # "open"
    BY DEF Verdict
  <2>4. Verdict(result'[c]) \in {"unsure", FateOf(TaskOf[c])} \ {"open"}
    BY <2>1, <2>2, <2>3, ErrUnsure
  <2>5. ToldBy(c) = "nothing" /\ ToldBy(c)' = Verdict(result'[c])
    BY <2>1 DEF ToldBy
  <2> QED
    BY <1>2, <1>5, <2>4, <2>5
<1> QED
  BY <1>4, <1>5

LEMMA PromiseStep ==
  TypeOK /\ KeyInv /\ TruthInv /\ [Next]_vars
    => [Promise!Next]_<<[t \in KeyedTask |-> FateOf(t)], [c \in KeyedCall |-> ToldBy(c)]>>
<1> DEFINE fates == [t \in KeyedTask |-> FateOf(t)]
           tolds == [c \in KeyedCall |-> ToldBy(c)]
<1> SUFFICES ASSUME TypeOK, KeyInv, TruthInv, [Next]_vars
             PROVE  Promise!Next \/ (fates' = fates /\ tolds' = tolds)
  OBVIOUS
<1>1. ASSUME \A t \in KeyedTask : FateOf(t)' = FateOf(t)
      PROVE  fates' = fates
  BY <1>1
<1>2. ASSUME \A c \in KeyedCall : ToldBy(c)' = ToldBy(c)
      PROVE  tolds' = tolds
  BY <1>2
<1>3. ASSUME UNCHANGED gatewayVars PROVE fates' = fates
  BY <1>1, <1>3 DEF gatewayVars, FateOf
<1>4. ASSUME UNCHANGED callVars PROVE tolds' = tolds
  BY <1>2, <1>4 DEF callVars, ToldBy
<1>5. ASSUME NEW c \in Call, CallStep(c)
      PROVE  Promise!Next \/ (fates' = fates /\ tolds' = tolds)
  <2>1. UNCHANGED gatewayVars
    BY <1>5
       DEF CallStep, SdkStep, Refuse, Invoke, Send, SendNothing, Receive, Break,
           TimeOut, Return, BackOff, Wake, CancelSleep, EndContext,
           TransportReplay, Mangle
  <2>2. fates' = fates
    BY <1>3, <2>1
  <2>3. CASE \A d \in KeyedCall : ToldBy(d)' = ToldBy(d)
    BY <1>2, <2>2, <2>3
  <2>4. CASE ~\A d \in KeyedCall : ToldBy(d)' = ToldBy(d)
    <3>1. /\ c \in KeyedCall /\ ToldBy(c) = "nothing"
          /\ ToldBy(c)' \in {"unsure", FateOf(TaskOf[c])} \ {"open"}
          /\ \A d \in KeyedCall \ {c} : ToldBy(d)' = ToldBy(d)
      BY <1>5, <2>4, CallTells
    <3>2. tolds[c] = "nothing" /\ tolds' = [tolds EXCEPT ![c] = ToldBy(c)']
      BY <3>1
    <3>3. TaskOf[c] \in KeyedTask /\ fates[TaskOf[c]] = FateOf(TaskOf[c])
      BY <3>1, CallTask
    <3>4. Promise!Tell(c)
      BY <2>2, <3>1, <3>2, <3>3 DEF Promise!Tell
    <3> QED
      BY <3>1, <3>4 DEF Promise!Next
  <2> QED
    BY <2>3, <2>4
<1>6. ASSUME NEW q \in wire, RequestStep(q)
      PROVE  fates' = fates /\ tolds' = tolds
  <2>1. UNCHANGED callVars
    BY <1>6
       DEF RequestStep, LoseRequest, TurnAway, Unavailable, Begin, Collide,
           AnswerAgain, Execute, Arrive
  <2>2. Begin(q) \/ Execute(q) \/ UNCHANGED gatewayVars
    BY <1>6
       DEF RequestStep, LoseRequest, TurnAway, Unavailable, Collide, AnswerAgain
  <2>3. fates' = fates
    BY <1>1, <1>3, <2>2, BeginFate, ExecuteFate
  <2> QED
    BY <1>4, <2>1, <2>3
<1>7. ASSUME NEW k \in Key, Finish(k)
      PROVE  Promise!Next \/ (fates' = fates /\ tolds' = tolds)
  <2>1. PICK t : t = ledger[k].task
    OBVIOUS
  <2>2. /\ t \in KeyedTask /\ FateOf(t) = "open"
        /\ \A u \in KeyedTask \ {t} : FateOf(u)' = FateOf(u)
    BY <1>7, <2>1, FinishFate
  <2>3. tolds' = tolds
    BY <1>4, <1>7 DEF Finish
  <2>4. FateOf(t)' \in Fates
    <3>1. TypeOK' /\ KeyInv'
      BY TypeStep, WireStep, DoneStep DEF KeyInv
    <3> QED
      BY <2>2, <3>1 DEF TypeOK, KeyInv, DoneInv, KeyedTask, FateOf, Fates
  <2>5. CASE FateOf(t)' = "open"
    BY <1>1, <2>2, <2>3, <2>5
  <2>6. CASE FateOf(t)' \in {"placed", "declined"}
    <3>1. fates[t] = "open" /\ fates' = [fates EXCEPT ![t] = FateOf(t)']
      BY <2>2
    <3>2. Promise!Settle(t)
      BY <2>3, <2>6, <3>1 DEF Promise!Settle
    <3> QED
      BY <2>2, <3>2 DEF Promise!Next
  <2> QED
    BY <2>4, <2>5, <2>6 DEF Fates
<1>8. CASE UNCHANGED vars
  BY <1>3, <1>4, <1>8 DEF vars
<1> QED
  BY <1>5, <1>6, <1>7, <1>8 DEF Next

\* The keyed calls keep the promise of OncePerTask: the fate of a task is
\* settled once, and no call reports another, for every number of calls,
\* tasks and keys, and although calls may share a key.
THEOREM Refinement == Spec => KeepsPromise
<1> QED
  BY PromiseInit, PromiseStep, TypeCorrect, KeyInvariant, TruthInvariant, PTL
     DEF Spec, KeepsPromise, Promise!Spec
=============================================================================
