---------------------------- MODULE ReceiverProof ----------------------------
(***************************************************************************)
(* The receiver keeps the promise of Inbox, for any number of events,      *)
(* attempts and restarts.                                                  *)
(***************************************************************************)
EXTENDS Receiver, TLAPS

\* The claim of an event is the passage from Mark to Work: a delivery about to
\* mark is the first of its event, one that skips or does the work is not, and
\* one delivery of an event does it.
ClaimInv ==
  /\ \A d \in Delivery : pc[d] = "mark" => d[1] \notin seen
  /\ \A d \in Delivery : pc[d] \in {"repeat", "work"} => d[1] \in seen
  /\ \A d, x \in Delivery : pc[d] = "work" /\ pc[x] = "work" /\ d[1] = x[1] => d = x

\* What is claimed is at work or done, and what is answered 200 was claimed.
AnswerInv ==
  /\ \A e \in Event : e \in seen => AtWork(e) \/ worked[e] > 0
  /\ \A d \in Delivery : pc[d] = "ok" =>
       d[1] \in seen \/ worked[d[1]] > 0 \/ d[1] \in interrupted

IInv == TypeOK /\ ClaimInv /\ AnswerInv

\* What an action leaves of a delivery's place and of an event's claim.
KeepsWork == \A x \in Delivery : pc'[x] = "work" <=> pc[x] = "work"

-----------------------------------------------------------------------------
LEMMA InitTypeOK == Init => TypeOK
<1> SUFFICES ASSUME Init PROVE TypeOK
  OBVIOUS
<1> QED
  BY ReceiverAssumption DEF Init, TypeOK, Delivery

LEMMA NextTypeOK == TypeOK /\ [Next]_vars => TypeOK'
<1> SUFFICES ASSUME TypeOK, [Next]_vars PROVE TypeOK'
  OBVIOUS
<1> USE ReceiverAssumption DEF TypeOK, platform, handler, history
<1>1. ASSUME NEW e \in Event, Send(e) PROVE TypeOK'
  <2> DEFINE n == sent[e] + 1
             d == <<e, n>>
  <2>1. n \in 1..Attempts /\ d \in Delivery /\ pc[d] = "unsent"
    BY <1>1 DEF Send, Step, Delivery
  <2>2. pc' = [pc EXCEPT ![d] = "sent"]
    BY <1>1 DEF Send, Step
  <2>3. \A x \in Delivery : pc'[x] = "unsent" <=> x[2] > sent'[x[1]]
    <3> SUFFICES ASSUME NEW x \in Delivery
                 PROVE pc'[x] = "unsent" <=> x[2] > sent'[x[1]]
      OBVIOUS
    <3>1. x[1] \in Event /\ x[2] \in 1..Attempts /\ x = <<x[1], x[2]>>
      BY DEF Delivery
    <3>2. sent' = [sent EXCEPT ![e] = n]
      BY <1>1 DEF Send
    <3>3. CASE x = d
      BY <3>3, <3>2, <2>1, <2>2
    <3>4. CASE x # d
      BY <3>1, <3>2, <3>4, <2>1, <2>2
    <3> QED
      BY <3>3, <3>4
  <2>4. \A x \in Delivery : pc'[x] \in {"look", "repeat", "mark"} <=> mu' = x
    BY <1>1, <2>1, <2>2 DEF Send
  <2> QED
    BY <1>1, <2>1, <2>2, <2>3, <2>4 DEF Send
<1>2. ASSUME NEW e \in Event, GiveUp(e) PROVE TypeOK'
  BY <1>2 DEF GiveUp, Delivery
<1>3. ASSUME NEW d \in Delivery, Refuse(d) \/ Accept(d) PROVE TypeOK'
  BY <1>3 DEF Refuse, Accept, Step
<1>4. ASSUME NEW d \in Delivery, Lock(d) PROVE TypeOK'
  BY <1>4 DEF Lock, Step
<1>5. ASSUME NEW d \in Delivery, Look(d) PROVE TypeOK'
  BY <1>5 DEF Look, Step
<1>6. ASSUME NEW d \in Delivery, Repeat(d) PROVE TypeOK'
  BY <1>6 DEF Repeat, Step
<1>7. ASSUME NEW d \in Delivery, Mark(d) PROVE TypeOK'
  BY <1>7 DEF Mark, Step, Delivery
<1>8. ASSUME NEW d \in Delivery, Work(d) PROVE TypeOK'
  BY <1>8 DEF Work, Step, Delivery
<1>9. ASSUME NEW d \in Delivery, Answered(d) PROVE TypeOK'
  BY <1>9 DEF Answered, Delivery
<1>10. ASSUME Restart PROVE TypeOK'
  BY <1>10 DEF Restart
<1>11. CASE UNCHANGED vars
  BY <1>11 DEF vars, AtWork
<1> QED
  BY <1>1, <1>2, <1>3, <1>4, <1>5, <1>6, <1>7, <1>8, <1>9, <1>10, <1>11
  DEF Next, Running

\* The types of the receiver; its mutex is held by exactly the delivery that
\* looks or marks (main.go:111).
THEOREM TypeCorrect == Spec => []TypeOK
<1> QED
  BY InitTypeOK, NextTypeOK, PTL DEF Spec

-----------------------------------------------------------------------------
LEMMA InitIInv == Init => IInv
<1> SUFFICES ASSUME Init PROVE IInv
  OBVIOUS
<1> QED
  BY InitTypeOK DEF Init, IInv, ClaimInv, AnswerInv, Delivery

\* A step that keeps every delivery at work there, and no other, keeps an
\* event at work.
LEMMA SameWork ==
  KeepsWork => \A e \in Event : AtWork(e)' <=> AtWork(e)
<1> QED
  BY DEF KeepsWork, AtWork, Delivery

\* The platform's steps, and a handler's before it marks or after it is done.
LEMMA QuietStep ==
  ASSUME IInv, NEW d \in Delivery, NEW to,
         pc' = [pc EXCEPT ![d] = to],
         pc[d] # "work",
         to \in {"sent", "refused", "lock", "look", "closed"},
         UNCHANGED <<seen, history>>
  PROVE  KeepsWork /\ ClaimInv' /\ AnswerInv'
<1> USE DEF IInv, TypeOK, history
<1>1. \A x \in Delivery : pc'[x] = IF x = d THEN to ELSE pc[x]
  OBVIOUS
<1>2. KeepsWork
  BY <1>1 DEF KeepsWork
<1>3. ClaimInv'
  BY <1>1 DEF ClaimInv
<1>4. AnswerInv'
  BY <1>1, <1>2, SameWork DEF AnswerInv
<1> QED
  BY <1>2, <1>3, <1>4

LEMMA NextClaim == IInv /\ [Next]_vars => ClaimInv' /\ AnswerInv'
<1> SUFFICES ASSUME IInv, [Next]_vars PROVE ClaimInv' /\ AnswerInv'
  OBVIOUS
<1> USE DEF handler, history, platform
<1>0. \A d \in Delivery : d[1] \in Event
  BY DEF Delivery
<1>1. ASSUME NEW e \in Event, Send(e) PROVE ClaimInv' /\ AnswerInv'
  <2> DEFINE d == <<e, sent[e] + 1>>
  <2>1. d \in Delivery
    BY <1>1, ReceiverAssumption DEF Send, Delivery, IInv, TypeOK
  <2> QED
    BY <1>1, <2>1, QuietStep DEF Send, Step
<1>2. ASSUME NEW e \in Event, GiveUp(e) PROVE ClaimInv' /\ AnswerInv'
  BY <1>2 DEF GiveUp, IInv, ClaimInv, AnswerInv, AtWork
<1>3. ASSUME NEW d \in Delivery, Refuse(d) \/ Accept(d) \/ Lock(d)
      PROVE  ClaimInv' /\ AnswerInv'
  BY <1>3, QuietStep DEF Refuse, Accept, Lock, Step
<1>4. ASSUME NEW d \in Delivery, Answered(d) PROVE ClaimInv' /\ AnswerInv'
  BY <1>4, QuietStep DEF Answered
<1>5. ASSUME NEW d \in Delivery, Look(d) PROVE ClaimInv' /\ AnswerInv'
  <2>1. \A x \in Delivery :
          pc'[x] = IF x = d THEN IF d[1] \in seen THEN "repeat" ELSE "mark" ELSE pc[x]
    BY <1>5 DEF Look, Step, IInv, TypeOK
  <2>2. KeepsWork
    BY <1>5, <2>1 DEF Look, Step, KeepsWork
  <2>3. ClaimInv'
    BY <1>5, <2>1 DEF Look, IInv, ClaimInv
  <2>4. AnswerInv'
    BY <1>5, <2>1, <2>2, SameWork DEF Look, IInv, AnswerInv
  <2> QED
    BY <2>3, <2>4
<1>6. ASSUME NEW d \in Delivery, Repeat(d) PROVE ClaimInv' /\ AnswerInv'
  <2>1. \A x \in Delivery : pc'[x] = IF x = d THEN "ok" ELSE pc[x]
    BY <1>6 DEF Repeat, Step, IInv, TypeOK
  <2>2. KeepsWork
    BY <1>6, <2>1 DEF Repeat, Step, KeepsWork
  <2>3. ClaimInv'
    BY <1>6, <2>1 DEF Repeat, IInv, ClaimInv
  <2>4. d[1] \in seen
    BY <1>6 DEF Repeat, Step, IInv, ClaimInv
  <2>5. AnswerInv'
    BY <1>6, <2>1, <2>2, <2>4, SameWork DEF Repeat, IInv, AnswerInv
  <2> QED
    BY <2>3, <2>5
<1>7. ASSUME NEW d \in Delivery, Mark(d) PROVE ClaimInv' /\ AnswerInv'
  <2>1. \A x \in Delivery : pc'[x] = IF x = d THEN "work" ELSE pc[x]
    BY <1>7 DEF Mark, Step, IInv, TypeOK
  <2>2. d[1] \notin seen /\ seen' = seen \cup {d[1]}
    BY <1>7 DEF Mark, Step, IInv, ClaimInv
  <2>3. \A x \in Delivery : pc[x] = "mark" => x = d
    BY <1>7 DEF Mark, Step, IInv, TypeOK
  <2>4. ClaimInv'
    BY <2>1, <2>2, <2>3 DEF IInv, ClaimInv
  <2>5. AtWork(d[1])' /\ \A e \in Event : AtWork(e) => AtWork(e)'
    BY <1>7, <2>1 DEF AtWork, Delivery, Mark, Step
  <2>6. AnswerInv'
    BY <1>7, <2>1, <2>2, <2>5 DEF Mark, IInv, AnswerInv
  <2> QED
    BY <2>4, <2>6
<1>8. ASSUME NEW d \in Delivery, Work(d) PROVE ClaimInv' /\ AnswerInv'
  <2>1. \A x \in Delivery : pc'[x] = IF x = d THEN "ok" ELSE pc[x]
    BY <1>8 DEF Work, Step, IInv, TypeOK
  <2>2. /\ \A e \in Event : worked'[e] = IF e = d[1] THEN worked[e] + 1 ELSE worked[e]
        /\ \A e \in Event : worked[e] \in Nat
    BY <1>8, <1>0 DEF Work, IInv, TypeOK
  <2>3. ClaimInv'
    BY <1>8, <2>1 DEF Work, IInv, ClaimInv
  <2>4. \A e \in Event \ {d[1]} : AtWork(e) => AtWork(e)'
    BY <2>1 DEF AtWork, Delivery
  <2>5. AnswerInv'
    BY <1>8, <1>0, <2>1, <2>2, <2>4 DEF Work, IInv, AnswerInv
  <2> QED
    BY <2>3, <2>5
<1>9. ASSUME Restart PROVE ClaimInv' /\ AnswerInv'
  <2>1. \A x \in Delivery : pc'[x] \notin {"mark", "repeat", "work"}
                           /\ (pc'[x] = "ok" => pc[x] = "ok")
    BY <1>9 DEF Restart
  <2>2. ClaimInv'
    BY <2>1 DEF ClaimInv
  <2>3. AnswerInv'
    BY <1>9, <1>0, <2>1 DEF Restart, IInv, AnswerInv
  <2> QED
    BY <2>2, <2>3
<1>10. CASE UNCHANGED vars
  BY <1>10 DEF vars, IInv, ClaimInv, AnswerInv, AtWork
<1> QED
  BY <1>1, <1>2, <1>3, <1>4, <1>5, <1>6, <1>7, <1>8, <1>9, <1>10
  DEF Next, Running

THEOREM Invariance == Spec => []IInv
<1>1. IInv /\ [Next]_vars => IInv'
  BY NextTypeOK, NextClaim DEF IInv
<1> QED
  BY <1>1, InitIInv, PTL DEF Spec

-----------------------------------------------------------------------------
(***************************************************************************)
(* The refinement of Inbox.                                                *)
(***************************************************************************)
Stage(e) == IF e \notin seen THEN "new" ELSE IF AtWork(e) THEN "claimed" ELSE "worked"

LEMMA InitInbox == Init => Inbox!Init
<1> QED
  BY DEF Init, Inbox!Init

\* A step that claims nothing, does no work and reports nothing changes
\* nothing of the promise.
LEMMA Stutter ==
  ASSUME KeepsWork, UNCHANGED <<seen, worked, interrupted, delivered>>
  PROVE  UNCHANGED Inbox!vars
<1>1. \A e \in Event : AtWork(e)' <=> AtWork(e)
  BY SameWork
<1>2. [e \in Event |-> Stage(e)]' = [e \in Event |-> Stage(e)]
  BY <1>1 DEF Stage
<1> QED
  BY <1>2 DEF Inbox!vars, Stage

LEMMA AnsweredInbox ==
  ASSUME IInv, NEW d \in Delivery, Answered(d)
  PROVE  [Inbox!Next]_(Inbox!vars)
<1>1. d[1] \in Event
  BY DEF Delivery
<1>2. /\ \A x \in Delivery : pc'[x] = IF x = d THEN "closed" ELSE pc[x]
      /\ pc[d] \in {"ok", "refused"}
      /\ UNCHANGED <<seen, worked, interrupted>>
  BY DEF Answered, handler, history, IInv, TypeOK
<1>3. KeepsWork
  BY <1>2 DEF KeepsWork
<1>4. [e \in Event |-> Stage(e)]' = [e \in Event |-> Stage(e)]
  BY <1>2, <1>3, SameWork DEF Stage
<1>5. CASE pc[d] = "ok" /\ delivered' = delivered \cup {d[1]}
  <2>1. d[1] \in seen \/ worked[d[1]] > 0 \/ d[1] \in interrupted
    BY <1>5 DEF IInv, AnswerInv
  <2>2. Stage(d[1]) # "new" \/ worked[d[1]] > 0 \/ d[1] \in interrupted
    BY <2>1 DEF Stage
  <2>3. Inbox!Acknowledge(d[1])
    BY <1>1, <1>2, <1>4, <1>5, <2>2 DEF Inbox!Acknowledge, Stage
  <2> QED
    BY <1>1, <2>3 DEF Inbox!Next
<1>6. CASE delivered' = delivered
  BY <1>2, <1>3, <1>6, Stutter
<1> QED
  BY <1>5, <1>6 DEF Answered

LEMMA MarkInbox ==
  ASSUME IInv, NEW d \in Delivery, Mark(d)
  PROVE  Inbox!Next
<1>1. d[1] \in Event
  BY DEF Delivery
<1>2. /\ \A x \in Delivery : pc'[x] = IF x = d THEN "work" ELSE pc[x]
      /\ pc[d] = "mark"
      /\ seen' = seen \cup {d[1]}
      /\ UNCHANGED <<worked, interrupted, delivered>>
  BY DEF Mark, Step, platform, history, IInv, TypeOK
<1>3. d[1] \notin seen
  BY <1>2 DEF IInv, ClaimInv
<1>4. /\ AtWork(d[1])'
      /\ \A e \in Event \ {d[1]} : AtWork(e)' <=> AtWork(e)
  <2>1. d[2] \in 1..Attempts /\ d = <<d[1], d[2]>>
    BY DEF Delivery
  <2>2. AtWork(d[1])'
    BY <1>2, <2>1 DEF AtWork
  <2>3. \A e \in Event \ {d[1]} : AtWork(e)' <=> AtWork(e)
    BY <1>2 DEF AtWork, Delivery
  <2> QED
    BY <2>2, <2>3
<1>5. [e \in Event |-> Stage(e)]' = [[e \in Event |-> Stage(e)] EXCEPT ![d[1]] = "claimed"]
  BY <1>1, <1>2, <1>3, <1>4 DEF Stage
<1>6. Stage(d[1]) = "new"
  BY <1>3 DEF Stage
<1>7. Inbox!Claim(d[1])
  BY <1>1, <1>2, <1>5, <1>6 DEF Inbox!Claim, Stage
<1> QED
  BY <1>1, <1>7 DEF Inbox!Next

LEMMA WorkInbox ==
  ASSUME IInv, NEW d \in Delivery, Work(d)
  PROVE  Inbox!Next
<1>1. d[1] \in Event
  BY DEF Delivery
<1>2. /\ \A x \in Delivery : pc'[x] = IF x = d THEN "ok" ELSE pc[x]
      /\ pc[d] = "work"
      /\ worked' = [worked EXCEPT ![d[1]] = @ + 1]
      /\ UNCHANGED <<seen, interrupted, delivered>>
  BY DEF Work, Step, platform, handler, IInv, TypeOK
<1>3. d[1] \in seen
  BY <1>2 DEF IInv, ClaimInv
<1>4. AtWork(d[1])
  BY <1>1, <1>2 DEF AtWork, Delivery
<1>5. ~AtWork(d[1])'
  <2> SUFFICES ASSUME NEW n \in 1..Attempts, pc'[<<d[1], n>>] = "work" PROVE FALSE
    BY DEF AtWork
  <2>1. <<d[1], n>> \in Delivery
    BY <1>1 DEF Delivery
  <2>2. <<d[1], n>> # d /\ pc[<<d[1], n>>] = "work"
    BY <1>2, <2>1
  <2> QED
    BY <1>2, <2>1, <2>2 DEF IInv, ClaimInv
<1>6. \A e \in Event \ {d[1]} : AtWork(e)' <=> AtWork(e)
  BY <1>2 DEF AtWork, Delivery
<1>7. [e \in Event |-> Stage(e)]' = [[e \in Event |-> Stage(e)] EXCEPT ![d[1]] = "worked"]
  BY <1>1, <1>2, <1>3, <1>5, <1>6 DEF Stage
<1>8. Stage(d[1]) = "claimed"
  BY <1>3, <1>4 DEF Stage
<1>9. Inbox!Work(d[1])
  BY <1>1, <1>2, <1>7, <1>8 DEF Inbox!Work, Stage
<1> QED
  BY <1>1, <1>9 DEF Inbox!Next

LEMMA RestartInbox == IInv /\ Restart => Inbox!Next
<1> SUFFICES ASSUME IInv, Restart PROVE Inbox!Next
  OBVIOUS
<1>1. \A e \in Event : AtWork(e) => e \in seen
  BY DEF AtWork, Delivery, IInv, ClaimInv
<1>2. {e \in Event : AtWork(e)} = {e \in Event : Stage(e) = "claimed"}
  BY <1>1 DEF Stage
<1>3. [e \in Event |-> Stage(e)]' = [e \in Event |-> "new"]
  BY DEF Restart, Stage
<1>4. Inbox!Restart
  BY <1>2, <1>3 DEF Restart, Inbox!Restart, Stage, platform
<1> QED
  BY <1>4 DEF Inbox!Next

LEMMA NextInbox == IInv /\ [Next]_vars => [Inbox!Next]_(Inbox!vars)
<1> SUFFICES ASSUME IInv, [Next]_vars PROVE [Inbox!Next]_(Inbox!vars)
  OBVIOUS
<1> USE DEF handler, history, platform
<1>1. ASSUME NEW e \in Event, Send(e) \/ GiveUp(e) PROVE UNCHANGED Inbox!vars
  BY <1>1, Stutter DEF Send, GiveUp, Step, KeepsWork, IInv, TypeOK
<1>2. ASSUME NEW d \in Delivery,
             Refuse(d) \/ Accept(d) \/ Lock(d) \/ Look(d) \/ Repeat(d)
      PROVE  UNCHANGED Inbox!vars
  BY <1>2, Stutter DEF Refuse, Accept, Lock, Look, Repeat, Step, KeepsWork, IInv, TypeOK
<1>3. CASE UNCHANGED vars
  BY <1>3, Stutter DEF vars, KeepsWork
<1> QED
  BY <1>1, <1>2, <1>3, AnsweredInbox, MarkInbox, WorkInbox, RestartInbox
  DEF Next, Running

\* The handler keeps the promise of Inbox (main.go:77, main.go:109), for any
\* number of events and overlapping attempts: claimed once and worked on at
\* most once between restarts, and acknowledged only when claimed.
THEOREM Refinement == Spec => KeepsInbox
<1> QED
  BY InitInbox, NextInbox, Invariance, PTL DEF Spec, KeepsInbox, Inbox!Spec

=============================================================================
