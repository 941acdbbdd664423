----------------------- MODULE CommandPipelineProofs -----------------------
(***************************************************************************)
(* Proofs about CommandPipeline for every number of entries, every         *)
(* assignment of client order ids and every bound on crashes and faults.   *)
(***************************************************************************)
EXTENDS CommandPipeline, TLAPS

\* What is left of a sequence is a sequence over the same set.
LEMMA HeadTailType ==
  ASSUME NEW S, NEW s \in Seq(S), s # <<>>
  PROVE  Head(s) \in S /\ Tail(s) \in Seq(S)
  OBVIOUS

LEMMA ElementType ==
  ASSUME NEW S, NEW s \in Seq(S), NEW i \in DOMAIN s
  PROVE  s[i] \in S
  OBVIOUS

\* The entry under the handler is a real one whenever the handler is busy.
LEMMA CurIsEntry ==
  ASSUME TypeOK, pc # "idle"
  PROVE  cur \in Entry
  BY PipelineAssumption DEF TypeOK, Entry

LEMMA TypeInit == Init => TypeOK
  BY PipelineAssumption DEF Init, TypeOK, Entry, LedgerStatus, Reply

LEMMA TypeRead ==
  ASSUME TypeOK, Read
  PROVE  TypeOK'
<1>1. CASE ReadPending
  <2>1. PICK n \in 1..BatchSize : \E s \in [1..n -> pel] : batch' = s
    BY <1>1 DEF ReadPending
  <2>2. pel \subseteq Entry
    BY PipelineAssumption DEF TypeOK, Entry
  <2>3. batch' \in Seq(Entry)
    BY <2>1, <2>2, PipelineAssumption
  <2> QED BY <1>1, <2>3 DEF ReadPending, TypeOK, delivery, handler, answers, history, bounds
<1>2. CASE PendingDrained
  BY <1>2 DEF PendingDrained, TypeOK, delivery, handler, answers, history, bounds
<1>3. CASE ReadNew
  <2>1. FreshCount \in Nat /\ cursor + FreshCount <= published
    BY <1>3, PipelineAssumption DEF ReadNew, FreshCount, TypeOK
  <2>2. batch' = [i \in 1..FreshCount |-> cursor + i]
    BY <1>3 DEF ReadNew, Deliver
  <2>3. batch' \in Seq(Entry)
    <3>1. \A i \in 1..FreshCount : cursor + i \in Entry
      BY <2>1, PipelineAssumption DEF TypeOK, Entry
    <3> QED BY <2>1, <2>2, <3>1
  <2>4. cursor' = cursor + FreshCount /\ pel' = pel \cup Fresh(FreshCount)
    BY <1>3 DEF ReadNew, Deliver, Delivered
  <2>5. cursor' \in Nat /\ cursor' <= published /\ pel' \subseteq 1..cursor'
    BY <2>1, <2>4 DEF TypeOK, Fresh
  <2> QED BY <1>3, <2>3, <2>5 DEF ReadNew, Deliver, TypeOK, handler, answers, history, bounds
<1>5. CASE ReadNewLost
  <2>1. FreshCount \in Nat /\ cursor + FreshCount <= published
    BY <1>5, PipelineAssumption DEF ReadNewLost, FreshCount, TypeOK
  <2>2. cursor' = cursor + FreshCount /\ pel' = pel \cup Fresh(FreshCount)
    BY <1>5 DEF ReadNewLost, Delivered
  <2>3. cursor' \in Nat /\ cursor' <= published /\ pel' \subseteq 1..cursor'
    BY <2>1, <2>2 DEF TypeOK, Fresh
  <2>4. unread' \subseteq Entry
    <3>1. Fresh(FreshCount) \subseteq Entry
      BY <2>1, PipelineAssumption DEF TypeOK, Fresh, Entry
    <3> QED BY <1>5, <3>1 DEF ReadNewLost, TypeOK
  <2> QED BY <1>5, <2>3, <2>4 DEF ReadNewLost, Fault, TypeOK, reader, handler, answers
<1>4. CASE Dispatch
  <2>1. Head(batch) \in Entry /\ Tail(batch) \in Seq(Entry)
    BY <1>4, HeadTailType DEF Dispatch, TypeOK
  <2> QED BY <1>4, <2>1, PipelineAssumption
          DEF Dispatch, TypeOK, Entry, Reply, delivery, answers, history, bounds
<1> QED BY <1>1, <1>2, <1>3, <1>4, <1>5 DEF Read

LEMMA TypeReserve ==
  ASSUME TypeOK, Reserve
  PROVE  TypeOK'
<1>0. cur \in Entry
  BY CurIsEntry DEF Reserve, ReserveFirst, ReserveDuplicateCommand, ReserveDuplicateCoid, ReserveFails
<1>1. CASE ReserveFirst
  BY <1>0, <1>1 DEF ReserveFirst, TypeOK, LedgerStatus, delivery, reader, answers, history, bounds
<1>2. CASE ReserveDuplicateCommand
  <2>1. Mirror(ledger[cur]) \in Reply
    BY DEF Mirror, Reply
  <2> QED BY <1>2, <2>1
          DEF ReserveDuplicateCommand, AnswerWith, TypeOK, delivery, reader, answers, history, bounds
<1>3. CASE ReserveDuplicateCoid
  BY <1>3 DEF ReserveDuplicateCoid, AnswerWith, TypeOK, Reply, delivery, reader, answers, history, bounds
<1>4. CASE ReserveFails
  BY <1>0, <1>4
     DEF ReserveFails, AnswerWith, Fault, TypeOK, Reply, LedgerStatus, delivery, reader, answers
<1> QED BY <1>1, <1>2, <1>3, <1>4 DEF Reserve

LEMMA TypeAct ==
  ASSUME TypeOK, Act
  PROVE  TypeOK'
<1>0. cur \in Entry
  BY CurIsEntry DEF Act, SubmitRefused, Submit
<1>1. CASE SubmitRefused
  BY <1>0, <1>1 DEF SubmitRefused, TypeOK, Reply, delivery, reader, answers, history, bounds
<1>2. CASE Submit
  <2>1. CoidOf[cur] \in Coid
    BY <1>0, PipelineAssumption
  <2>2. effects' \in Seq(Entry)
    BY <1>0, <1>2 DEF Submit, TypeOK
  <2> QED BY <1>0, <1>2, <2>1, <2>2
          DEF Submit, TypeOK, Reply, delivery, reader, answers, bounds
<1> QED BY <1>1, <1>2 DEF Act

LEMMA TypeFinish ==
  ASSUME TypeOK, Finish
  PROVE  TypeOK'
<1>0. cur \in Entry
  BY CurIsEntry DEF Finish, Mark, MarkFails, PublishAck, DropAck, Xack, XackFails
<1>1. CASE Mark
  BY <1>0, <1>1 DEF Mark, Outcome, TypeOK, LedgerStatus, delivery, reader, answers, history, bounds
<1>2. CASE MarkFails
  BY <1>2 DEF MarkFails, Fault, TypeOK, delivery, reader, answers, history
<1>3. CASE PublishAck
  <2>1. ackq' \in Seq([cmd : Entry, reply : Reply])
    BY <1>0, <1>3 DEF PublishAck, TypeOK
  <2> QED BY <1>3, <2>1 DEF PublishAck, TypeOK, delivery, reader, history, bounds
<1>4. CASE DropAck
  BY <1>4 DEF DropAck, Fault, TypeOK, delivery, reader, answers, history
<1>5. CASE Xack
  BY <1>5, PipelineAssumption DEF Xack, TypeOK, Reply, reader, answers, history, bounds
<1>6. CASE XackFails
  BY <1>6, PipelineAssumption DEF XackFails, Fault, TypeOK, Reply, delivery, reader, answers, history
<1> QED BY <1>1, <1>2, <1>3, <1>4, <1>5, <1>6 DEF Finish

LEMMA TypeWriter ==
  ASSUME TypeOK, Writer
  PROVE  TypeOK'
<1>0. /\ Head(ackq) \in [cmd : Entry, reply : Reply]
      /\ Tail(ackq) \in Seq([cmd : Entry, reply : Reply])
  BY HeadTailType DEF Writer, DeliverAck, LoseAck, TypeOK
<1>1. CASE DeliverAck
  <2>1. acks' = [acks EXCEPT ![Head(ackq).cmd] = StatusOf(Head(ackq).reply)]
    BY <1>1 DEF DeliverAck
  <2>2. StatusOf(Head(ackq).reply) \in {"accepted", "rejected"}
    BY DEF StatusOf
  <2>3. acks' \in [Entry -> {"pending", "accepted", "rejected"}]
    BY <1>0, <2>1, <2>2 DEF TypeOK
  <2> QED BY <1>0, <1>1, <2>3 DEF DeliverAck, TypeOK, delivery, reader, handler, history, bounds
<1>2. CASE LoseAck
  BY <1>0, <1>2 DEF LoseAck, Fault, TypeOK, delivery, reader, handler, history
<1> QED BY <1>1, <1>2 DEF Writer

LEMMA TypeStep == TypeOK /\ [Next]_vars => TypeOK'
<1> SUFFICES ASSUME TypeOK, [Next]_vars PROVE TypeOK'
  OBVIOUS
<1>1. CASE Publish
  BY <1>1, PipelineAssumption
     DEF Publish, TypeOK, reader, handler, answers, history, bounds
<1>2. CASE Engine
  BY <1>2, TypeRead, TypeReserve, TypeAct, TypeFinish DEF Engine
<1>3. CASE Writer
  BY <1>3, TypeWriter
<1>4. CASE Crash
  <2>1. /\ batch' \in Seq(Entry) /\ ackq' \in Seq([cmd : Entry, reply : Reply])
        /\ pc' = "idle" /\ cur' = 0 /\ reply' = "none" /\ seen' \subseteq Coid
        /\ up' = FALSE /\ crashes' = crashes + 1
    BY <1>4 DEF Crash
  <2>2. cur' \in 0..NumEntries
    BY <2>1, PipelineAssumption
  <2>5. reply' \in Reply
    BY <2>1 DEF Reply
  <2>6. up' \in BOOLEAN
    BY <2>1
  <2>3. UNCHANGED <<published, cursor, pel, ledger, mode, acks, effects,
                    failedClosed, unread, faults>>
    BY <1>4 DEF Crash, delivery, history
  <2>4. crashes' \in Nat
    BY <2>1 DEF TypeOK
  <2> QED BY <2>1, <2>2, <2>3, <2>4, <2>5, <2>6 DEF TypeOK
<1>5. CASE Restart
  BY <1>5 DEF Restart, TypeOK, delivery, handler, answers, history, bounds
<1>6. CASE UNCHANGED vars
  BY <1>6 DEF vars, TypeOK
<1> QED BY <1>1, <1>2, <1>3, <1>4, <1>5, <1>6 DEF Next

\* Every variable stays in its range, for all values of the constants.
THEOREM TypeCorrect == Spec => []TypeOK
<1>1. Init => TypeOK
  BY TypeInit
<1>2. TypeOK /\ [Next]_vars => TypeOK'
  BY TypeStep
<1> QED BY <1>1, <1>2, PTL DEF Spec

-----------------------------------------------------------------------------
(* The inductive invariant behind at-most-once: a command is applied only    *)
(* after its row was committed, and rows are unique per order id.            *)

\* Whatever was applied has a ledger row.
AppliedHasRow == \A e \in Applied : ledger[e] # "absent"

\* The unique index on client_order_id.
OneRowPerCoid ==
    \A d, e \in Creating :
        (d # e /\ ledger[d] # "absent" /\ ledger[e] # "absent")
            => CoidOf[d] # CoidOf[e]

\* The in-memory guard remembers only orders that were applied.
SeenWasApplied == \A k \in seen : \E e \in Creating \cap Applied : CoidOf[e] = k

\* What the handler knows of its entry at each of its awaits.
HandlerKnows ==
    /\ pc = "submit" => ledger[cur] = "RESERVED" /\ cur \notin Applied
    /\ pc = "mark" => /\ ledger[cur] = "RESERVED"
                      /\ (reply \in OkReply) <=> (cur \in Applied)
    /\ (pc = "ack" /\ reply \in OkReply) => cur \in Applied

\* An ok on its way to the api is about a command that was applied.
QueuedOkWasApplied ==
    \A i \in DOMAIN ackq : ackq[i].reply \in OkReply => ackq[i].cmd \in Applied

IInv ==
    /\ TypeOK
    /\ AtMostOnce
    /\ LedgerTellsTruth
    /\ AcceptedWasApplied
    /\ AppliedHasRow
    /\ OneRowPerCoid
    /\ SeenWasApplied
    /\ HandlerKnows
    /\ QueuedOkWasApplied

\* The parts of IInv that speak only of the ledger and of what was applied.
Books == AtMostOnce /\ LedgerTellsTruth /\ AppliedHasRow /\ OneRowPerCoid

LEMMA AppliedSame == UNCHANGED effects => Applied' = Applied
  BY DEF Applied

LEMMA AppliedGrows ==
  ASSUME TypeOK, NEW r \in Entry, effects' = Append(effects, r)
  PROVE  /\ Applied' = Applied \cup {r}
         /\ DOMAIN effects' = DOMAIN effects \cup {Len(effects) + 1}
         /\ \A i \in DOMAIN effects : effects'[i] = effects[i]
         /\ effects'[Len(effects) + 1] = r
<1>1. effects \in Seq(Entry)
  BY DEF TypeOK
<1>2. DOMAIN effects = 1..Len(effects) /\ Len(effects) \in Nat
  BY <1>1
<1>3. DOMAIN effects' = DOMAIN effects \cup {Len(effects) + 1}
  BY <1>1, <1>2
<1>4. \A i \in DOMAIN effects : effects'[i] = effects[i]
  BY <1>1, <1>2
<1>5. effects'[Len(effects) + 1] = r
  BY <1>1
<1> QED BY <1>3, <1>4, <1>5 DEF Applied

LEMMA AppliedAreEntries == TypeOK => Applied \subseteq Entry
<1> SUFFICES ASSUME TypeOK, NEW i \in DOMAIN effects PROVE effects[i] \in Entry
  BY DEF Applied
<1>1. effects \in Seq(Entry)
  BY DEF TypeOK
<1> QED BY <1>1, ElementType

\* A step that leaves ledger and effects alone keeps the books.
LEMMA BooksSame == Books /\ UNCHANGED <<ledger, effects>> => Books'
  BY AppliedSame DEF Books, AtMostOnce, LedgerTellsTruth, AppliedHasRow, OneRowPerCoid

LEMMA IInvInit == Init => IInv
<1> SUFFICES ASSUME Init PROVE IInv
  OBVIOUS
<1>1. TypeOK
  BY TypeInit
<1>2. effects = <<>> /\ DOMAIN effects = {} /\ Applied = {}
  BY DEF Init, Applied
<1>3. \A e \in Entry : ledger[e] = "absent" /\ acks[e] = "pending"
  BY DEF Init
<1>4. AtMostOnce /\ LedgerTellsTruth /\ AcceptedWasApplied /\ AppliedHasRow
  BY <1>2, <1>3 DEF AtMostOnce, LedgerTellsTruth, AcceptedWasApplied, AppliedHasRow
<1>5. OneRowPerCoid
  BY <1>3, PipelineAssumption DEF OneRowPerCoid
<1>6. SeenWasApplied /\ QueuedOkWasApplied
  BY DEF Init, SeenWasApplied, QueuedOkWasApplied
<1>7. HandlerKnows
  BY DEF Init, HandlerKnows
<1> QED BY <1>1, <1>4, <1>5, <1>6, <1>7 DEF IInv

LEMMA IInvReserve ==
  ASSUME IInv, Reserve, TypeOK'
  PROVE  IInv'
<1> USE DEF IInv
<1>0. cur \in Entry /\ Applied \subseteq Entry
  BY CurIsEntry, AppliedAreEntries
     DEF Reserve, ReserveFirst, ReserveDuplicateCommand, ReserveDuplicateCoid, ReserveFails
<1>1. Applied' = Applied /\ UNCHANGED <<effects, seen, ackq, acks, cur>>
  BY AppliedSame DEF Reserve, ReserveFirst, ReserveDuplicateCommand, ReserveDuplicateCoid,
     ReserveFails, AnswerWith, history, answers
<1>2. AtMostOnce' /\ AcceptedWasApplied' /\ SeenWasApplied' /\ QueuedOkWasApplied'
  BY <1>1 DEF AtMostOnce, AcceptedWasApplied, SeenWasApplied, QueuedOkWasApplied
<1>3. ASSUME ledger[cur] = "absent", ~CoidTaken(cur),
             ledger' = [ledger EXCEPT ![cur] = "RESERVED"]
      PROVE  LedgerTellsTruth' /\ AppliedHasRow' /\ OneRowPerCoid'
  <2>1. ledger \in [Entry -> LedgerStatus]
    BY DEF TypeOK
  <2>2. ledger'[cur] = "RESERVED" /\ \A e \in Entry \ {cur} : ledger'[e] = ledger[e]
    BY <1>0, <1>3, <2>1
  <2>3. LedgerTellsTruth' /\ AppliedHasRow'
    BY <1>0, <1>1, <2>2 DEF LedgerTellsTruth, AppliedHasRow
  <2>4. OneRowPerCoid'
    <3>1. Creating \subseteq Entry
      BY PipelineAssumption
    <3> QED BY <1>3, <2>2, <3>1 DEF OneRowPerCoid, CoidTaken
  <2> QED BY <2>3, <2>4
<1>4. ASSUME ledger' = ledger
      PROVE  LedgerTellsTruth' /\ AppliedHasRow' /\ OneRowPerCoid'
  BY <1>1, <1>4 DEF LedgerTellsTruth, AppliedHasRow, OneRowPerCoid
<1>5. CASE ReserveFirst
  <2>1. pc' = "submit" /\ ledger'[cur] = "RESERVED" /\ cur \notin Applied
    BY <1>0, <1>5 DEF ReserveFirst, TypeOK, AppliedHasRow
  <2>2. HandlerKnows'
    BY <1>1, <2>1 DEF HandlerKnows
  <2> QED BY <1>2, <1>3, <1>5, <2>2 DEF ReserveFirst
<1>6. CASE ReserveDuplicateCommand
  <2>1. ledger' = ledger /\ pc' = "ack" /\ reply' = Mirror(ledger[cur])
    BY <1>6 DEF ReserveDuplicateCommand, AnswerWith
  <2>2. reply' \in OkReply => ledger[cur] = "DONE"
    BY <2>1 DEF Mirror, OkReply
  <2>3. HandlerKnows'
    BY <1>0, <1>1, <2>1, <2>2 DEF HandlerKnows, LedgerTellsTruth
  <2> QED BY <1>2, <1>4, <2>1, <2>3
<1>7. CASE ReserveDuplicateCoid
  <2>1. ledger' = ledger /\ pc' = "ack" /\ reply' = "dup_coid"
    BY <1>7 DEF ReserveDuplicateCoid, AnswerWith
  <2>2. HandlerKnows'
    BY <2>1 DEF HandlerKnows, OkReply
  <2> QED BY <1>2, <1>4, <2>1, <2>2
<1>8. CASE ReserveFails
  <2>1. pc' = "ack" /\ reply' = "ledger_down"
    BY <1>8 DEF ReserveFails, AnswerWith
  <2>2. HandlerKnows'
    BY <2>1 DEF HandlerKnows, OkReply
  <2>3. LedgerTellsTruth' /\ AppliedHasRow' /\ OneRowPerCoid'
    BY <1>3, <1>4, <1>8 DEF ReserveFails
  <2> QED BY <1>2, <2>2, <2>3
<1> QED BY <1>5, <1>6, <1>7, <1>8 DEF Reserve

\* The ledger has already turned away any command the in-memory guard would.
LEMMA GuardIsSpare ==
  ASSUME IInv, pc = "submit"
  PROVE  ~AlreadySeen
<1> SUFFICES ASSUME AlreadySeen PROVE FALSE
  OBVIOUS
<1>1. cur \in Creating /\ CoidOf[cur] \in seen
  BY DEF AlreadySeen
<1>2. PICK e \in Creating \cap Applied : CoidOf[e] = CoidOf[cur]
  BY <1>1 DEF IInv, SeenWasApplied
<1>3. ledger[e] # "absent" /\ ledger[cur] # "absent" /\ e # cur
  BY <1>1, <1>2 DEF IInv, AppliedHasRow, HandlerKnows
<1> QED BY <1>1, <1>2, <1>3 DEF IInv, OneRowPerCoid

LEMMA IInvSubmit ==
  ASSUME IInv, Submit, TypeOK'
  PROVE  IInv'
<1> USE DEF IInv
<1>0. /\ cur \in Entry /\ Applied \subseteq Entry
      /\ ledger[cur] = "RESERVED" /\ cur \notin Applied
  BY CurIsEntry, AppliedAreEntries DEF Submit, HandlerKnows
<1>1. /\ UNCHANGED <<ledger, acks, ackq, cur>> /\ pc' = "mark" /\ reply' = "ok"
  BY DEF Submit, answers
<1>2. effects' = Append(effects, cur)
  BY GuardIsSpare DEF Submit
<1>3. /\ Applied' = Applied \cup {cur}
      /\ DOMAIN effects' = DOMAIN effects \cup {Len(effects) + 1}
      /\ \A i \in DOMAIN effects : effects'[i] = effects[i]
      /\ effects'[Len(effects) + 1] = cur
  BY <1>0, <1>2, AppliedGrows
<1>4. \A e \in Applied :
         e # cur /\ ({e, cur} \subseteq Creating => CoidOf[e] # CoidOf[cur])
  BY <1>0 DEF AppliedHasRow, OneRowPerCoid
<1>5. \A i \in DOMAIN effects : effects[i] \in Applied
  BY DEF Applied
<1>6. AtMostOnce'
  <2> SUFFICES ASSUME NEW i \in DOMAIN effects', NEW j \in DOMAIN effects', i # j
               PROVE  /\ effects'[i] # effects'[j]
                      /\ {effects'[i], effects'[j]} \subseteq Creating
                           => CoidOf[effects'[i]] # CoidOf[effects'[j]]
    BY DEF AtMostOnce
  <2>1. CASE i \in DOMAIN effects /\ j \in DOMAIN effects
    BY <1>3, <2>1 DEF AtMostOnce
  <2>2. CASE i \in DOMAIN effects /\ j = Len(effects) + 1
    BY <1>3, <1>4, <1>5, <2>2
  <2>3. CASE i = Len(effects) + 1 /\ j \in DOMAIN effects
    BY <1>3, <1>4, <1>5, <2>3
  <2> QED BY <1>3, <2>1, <2>2, <2>3
<1>7. LedgerTellsTruth' /\ AppliedHasRow' /\ OneRowPerCoid'
  BY <1>0, <1>1, <1>3 DEF LedgerTellsTruth, AppliedHasRow, OneRowPerCoid
<1>8. AcceptedWasApplied' /\ QueuedOkWasApplied'
  BY <1>1, <1>3 DEF AcceptedWasApplied, QueuedOkWasApplied
<1>9. SeenWasApplied'
  <2>1. seen' = IF cur \in Creating THEN seen \cup {CoidOf[cur]} ELSE seen
    BY DEF Submit
  <2> QED BY <1>3, <2>1 DEF SeenWasApplied
<1>10. HandlerKnows'
  BY <1>0, <1>1, <1>3 DEF HandlerKnows, OkReply
<1> QED BY <1>6, <1>7, <1>8, <1>9, <1>10

LEMMA IInvAct ==
  ASSUME IInv, Act, TypeOK'
  PROVE  IInv'
<1> USE DEF IInv
<1>0. cur \in Entry /\ Applied \subseteq Entry
  BY CurIsEntry, AppliedAreEntries DEF Act, SubmitRefused, Submit
<1>1. CASE Submit
  BY <1>1, IInvSubmit
<1>2. CASE SubmitRefused
  <2>1. /\ UNCHANGED <<ledger, effects, seen, acks, ackq, cur>>
        /\ pc' = "mark" /\ reply' = "refused" /\ pc = "submit"
    BY <1>2 DEF SubmitRefused, answers, history
  <2>2. Books' /\ Applied' = Applied
    BY <2>1, BooksSame, AppliedSame DEF Books
  <2>3. HandlerKnows'
    BY <2>1, <2>2 DEF HandlerKnows, OkReply
  <2>4. AcceptedWasApplied' /\ SeenWasApplied' /\ QueuedOkWasApplied'
    BY <2>1, <2>2 DEF AcceptedWasApplied, SeenWasApplied, QueuedOkWasApplied
  <2> QED BY <2>2, <2>3, <2>4 DEF Books
<1> QED BY <1>1, <1>2 DEF Act

LEMMA IInvFinish ==
  ASSUME IInv, Finish, TypeOK'
  PROVE  IInv'
<1> USE DEF IInv
<1>0. cur \in Entry /\ Applied \subseteq Entry
  BY CurIsEntry, AppliedAreEntries DEF Finish, Mark, MarkFails, PublishAck, DropAck, Xack, XackFails
<1>1. UNCHANGED <<effects, seen, acks>> /\ Applied' = Applied
  BY AppliedSame DEF Finish, Mark, MarkFails, PublishAck, DropAck, Xack, XackFails, answers, history
<1>2. AcceptedWasApplied' /\ SeenWasApplied'
  BY <1>1 DEF AcceptedWasApplied, SeenWasApplied
<1>3. CASE Mark
  <2>1. /\ ledger' = [ledger EXCEPT ![cur] = Outcome(reply)] /\ pc' = "ack"
        /\ UNCHANGED <<cur, reply, ackq>> /\ pc = "mark"
    BY <1>3 DEF Mark, answers
  <2>2. /\ ledger'[cur] = Outcome(reply)
        /\ \A e \in Entry \ {cur} : ledger'[e] = ledger[e]
    BY <1>0, <2>1 DEF TypeOK
  <2>3. LedgerTellsTruth' /\ AppliedHasRow'
    BY <1>0, <1>1, <2>1, <2>2
       DEF LedgerTellsTruth, AppliedHasRow, HandlerKnows, Outcome
  <2>4. OneRowPerCoid'
    <3>1. \A e \in Entry : ledger'[e] # "absent" <=> ledger[e] # "absent"
      BY <2>1, <2>2 DEF HandlerKnows, Outcome
    <3> QED BY <3>1, PipelineAssumption DEF OneRowPerCoid
  <2>5. AtMostOnce' /\ QueuedOkWasApplied'
    BY <1>1, <2>1 DEF AtMostOnce, QueuedOkWasApplied
  <2>6. HandlerKnows'
    BY <1>1, <2>1 DEF HandlerKnows
  <2> QED BY <1>2, <2>3, <2>4, <2>5, <2>6
<1>4. CASE PublishAck
  <2>1. /\ ackq' = Append(ackq, [cmd |-> cur, reply |-> reply]) /\ pc' = "xack"
        /\ UNCHANGED ledger /\ pc = "ack"
    BY <1>4 DEF PublishAck
  <2>2. Books'
    BY <1>1, <2>1, BooksSame DEF Books
  <2>3. QueuedOkWasApplied'
    <3>1. ackq \in Seq([cmd : Entry, reply : Reply])
      BY DEF TypeOK
    <3>2. /\ DOMAIN ackq' = DOMAIN ackq \cup {Len(ackq) + 1}
          /\ \A i \in DOMAIN ackq : ackq'[i] = ackq[i]
          /\ ackq'[Len(ackq) + 1] = [cmd |-> cur, reply |-> reply]
      BY <2>1, <3>1
    <3> QED BY <1>1, <2>1, <3>2 DEF QueuedOkWasApplied, HandlerKnows
  <2>4. HandlerKnows'
    BY <2>1 DEF HandlerKnows
  <2> QED BY <1>2, <2>2, <2>3, <2>4 DEF Books
<1>5. CASE MarkFails \/ DropAck \/ Xack \/ XackFails
  <2>1. UNCHANGED <<ledger, ackq>>
    BY <1>5 DEF MarkFails, DropAck, Xack, XackFails, answers
  <2>2. Books' /\ QueuedOkWasApplied'
    BY <1>1, <2>1, BooksSame DEF Books, QueuedOkWasApplied
  <2>3. HandlerKnows'
    BY <1>1, <1>5 DEF MarkFails, DropAck, Xack, XackFails, HandlerKnows
  <2> QED BY <1>2, <2>2, <2>3 DEF Books
<1> QED BY <1>3, <1>4, <1>5 DEF Finish

LEMMA IInvWriter ==
  ASSUME IInv, Writer, TypeOK'
  PROVE  IInv'
<1> USE DEF IInv
<1>1. /\ UNCHANGED <<ledger, effects, seen, pc, cur, reply>>
      /\ ackq # <<>> /\ ackq' = Tail(ackq)
  BY DEF Writer, DeliverAck, LoseAck, handler, history
<1>2. Books' /\ Applied' = Applied
  BY <1>1, BooksSame, AppliedSame DEF Books
<1>3. SeenWasApplied' /\ HandlerKnows'
  BY <1>1, <1>2 DEF SeenWasApplied, HandlerKnows
<1>4. QueuedOkWasApplied'
  <2>1. ackq \in Seq([cmd : Entry, reply : Reply])
    BY DEF TypeOK
  <2>2. \A i \in DOMAIN Tail(ackq) : i + 1 \in DOMAIN ackq /\ Tail(ackq)[i] = ackq[i + 1]
    BY <1>1, <2>1
  <2> QED BY <1>1, <1>2, <2>2 DEF QueuedOkWasApplied
<1>5. AcceptedWasApplied'
  <2>1. CASE DeliverAck
    <3>1. ackq \in Seq([cmd : Entry, reply : Reply])
      BY DEF TypeOK
    <3>2. 1 \in DOMAIN ackq /\ Head(ackq) = ackq[1]
      BY <1>1, <3>1
    <3>3. acks' = [acks EXCEPT ![Head(ackq).cmd] = StatusOf(Head(ackq).reply)]
      BY <2>1 DEF DeliverAck
    <3>4. StatusOf(Head(ackq).reply) = "accepted" => Head(ackq).cmd \in Applied
      BY <3>2 DEF StatusOf, QueuedOkWasApplied
    <3>5. acks \in [Entry -> {"pending", "accepted", "rejected"}]
      BY DEF TypeOK
    <3> QED BY <1>2, <3>3, <3>4, <3>5 DEF AcceptedWasApplied
  <2>2. CASE LoseAck
    BY <1>2, <2>2 DEF LoseAck, AcceptedWasApplied
  <2> QED BY <2>1, <2>2 DEF Writer
<1> QED BY <1>2, <1>3, <1>4, <1>5 DEF Books

\* The remaining steps touch neither the ledger nor what was applied.
LEMMA IInvElse ==
  ASSUME IInv, TypeOK',
         Publish \/ Read \/ Crash \/ Restart \/ UNCHANGED vars
  PROVE  IInv'
<1> USE DEF IInv
<1>1. UNCHANGED <<ledger, effects, acks>>
  BY DEF Publish, Read, ReadPending, PendingDrained, ReadNew, Deliver, ReadNewLost, Dispatch,
         Crash, Restart, answers, history, vars
<1>2. Books' /\ Applied' = Applied /\ AcceptedWasApplied'
  BY <1>1, BooksSame, AppliedSame DEF Books, AcceptedWasApplied
<1>3. UNCHANGED ackq \/ ackq' = <<>>
  BY DEF Publish, Read, ReadPending, PendingDrained, ReadNew, Deliver, ReadNewLost, Dispatch,
         Crash, Restart, answers, vars
<1>4. QueuedOkWasApplied'
  BY <1>2, <1>3 DEF QueuedOkWasApplied
<1>5. UNCHANGED seen \/ seen' = {}
  BY DEF Publish, Read, ReadPending, PendingDrained, ReadNew, Deliver, ReadNewLost, Dispatch,
         Crash, Restart, vars
<1>6. SeenWasApplied'
  BY <1>2, <1>5 DEF SeenWasApplied
<1>7. UNCHANGED handler \/ pc' \in {"idle", "reserve"}
  BY DEF Publish, Read, ReadPending, PendingDrained, ReadNew, Deliver, ReadNewLost, Dispatch,
         Crash, Restart, handler, vars
<1>8. HandlerKnows'
  BY <1>1, <1>2, <1>7 DEF HandlerKnows, handler
<1> QED BY <1>2, <1>4, <1>6, <1>8 DEF Books

LEMMA IInvStep == IInv /\ [Next]_vars => IInv'
<1> SUFFICES ASSUME IInv, [Next]_vars PROVE IInv'
  OBVIOUS
<1>1. TypeOK'
  BY TypeStep DEF IInv
<1> QED BY <1>1, IInvReserve, IInvAct, IInvFinish, IInvWriter, IInvElse DEF Next, Engine

LEMMA Invariance == Spec => []IInv
<1>1. Init => IInv
  BY IInvInit
<1>2. IInv /\ [Next]_vars => IInv'
  BY IInvStep
<1> QED BY <1>1, <1>2, PTL DEF Spec

\* Redelivery, crashes, lost XACKs and ledger timeouts never apply a command
\* twice, nor an order id under two commands.
THEOREM AppliedAtMostOnce == Spec => []AtMostOnce
<1>1. IInv => AtMostOnce
  BY DEF IInv
<1> QED BY <1>1, Invariance, PTL

\* A terminal ledger row is true of what the engine did.
THEOREM LedgerIsTruthful == Spec => []LedgerTellsTruth
<1>1. IInv => LedgerTellsTruth
  BY DEF IInv
<1> QED BY <1>1, Invariance, PTL

\* The api never reports accepted for a command that was not applied.
THEOREM AcceptedIsTrue == Spec => []AcceptedWasApplied
<1>1. IInv => AcceptedWasApplied
  BY DEF IInv
<1> QED BY <1>1, Invariance, PTL

-----------------------------------------------------------------------------
(* The pipeline implements OrderOnce.                                        *)

LEMMA OnceInit == Init => Once!Init
<1> SUFFICES ASSUME Init PROVE Once!Init
  OBVIOUS
<1>1. effects = <<>> /\ acks = [e \in Entry |-> "pending"]
  BY DEF Init
<1> QED BY <1>1 DEF Once!Init

LEMMA OnceStep ==
  ASSUME IInv, [Next]_vars
  PROVE  [Once!Next]_<<effects, acks>>
<1>0. TypeOK
  BY DEF IInv
<1>1. CASE Submit
  <2>1. /\ cur \in Entry /\ cur \notin Applied /\ ledger[cur] = "RESERVED"
    BY <1>0, <1>1, CurIsEntry DEF Submit, IInv, HandlerKnows
  <2>2. PICK c \in Entry : c = cur
    BY <2>1
  <2>3. ~Once!Taken(c)
    <3> SUFFICES ASSUME NEW i \in DOMAIN effects
                 PROVE  /\ effects[i] # c
                        /\ {effects[i], c} \subseteq Creating
                             => CoidOf[effects[i]] # CoidOf[c]
      BY DEF Once!Taken
    <3>1. effects[i] \in Applied
      BY DEF Applied
    <3> QED BY <2>1, <2>2, <3>1 DEF IInv, AppliedHasRow, OneRowPerCoid
  <2>4. effects' = Append(effects, c)
    BY <1>1, <2>2, GuardIsSpare DEF Submit
  <2>5. UNCHANGED acks
    BY <1>1 DEF Submit, answers
  <2>6. Once!Apply(c)
    BY <2>3, <2>4, <2>5 DEF Once!Apply
  <2> QED BY <2>6 DEF Once!Next
<1>2. CASE DeliverAck
  <2> DEFINE a == Head(ackq)
  <2>1. /\ acks' = [acks EXCEPT ![a.cmd] = StatusOf(a.reply)]
        /\ UNCHANGED effects /\ ackq # <<>>
    BY <1>2 DEF DeliverAck, history
  <2>2. ackq \in Seq([cmd : Entry, reply : Reply])
    BY <1>0 DEF TypeOK
  <2>3. /\ a \in [cmd : Entry, reply : Reply]
        /\ 1 \in DOMAIN ackq /\ a = ackq[1]
    <3>1. a \in [cmd : Entry, reply : Reply]
      BY <2>1, <2>2, HeadTailType
    <3>2. 1 \in DOMAIN ackq /\ a = ackq[1]
      BY <2>1, <2>2
    <3> QED BY <3>1, <3>2
  <2>4. CASE StatusOf(a.reply) = "accepted"
    <3>1. a.cmd \in Applied
      BY <2>3, <2>4 DEF IInv, QueuedOkWasApplied, StatusOf
    <3>2. Once!Accept(a.cmd)
      BY <2>1, <2>4, <3>1 DEF Once!Accept, Applied
    <3> QED BY <2>3, <3>2 DEF Once!Next
  <2>5. CASE StatusOf(a.reply) = "rejected"
    <3>1. Once!Reject(a.cmd)
      BY <2>1, <2>5 DEF Once!Reject
    <3> QED BY <2>3, <3>1 DEF Once!Next
  <2> QED BY <2>4, <2>5 DEF StatusOf
<1>3. CASE ~Submit /\ ~DeliverAck
  <2>1. UNCHANGED <<effects, acks>>
    BY <1>3
       DEF Next, Engine, Read, Reserve, Act, Finish, Writer, Publish, Crash, Restart,
           ReadPending, PendingDrained, ReadNew, Deliver, ReadNewLost, Dispatch, ReserveFirst,
           ReserveDuplicateCommand, ReserveDuplicateCoid, ReserveFails, SubmitRefused,
           Mark, MarkFails, PublishAck, DropAck, Xack, XackFails, LoseAck,
           answers, history, vars
  <2> QED BY <2>1
<1> QED BY <1>1, <1>2, <1>3

\* The pipeline, its redeliveries, crashes and faults included, implements the
\* at-most-once contract of OrderOnce.
THEOREM PipelineImplementsOnce == Spec => ImplementsOnce
<1>1. Init => Once!Init
  BY OnceInit
<1>2. IInv /\ [Next]_vars => [Once!Next]_<<effects, acks>>
  BY OnceStep
<1>3. Spec => []IInv
  BY Invariance
<1> QED BY <1>1, <1>2, <1>3, PTL DEF Spec, ImplementsOnce, Once!Spec
-----------------------------------------------------------------------------
(* Stream order.                                                             *)

\* The entries that may come late: the reserve failed, or the reader never saw them.
Late == failedClosed \cup unread

\* An entry is settled when no first submit of it to come has to be in order: it
\* has a row, its order id is taken, or it may come late.
Settled(e) == ledger[e] # "absent" \/ CoidTaken(e) \/ e \in Late

InHand(e) == pc = "reserve" /\ cur = e
InBatch(e) == \E j \in DOMAIN batch : batch[j] = e

\* Whoever has a row, or is about to ask for one, has only settled entries
\* before it.
RowsInOrder ==
    \A f \in Entry : ledger[f] # "absent" \/ InHand(f) => \A e \in Entry : e < f => Settled(e)

\* A first submit has no row after it.
SubmitInOrder ==
    pc = "submit" /\ cur \notin Late => \A f \in Entry : f > cur => ledger[f] = "absent"

HandledIsSettled == pc \notin {"idle", "reserve"} => Settled(cur)

\* What was delivered is settled or pending, and what is new is settled or in the
\* batch once the pending list has been drained; what a lost reply would have
\* brought is settled, for it may come late.
LeftIsPending == \A e \in 1..cursor : Settled(e) \/ e \in pel
NewIsInBatch == up /\ mode = "new" => \A e \in 1..cursor : Settled(e) \/ InHand(e) \/ InBatch(e)

BatchInOrder ==
    \A i \in DOMAIN batch : \A e \in Entry : e < batch[i] =>
        Settled(e) \/ InHand(e) \/ \E j \in DOMAIN batch : j < i /\ batch[j] = e

DownIsIdle == ~up => pc = "idle" /\ batch = <<>>

StreamOrder ==
    /\ RowsInOrder /\ SubmitInOrder /\ HandledIsSettled
    /\ LeftIsPending /\ NewIsInBatch /\ BatchInOrder /\ DownIsIdle

Orderly == TypeOK /\ StreamOrder

\* No row is deleted, and no failure or lost reply forgotten.
LEMMA RowsStay ==
  ASSUME TypeOK, [Next]_vars
  PROVE  /\ \A e \in Entry : ledger[e] # "absent" => ledger'[e] # "absent"
         /\ Late \subseteq Late'
<1> SUFFICES /\ \A e \in Entry : ledger[e] # "absent" => ledger'[e] # "absent"
             /\ failedClosed \subseteq failedClosed' /\ unread \subseteq unread'
  BY DEF Late
<1>0. ledger \in [Entry -> LedgerStatus]
  BY DEF TypeOK
<1>1. CASE Reserve
  BY <1>0, <1>1 DEF Reserve, ReserveFirst, ReserveDuplicateCommand, ReserveDuplicateCoid,
     ReserveFails, AnswerWith, history
<1>2. CASE Finish
  BY <1>0, <1>2 DEF Finish, Mark, MarkFails, PublishAck, DropAck, Xack, XackFails, Outcome, history
<1>3. CASE ~Reserve /\ ~Finish
  <2>1. UNCHANGED <<ledger, failedClosed>> /\ unread \subseteq unread'
    BY <1>3 DEF Next, Publish, Engine, Read, ReadPending, PendingDrained, ReadNew, Deliver, ReadNewLost, Dispatch,
       Act, SubmitRefused, Submit, Writer, DeliverAck, LoseAck, Crash, Restart, vars, history
  <2> QED BY <2>1
<1> QED BY <1>1, <1>2, <1>3

LEMMA SettledStays ==
  ASSUME TypeOK, [Next]_vars, NEW e \in Entry, Settled(e)
  PROVE  Settled(e)'
<1>1. Creating \subseteq Entry
  BY PipelineAssumption
<1>2. /\ \A d \in Entry : ledger[d] # "absent" => ledger'[d] # "absent"
      /\ Late \subseteq Late'
  BY RowsStay
<1>3. CoidTaken(e) => CoidTaken(e)'
  BY <1>1, <1>2 DEF CoidTaken
<1> QED BY <1>2, <1>3 DEF Settled

LEMMA OrderSame ==
  ASSUME StreamOrder, UNCHANGED <<ledger, failedClosed, unread, cursor, pel, batch, pc, cur, up, mode>>
  PROVE  StreamOrder'
<1>1. \A e : Settled(e)' = Settled(e) /\ InHand(e)' = InHand(e) /\ InBatch(e)' = InBatch(e)
  BY DEF Settled, Late, CoidTaken, InHand, InBatch
<1>2. Late' = Late
  BY DEF Late
<1> QED BY <1>1, <1>2 DEF StreamOrder, RowsInOrder, SubmitInOrder, HandledIsSettled, LeftIsPending,
        NewIsInBatch, BatchInOrder, DownIsIdle

\* The parts about rows do not look at the batch.
LEMMA OrderReads ==
  ASSUME Orderly, [Next]_vars, UNCHANGED <<ledger, failedClosed, unread, pc, cur>>, pc = "idle"
  PROVE  /\ RowsInOrder' /\ SubmitInOrder' /\ HandledIsSettled'
         /\ \A e : Settled(e)' = Settled(e) /\ ~InHand(e) /\ ~InHand(e)'
<1>1. \A e : Settled(e)' = Settled(e) /\ ~InHand(e) /\ ~InHand(e)'
  BY DEF Settled, Late, CoidTaken, InHand
<1>2. RowsInOrder'
  BY <1>1 DEF Orderly, StreamOrder, RowsInOrder
<1> QED BY <1>1, <1>2 DEF SubmitInOrder, HandledIsSettled

LEMMA OrderReadPending ==
  ASSUME Orderly, [Next]_vars, ReadPending
  PROVE  StreamOrder'
<1>0. /\ UNCHANGED <<ledger, failedClosed, unread, pc, cur, cursor, pel, up, mode>>
      /\ pc = "idle" /\ up /\ mode = "pending"
  BY DEF ReadPending, Reading, delivery, handler, history
<1>1. /\ RowsInOrder' /\ SubmitInOrder' /\ HandledIsSettled'
      /\ \A e : Settled(e)' = Settled(e) /\ ~InHand(e) /\ ~InHand(e)'
  BY <1>0, OrderReads
<1>2. LeftIsPending' /\ NewIsInBatch' /\ DownIsIdle'
  BY <1>0, <1>1 DEF Orderly, StreamOrder, LeftIsPending, NewIsInBatch, DownIsIdle
<1>3. PICK n \in 1..BatchSize : \E s \in [1..n -> pel] : FirstOf(pel, s) /\ batch' = s
  BY DEF ReadPending
<1>4. PICK s \in [1..n -> pel] : FirstOf(pel, s) /\ batch' = s
  BY <1>3
<1>5. n \in Nat /\ DOMAIN s = 1..n /\ pel \subseteq 1..cursor /\ cursor \in Nat /\ cursor <= NumEntries
  BY PipelineAssumption DEF Orderly, TypeOK
<1>6. BatchInOrder'
  <2> SUFFICES ASSUME NEW i \in 1..n, NEW e \in Entry, e < s[i], ~Settled(e)
               PROVE  \E j \in 1..n : j < i /\ s[j] = e
    BY <1>1, <1>4, <1>5 DEF BatchInOrder
  <2>1. s[i] \in 1..cursor
    BY <1>5
  <2>2. e \in 1..cursor
    BY <1>5, <2>1, PipelineAssumption DEF Entry
  <2>3. e \in pel
    BY <2>2 DEF Orderly, StreamOrder, LeftIsPending
  <2>4. PICK j \in 1..n : s[j] = e
    BY <1>4, <1>5, <2>3 DEF FirstOf
  <2>5. i \in Nat /\ j \in Nat /\ s[j] < s[i] /\ s[i] \in Nat /\ s[j] \in Nat
    BY <1>5, <2>1, <2>2, <2>4
  <2>6. \A p, q \in 1..n : p < q => s[p] < s[q]
    BY <1>4, <1>5 DEF FirstOf
  <2>7. ~(i < j) /\ i # j
    BY <2>5, <2>6
  <2> QED BY <2>4, <2>5, <2>7
<1> QED BY <1>1, <1>2, <1>6 DEF StreamOrder

LEMMA OrderReadNew ==
  ASSUME Orderly, [Next]_vars, ReadNew
  PROVE  StreamOrder'
<1>0. /\ UNCHANGED <<ledger, failedClosed, unread, pc, cur, up, mode>>
      /\ pc = "idle" /\ up /\ mode = "new" /\ batch = <<>> /\ DOMAIN batch = {}
  BY DEF ReadNew, Deliver, Reading, handler, history
<1>1. /\ RowsInOrder' /\ SubmitInOrder' /\ HandledIsSettled'
      /\ \A e : Settled(e)' = Settled(e) /\ ~InHand(e) /\ ~InHand(e)'
  BY <1>0, OrderReads
<1> DEFINE n == FreshCount
<1>2. n \in Nat /\ cursor \in Nat
  BY PipelineAssumption DEF FreshCount, Orderly, TypeOK, ReadNew
<1> HIDE DEF n
<1>3. /\ batch' = [i \in 1..n |-> cursor + i] /\ cursor' = cursor + n
      /\ pel' = pel \cup ((cursor + 1)..(cursor + n))
  BY DEF ReadNew, Deliver, Delivered, Fresh, n
<1>4. \A e \in 1..cursor : Settled(e)
  BY <1>0, <1>1 DEF Orderly, StreamOrder, NewIsInBatch, InBatch
<1>5. \A e \in 1..(cursor + n) : e \in 1..cursor \/ (e \in (cursor + 1)..(cursor + n) /\ e - cursor \in 1..n)
  BY <1>2
<1>6. LeftIsPending'
  BY <1>1, <1>3, <1>4, <1>5 DEF LeftIsPending
<1>7. NewIsInBatch'
  <2> SUFFICES ASSUME NEW e \in 1..(cursor + n), ~Settled(e)
               PROVE  \E j \in 1..n : batch'[j] = e
    BY <1>1, <1>3 DEF NewIsInBatch, InBatch
  <2>1. e - cursor \in 1..n /\ cursor + (e - cursor) = e
    BY <1>2, <1>4, <1>5
  <2> QED BY <1>3, <2>1
<1>8. BatchInOrder'
  <2> SUFFICES ASSUME NEW i \in 1..n, NEW e \in Entry, e < cursor + i, ~Settled(e)
               PROVE  \E j \in 1..n : j < i /\ batch'[j] = e
    BY <1>1, <1>3 DEF BatchInOrder
  <2>1. e \in Nat /\ e > 0 /\ i \in Nat
    BY PipelineAssumption, <1>2 DEF Entry
  <2>2. ~(e <= cursor)
    BY <1>2, <1>4, <2>1
  <2>3. e - cursor \in 1..n /\ e - cursor < i /\ cursor + (e - cursor) = e
    BY <1>2, <2>1, <2>2
  <2> QED BY <1>3, <2>3
<1>9. DownIsIdle'
  BY <1>0 DEF DownIsIdle
<1> QED BY <1>1, <1>6, <1>7, <1>8, <1>9 DEF StreamOrder

\* A lost reply makes late every entry it would have brought.
LEMMA OrderReadLost ==
  ASSUME Orderly, [Next]_vars, ReadNewLost
  PROVE  StreamOrder'
<1>0. /\ UNCHANGED <<ledger, failedClosed, pc, cur, batch, up, mode>>
      /\ pc = "idle" /\ batch = <<>> /\ DOMAIN batch = {} /\ up
  BY DEF ReadNewLost, Reading, reader, handler
<1>1. \A e : ~InHand(e) /\ ~InHand(e)'
  BY <1>0 DEF InHand
<1>2. \A e \in Entry : Settled(e) => Settled(e)'
  BY SettledStays DEF Orderly
<1> DEFINE n == FreshCount
<1>3. n \in Nat /\ cursor \in Nat /\ cursor + n <= NumEntries
  BY PipelineAssumption DEF FreshCount, Orderly, TypeOK, ReadNewLost
<1> HIDE DEF n
<1>4. /\ cursor' = cursor + n /\ pel \subseteq pel'
      /\ (cursor + 1)..(cursor + n) \subseteq unread'
  BY DEF ReadNewLost, Delivered, Fresh, n
<1>5. \A e \in 1..(cursor + n) : e \in Entry /\ (e \in 1..cursor \/ Settled(e)')
  <2>1. \A e \in 1..(cursor + n) : e \in Entry /\ (e \in 1..cursor \/ e \in (cursor + 1)..(cursor + n))
    BY <1>3, PipelineAssumption DEF Entry
  <2>2. \A e \in (cursor + 1)..(cursor + n) : Settled(e)'
    BY <1>4 DEF Settled, Late
  <2> QED BY <2>1, <2>2
<1>6. RowsInOrder' /\ SubmitInOrder' /\ HandledIsSettled' /\ DownIsIdle'
  BY <1>0, <1>1, <1>2 DEF Orderly, StreamOrder, RowsInOrder, SubmitInOrder, HandledIsSettled, DownIsIdle
<1>7. LeftIsPending'
  BY <1>2, <1>4, <1>5 DEF Orderly, StreamOrder, LeftIsPending
<1>8. NewIsInBatch'
  BY <1>0, <1>1, <1>2, <1>4, <1>5 DEF Orderly, StreamOrder, NewIsInBatch, InBatch
<1>9. BatchInOrder'
  BY <1>0 DEF BatchInOrder
<1> QED BY <1>6, <1>7, <1>8, <1>9 DEF StreamOrder

LEMMA OrderDrained ==
  ASSUME Orderly, [Next]_vars, PendingDrained
  PROVE  StreamOrder'
<1>0. /\ UNCHANGED <<ledger, failedClosed, unread, pc, cur, cursor, pel, batch, up>>
      /\ pc = "idle" /\ up /\ pel = {}
  BY DEF PendingDrained, Reading, delivery, handler, history
<1>1. /\ RowsInOrder' /\ SubmitInOrder' /\ HandledIsSettled'
      /\ \A e : Settled(e)' = Settled(e) /\ ~InHand(e) /\ ~InHand(e)'
  BY <1>0, OrderReads
<1> QED BY <1>0, <1>1 DEF Orderly, StreamOrder, LeftIsPending, NewIsInBatch, BatchInOrder, DownIsIdle

\* What is left of a batch when its head is taken.
LEMMA TailPlaces ==
  ASSUME NEW S, NEW q \in Seq(S), q # <<>>
  PROVE  /\ 1 \in DOMAIN q /\ Head(q) = q[1]
         /\ \A i \in DOMAIN Tail(q) : i + 1 \in DOMAIN q /\ Tail(q)[i] = q[i + 1]
         /\ \A j \in DOMAIN q : j # 1 => j - 1 \in DOMAIN Tail(q) /\ Tail(q)[j - 1] = q[j]
         /\ DOMAIN q \subseteq Nat \ {0} /\ DOMAIN Tail(q) \subseteq Nat
<1>1. DOMAIN q = 1 .. Len(q) /\ Len(q) \in Nat /\ Len(q) > 0
  OBVIOUS
<1>2. DOMAIN Tail(q) = 1 .. Len(q) - 1 /\ Head(q) = q[1]
  BY <1>1
<1>3. \A i \in DOMAIN Tail(q) : i + 1 \in DOMAIN q /\ Tail(q)[i] = q[i + 1]
  BY <1>1, <1>2
<1>4. \A j \in DOMAIN q : j # 1 => j - 1 \in DOMAIN Tail(q) /\ Tail(q)[j - 1] = q[j]
  BY <1>1, <1>2
<1> QED BY <1>1, <1>2, <1>3, <1>4

LEMMA OrderDispatch ==
  ASSUME Orderly, [Next]_vars, Dispatch
  PROVE  StreamOrder'
<1>0. /\ UNCHANGED <<ledger, failedClosed, unread, cursor, pel, up, mode>> /\ up
      /\ pc = "idle" /\ pc' = "reserve" /\ cur' = Head(batch) /\ batch' = Tail(batch)
      /\ batch # <<>> /\ batch \in Seq(Entry)
  BY DEF Dispatch, delivery, history, Orderly, TypeOK
<1>1. /\ 1 \in DOMAIN batch /\ cur' = batch[1]
      /\ \A i \in DOMAIN batch' : i + 1 \in DOMAIN batch /\ batch'[i] = batch[i + 1]
      /\ \A j \in DOMAIN batch : j # 1 => j - 1 \in DOMAIN batch' /\ batch'[j - 1] = batch[j]
      /\ DOMAIN batch \subseteq Nat \ {0} /\ DOMAIN batch' \subseteq Nat
  BY <1>0, TailPlaces
<1>2. \A e : Settled(e)' = Settled(e) /\ ~InHand(e) /\ (InHand(e)' <=> e = batch[1])
  BY <1>0, <1>1 DEF Settled, Late, CoidTaken, InHand
<1>3. \A e \in Entry : e < batch[1] => Settled(e)
  <2> SUFFICES ASSUME NEW e \in Entry, e < batch[1], NEW j \in DOMAIN batch, j < 1 PROVE FALSE
    BY <1>1, <1>2 DEF Orderly, StreamOrder, BatchInOrder
  <2> QED BY <1>1
<1>4. RowsInOrder'
  BY <1>0, <1>2, <1>3 DEF Orderly, StreamOrder, RowsInOrder
<1>5. SubmitInOrder' /\ HandledIsSettled' /\ LeftIsPending' /\ DownIsIdle'
  BY <1>0, <1>2 DEF Orderly, StreamOrder, SubmitInOrder, HandledIsSettled, LeftIsPending, DownIsIdle
<1>6. NewIsInBatch'
  <2> SUFFICES ASSUME mode = "new", NEW e \in 1..cursor, ~Settled(e), e # batch[1]
               PROVE  \E j \in DOMAIN batch' : batch'[j] = e
    BY <1>0, <1>2 DEF NewIsInBatch, InBatch
  <2>1. PICK j \in DOMAIN batch : batch[j] = e
    BY <1>0, <1>2 DEF Orderly, StreamOrder, NewIsInBatch, InBatch
  <2> QED BY <1>1, <2>1
<1>7. BatchInOrder'
  <2> SUFFICES ASSUME NEW i \in DOMAIN batch', NEW e \in Entry, e < batch'[i], ~Settled(e), e # batch[1]
               PROVE  \E j \in DOMAIN batch' : j < i /\ batch'[j] = e
    BY <1>2 DEF BatchInOrder
  <2>1. PICK j \in DOMAIN batch : j < i + 1 /\ batch[j] = e
    BY <1>1, <1>2 DEF Orderly, StreamOrder, BatchInOrder
  <2>2. j - 1 \in DOMAIN batch' /\ batch'[j - 1] = e
    BY <1>1, <2>1
  <2>3. j - 1 < i
    BY <1>1, <2>1
  <2> QED BY <2>2, <2>3
<1> QED BY <1>4, <1>5, <1>6, <1>7 DEF StreamOrder

LEMMA OrderReserve ==
  ASSUME Orderly, [Next]_vars, Reserve
  PROVE  StreamOrder'
<1>0. /\ UNCHANGED <<cursor, pel, batch, up, mode, cur>> /\ up /\ pc = "reserve"
      /\ cur \in Entry /\ pc' \in {"submit", "ack"} /\ ledger \in [Entry -> LedgerStatus]
  BY CurIsEntry DEF Reserve, ReserveFirst, ReserveDuplicateCommand, ReserveDuplicateCoid,
     ReserveFails, AnswerWith, delivery, reader, Orderly, TypeOK
<1>1. \A e \in Entry : Settled(e) => Settled(e)'
  BY SettledStays DEF Orderly
<1>2. Settled(cur)'
  <2>1. CASE ReserveDuplicateCoid
    BY <2>1, <1>0, <1>1 DEF ReserveDuplicateCoid, Settled
  <2>2. CASE ReserveDuplicateCommand
    BY <2>2, <1>0, <1>1 DEF ReserveDuplicateCommand, Settled
  <2>3. CASE ReserveFirst
    BY <2>3, <1>0 DEF ReserveFirst, Settled
  <2>4. CASE ReserveFails
    BY <2>4, <1>0 DEF ReserveFails, Settled, Late
  <2> QED BY <2>1, <2>2, <2>3, <2>4 DEF Reserve
<1>3. \A f \in Entry : f # cur => ledger'[f] = ledger[f]
  BY <1>0 DEF Reserve, ReserveFirst, ReserveDuplicateCommand, ReserveDuplicateCoid, ReserveFails
<1>4. \A e \in Entry : ~InHand(e)' /\ (InHand(e) => Settled(e)')
  BY <1>0, <1>2 DEF InHand
<1>5. RowsInOrder'
  <2>1. \A e \in Entry : e < cur => Settled(e)
    BY <1>0 DEF Orderly, StreamOrder, RowsInOrder, InHand
  <2> QED BY <1>0, <1>1, <1>3, <1>4, <2>1 DEF Orderly, StreamOrder, RowsInOrder
<1>6. SubmitInOrder'
  <2> SUFFICES ASSUME pc' = "submit", cur \notin Late', NEW f \in Entry, f > cur
               PROVE  ledger'[f] = "absent"
    BY <1>0 DEF SubmitInOrder
  <2>1. ReserveFirst
    BY DEF Reserve, ReserveDuplicateCommand, ReserveDuplicateCoid, ReserveFails, AnswerWith
  <2>2. ~Settled(cur)
    BY <2>1 DEF ReserveFirst, Settled, Late, history
  <2>3. ledger[f] = "absent"
    BY <1>0, <2>2 DEF Orderly, StreamOrder, RowsInOrder
  <2>4. f # cur
    BY <1>0, PipelineAssumption DEF Entry
  <2> QED BY <1>3, <2>3, <2>4
<1>7. 1..cursor \subseteq Entry
  BY PipelineAssumption DEF Orderly, TypeOK, Entry
<1>8. HandledIsSettled' /\ LeftIsPending' /\ DownIsIdle'
  BY <1>0, <1>1, <1>2, <1>7 DEF Orderly, StreamOrder, HandledIsSettled, LeftIsPending, DownIsIdle
<1>9. NewIsInBatch'
  BY <1>0, <1>1, <1>4, <1>7 DEF Orderly, StreamOrder, NewIsInBatch, InBatch
<1>10. BatchInOrder'
  BY <1>0, <1>1, <1>4 DEF Orderly, StreamOrder, BatchInOrder
<1> QED BY <1>5, <1>6, <1>8, <1>9, <1>10 DEF StreamOrder

\* From the submit on the entry is settled and nobody else gets a row.
LEMMA OrderHandles ==
  ASSUME IInv, Orderly, [Next]_vars, Act \/ Finish
  PROVE  StreamOrder'
<1>0. /\ UNCHANGED <<cursor, batch, up, mode>> /\ up /\ pc \notin {"idle", "reserve"}
      /\ pc' \notin {"reserve", "submit"} /\ (cur' = cur \/ pc' = "idle")
      /\ pel \ {cur} \subseteq pel' /\ cur \in Entry /\ ledger \in [Entry -> LedgerStatus]
  BY CurIsEntry DEF Act, SubmitRefused, Submit, Finish, Mark, MarkFails, PublishAck, DropAck,
     Xack, XackFails, delivery, reader, Orderly, TypeOK
<1>1. \A e \in Entry : Settled(e) => Settled(e)'
  BY SettledStays DEF Orderly
<1>2. Settled(cur)
  BY <1>0 DEF Orderly, StreamOrder, HandledIsSettled
<1>3. \A e \in Entry : ~InHand(e) /\ ~InHand(e)'
  BY <1>0 DEF InHand
<1>4. RowsInOrder'
  <2>1. CASE Mark
    <3>1. ledger[cur] # "absent" /\ ledger' = [ledger EXCEPT ![cur] = Outcome(reply)]
      BY <2>1 DEF Mark, IInv, HandlerKnows
    <3>2. \A f \in Entry : ledger'[f] # "absent" => ledger[f] # "absent"
      BY <1>0, <3>1
    <3> QED BY <1>1, <1>3, <3>2 DEF Orderly, StreamOrder, RowsInOrder
  <2>2. CASE ~Mark
    <3>1. UNCHANGED ledger
      BY <2>2 DEF Act, SubmitRefused, Submit, Finish, MarkFails, PublishAck, DropAck, Xack, XackFails
    <3> QED BY <1>1, <1>3, <3>1 DEF Orderly, StreamOrder, RowsInOrder
  <2> QED BY <2>1, <2>2
<1>5. SubmitInOrder'
  BY <1>0 DEF SubmitInOrder
<1>6. 1..cursor \subseteq Entry
  BY PipelineAssumption DEF Orderly, TypeOK, Entry
<1>7. HandledIsSettled' /\ LeftIsPending' /\ DownIsIdle'
  BY <1>0, <1>1, <1>2, <1>6 DEF Orderly, StreamOrder, HandledIsSettled, LeftIsPending, DownIsIdle
<1>8. NewIsInBatch'
  BY <1>0, <1>1, <1>3, <1>6 DEF Orderly, StreamOrder, NewIsInBatch, InBatch
<1>9. BatchInOrder'
  BY <1>0, <1>1, <1>3 DEF Orderly, StreamOrder, BatchInOrder
<1> QED BY <1>4, <1>5, <1>7, <1>8, <1>9 DEF StreamOrder

\* A dead process holds nothing, and its successor begins with what is pending.
LEMMA OrderProcess ==
  ASSUME Orderly, [Next]_vars, Crash \/ Restart
  PROVE  StreamOrder'
<1>1. UNCHANGED <<ledger, failedClosed, unread, cursor, pel>>
  BY DEF Crash, Restart, delivery, history
<1>2. pc' = "idle" /\ batch' = <<>> /\ DOMAIN batch' = {} /\ (up' => mode' = "pending")
  BY DEF Crash, Restart, handler, Orderly, StreamOrder, DownIsIdle
<1>3. \A e : Settled(e)' = Settled(e) /\ ~InHand(e)'
  BY <1>1, <1>2 DEF Settled, Late, CoidTaken, InHand
<1> QED BY <1>1, <1>2, <1>3 DEF Orderly, StreamOrder, RowsInOrder, SubmitInOrder, HandledIsSettled,
        LeftIsPending, NewIsInBatch, BatchInOrder, DownIsIdle

LEMMA OrderInit == Init => StreamOrder
<1> SUFFICES ASSUME Init PROVE StreamOrder
  OBVIOUS
<1>1. pc = "idle" /\ batch = <<>> /\ DOMAIN batch = {} /\ up /\ mode = "pending" /\ cursor = 0
  BY DEF Init
<1>2. \A e \in Entry : ledger[e] = "absent" /\ ~InHand(e)
  BY DEF Init, InHand
<1> QED BY <1>1, <1>2 DEF StreamOrder, RowsInOrder, SubmitInOrder, HandledIsSettled, LeftIsPending,
        NewIsInBatch, BatchInOrder, DownIsIdle

LEMMA OrderStep ==
  ASSUME IInv, StreamOrder, [Next]_vars
  PROVE  StreamOrder'
<1>0. Orderly
  BY DEF IInv, Orderly
<1>1. CASE Read
  BY <1>0, <1>1, OrderReadPending, OrderDrained, OrderReadNew, OrderReadLost, OrderDispatch DEF Read
<1>2. CASE Reserve
  BY <1>0, <1>2, OrderReserve
<1>3. CASE Act \/ Finish
  BY <1>0, <1>3, OrderHandles
<1>4. CASE Crash \/ Restart
  BY <1>0, <1>4, OrderProcess
<1>5. CASE Publish \/ Writer \/ UNCHANGED vars
  <2>1. UNCHANGED <<ledger, failedClosed, unread, cursor, pel, batch, pc, cur, up, mode>>
    BY <1>5 DEF Publish, Writer, DeliverAck, LoseAck, delivery, reader, handler, history, vars
  <2> QED BY <2>1, OrderSame
<1> QED BY <1>1, <1>2, <1>3, <1>4, <1>5 DEF Next, Engine

\* Only a submit appends, and every later entry it could come after has a row.
LEMMA InOrderStep ==
  ASSUME IInv, StreamOrder, InStreamOrder, [Next]_vars
  PROVE  InStreamOrder'
<1>0. TypeOK /\ Late \subseteq Late'
  BY RowsStay DEF IInv
<1>1. CASE Submit
  <2>1. cur \in Entry /\ pc = "submit" /\ effects' = Append(effects, cur)
    BY <1>0, <1>1, CurIsEntry, GuardIsSpare DEF Submit
  <2>2. /\ DOMAIN effects' = DOMAIN effects \cup {Len(effects) + 1}
        /\ \A i \in DOMAIN effects : effects'[i] = effects[i]
        /\ effects'[Len(effects) + 1] = cur
    BY <1>0, <2>1, AppliedGrows
  <2>3. DOMAIN effects = 1..Len(effects) /\ Len(effects) \in Nat
    BY <1>0 DEF TypeOK
  <2>4. \A i \in DOMAIN effects : effects[i] \in Entry /\ ledger[effects[i]] # "absent"
    <3>1. \A i \in DOMAIN effects : effects[i] \in Applied
      BY DEF Applied
    <3> QED BY <1>0, <3>1, AppliedAreEntries DEF IInv, AppliedHasRow
  <2> SUFFICES ASSUME NEW i \in DOMAIN effects', NEW j \in DOMAIN effects',
                      i < j, effects'[i] > effects'[j]
               PROVE  effects'[j] \in Late'
    BY DEF InStreamOrder, Late
  <2>5. i \in DOMAIN effects
    BY <2>2, <2>3
  <2>6. CASE j \in DOMAIN effects
    <3>1. effects[j] \in Late
      BY <2>2, <2>5, <2>6 DEF InStreamOrder, Late
    <3> QED BY <1>0, <2>2, <2>6, <3>1
  <2>7. CASE j = Len(effects) + 1
    <3>1. effects[i] > cur /\ effects'[j] = cur
      BY <2>2, <2>5, <2>7
    <3>2. cur \in Late
      BY <2>1, <2>4, <2>5, <3>1 DEF StreamOrder, SubmitInOrder
    <3> QED BY <1>0, <3>1, <3>2
  <2> QED BY <2>2, <2>6, <2>7
<1>2. CASE ~Submit
  <2>1. UNCHANGED effects
    BY <1>2
       DEF Next, Engine, Read, Reserve, Act, Finish, Writer, Publish, Crash, Restart,
           ReadPending, PendingDrained, ReadNew, Deliver, ReadNewLost, Dispatch, ReserveFirst,
           ReserveDuplicateCommand, ReserveDuplicateCoid, ReserveFails, SubmitRefused,
           Mark, MarkFails, PublishAck, DropAck, Xack, XackFails, DeliverAck, LoseAck,
           answers, history, vars
  <2> SUFFICES ASSUME NEW i \in DOMAIN effects, NEW j \in DOMAIN effects, i < j, effects[i] > effects[j]
               PROVE  effects[j] \in Late'
    BY <2>1 DEF InStreamOrder, Late
  <2>2. effects[j] \in Late
    BY DEF InStreamOrder, Late
  <2> QED BY <1>0, <2>2
<1> QED BY <1>1, <1>2

\* Commands take effect in stream order, across batches, crashes and the pending
\* list, unless the reserve of the late one had failed or the reader never saw the
\* reply that delivered it (_drain_commands reads '0' to its end before '>', goes
\* on at '>' after a failed read, and handles one entry at a time).
THEOREM StreamOrderKept == Spec => []InStreamOrder
<1>1. Init => StreamOrder /\ InStreamOrder
  <2>1. Init => DOMAIN effects = {}
    BY DEF Init
  <2> QED BY <2>1, OrderInit DEF InStreamOrder
<1>2. IInv /\ StreamOrder /\ InStreamOrder /\ [Next]_vars => (StreamOrder /\ InStreamOrder)'
  BY OrderStep, InOrderStep
<1>3. Spec => []IInv
  BY Invariance
<1> QED BY <1>1, <1>2, <1>3, PTL DEF Spec
=============================================================================
