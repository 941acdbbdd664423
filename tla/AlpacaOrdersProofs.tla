------------------------ MODULE AlpacaOrdersProofs ------------------------
(***************************************************************************)
(* Proofs about AlpacaOrders for any orders, any number of asks and        *)
(* retries, and any number of faults and restarts.                         *)
(***************************************************************************)
EXTENDS AlpacaOrders, TLAPS

USE DEF records, tasks, reads, history, bounds

-----------------------------------------------------------------------------
(* Types. *)

\* The cache's part of TypeOK, which every event of an order touches alone.
CacheOK == cached \in [Order -> Status] /\ strikes \in [Order -> Nat]

\* The submits' part, with the counters of an ask in order.
SubmitOK ==
    /\ submit \in [Order -> Submit]
    /\ \A o \in Order : submit[o].lost <= submit[o].asks

RestOK ==
    /\ venue \in [Order -> Record]
    /\ posts \subseteq Order /\ deletes \subseteq Order
    /\ cancel \in [Order -> {"none", "deleting", "taken", "refused"}]
    /\ check \in [at : {"idle", "asked", "answered", "failed"}, seen : [Order -> Record]]
    /\ reading \in BOOLEAN /\ sweeping \in BOOLEAN /\ outcome \in {"never", "ok", "failed"}
    /\ faults \in 0..MaxFaults /\ crashes \in 0..MaxCrashes

Types == CacheOK /\ SubmitOK /\ RestOK

\* The bounds are numbers.
LEMMA Bounds == Asks \in Nat \ {0} /\ MaxFaults \in Nat /\ MaxCrashes \in Nat
BY AlpacaAssumption

\* No submit is a submit.
LEMMA NoSubmitType ==
  /\ NoSubmit \in Submit
  /\ NoSubmit.lost = 0 /\ NoSubmit.asks = 0 /\ NoSubmit.at = "none" /\ NoSubmit.reply = "none"
BY Bounds DEF NoSubmit, Submit, Record

\* Each event of an order keeps the cache's types.
LEMMA BelieveType ==
  ASSUME CacheOK, NEW o \in Order, NEW s \in Status, Believe(o, s)
  PROVE  CacheOK'
BY DEF CacheOK, Believe

\* An acceptance, taken or refused.
LEMMA AcceptType ==
  ASSUME CacheOK, NEW o \in Order, NEW by, Accept(o, by)
  PROVE  CacheOK'
<1>1. CASE cached[o] \in {"SUBMITTED"} \cup CancelPending
  BY <1>1, BelieveType DEF Accept, Status
<1>2. CASE cached[o] \notin {"SUBMITTED"} \cup CancelPending
  BY <1>2 DEF Accept, CacheOK
<1> QED BY <1>1, <1>2

\* A rejection, of an open order or a closed one.
LEMMA RejectType ==
  ASSUME CacheOK, NEW o \in Order, Reject(o)
  PROVE  CacheOK'
<1>1. CASE UNCHANGED <<cached, strikes>>
  BY <1>1 DEF CacheOK
<1>2. CASE Believe(o, "REJECTED")
  BY <1>2, BelieveType DEF Status, Dead
<1> QED BY <1>1, <1>2 DEF Reject

\* The end of a submit.
LEMMA DoneType ==
  ASSUME SubmitOK, NEW o \in Order, Done(o)
  PROVE  SubmitOK'
BY NoSubmitType DEF SubmitOK, Done

\* The counters of an ask stay in order.
LEMMA AskedInVainType ==
  ASSUME SubmitOK, CacheOK, NEW o \in Order, NEW lost \in Nat, lost <= submit[o].asks + 1,
         AskedInVain(o, lost)
  PROVE  SubmitOK' /\ CacheOK'
<1>1. CASE submit[o].asks + 1 < Asks
  <2>1. submit' = [submit EXCEPT ![o].asks = @ + 1, ![o].lost = lost, ![o].reply = "none"]
    BY <1>1 DEF AskedInVain
  <2>2. submit[o].asks + 1 \in 0..Asks - 1 /\ lost \in 0..Asks - 1
    BY <1>1, Bounds DEF SubmitOK, Submit
  <2>3. submit' \in [Order -> Submit]
    <3>1. [submit[o] EXCEPT !.asks = @ + 1, !.lost = lost, !.reply = "none"] \in Submit
      BY <2>2 DEF SubmitOK, Submit, Record
    <3>2. submit'[o] = [submit[o] EXCEPT !.asks = @ + 1, !.lost = lost, !.reply = "none"]
      BY <2>1 DEF SubmitOK, Submit
    <3>3. \A b \in Order \ {o} : submit'[b] = submit[b]
      BY <2>1 DEF SubmitOK
    <3>4. submit' = [b \in Order |-> submit'[b]]
      BY <2>1 DEF SubmitOK
    <3> QED BY <3>1, <3>2, <3>3, <3>4 DEF SubmitOK
  <2>4. submit'[o].lost <= submit'[o].asks /\ \A b \in Order \ {o} : submit'[b] = submit[b]
    BY <2>1 DEF SubmitOK, Submit
  <2>5. SubmitOK'
    BY <2>3, <2>4 DEF SubmitOK
  <2> QED BY <1>1, <2>5 DEF AskedInVain, CacheOK
<1>2. CASE ~(submit[o].asks + 1 < Asks)
  <2>1. CASE NeverLanded(lost)
    BY <1>2, <2>1, DoneType, RejectType DEF AskedInVain
  <2>2. CASE ~NeverLanded(lost)
    BY <1>2, <2>2, DoneType DEF AskedInVain, CacheOK
  <2> QED BY <2>1, <2>2
<1> QED BY <1>1, <1>2

\* A report gives a status.
LEMMA ReportedType ==
  ASSUME NEW status \in Status, NEW record \in {"live", "filled", "canceled"}
  PROVE  Reported(status, record) \in Status
BY DEF Reported, Status, Verdict, Dead

\* What an ask reports of an order, and what is reconciled of it.
LEMMA AskedType ==
  ASSUME CacheOK, venue \in [Order -> Record],
         NEW o \in Order, NEW report \in Report, report # "nothing", Reconcile(o, report)
  PROVE  CacheOK'
<1>1. Reported(cached[o], IF report = "hold" THEN "live" ELSE report) \in Status
  BY ReportedType DEF CacheOK, Report
<1> QED BY <1>1, BelieveType DEF Reconcile

\* The types hold at first.
LEMMA TypesInit == Init => Types
<1> USE Bounds DEF Init
<1>1. Init => SubmitOK
  BY NoSubmitType DEF SubmitOK
<1>2. Init => CacheOK
  BY DEF CacheOK, Status
<1>3. Init => check \in [at : {"idle", "asked", "answered", "failed"}, seen : [Order -> Record]]
  BY DEF Unseen, IdleCheck, Record
<1>4. Init => reading \in BOOLEAN /\ sweeping \in BOOLEAN /\ outcome \in {"never", "ok",
   "failed"}
  OBVIOUS
<1>5. Init => venue \in [Order -> Record] /\ cancel \in [Order -> {"none", "deleting", "taken",
   "refused"}]
  BY DEF Unseen, Record
<1>6. Init => posts \subseteq Order /\ deletes \subseteq Order /\ faults \in 0..MaxFaults /\ crashes \in 0..MaxCrashes
  OBVIOUS
<1> QED BY <1>1, <1>2, <1>3, <1>4, <1>5, <1>6 DEF Types, RestOK

\* Each step keeps the types.
LEMMA TypesStep == Types /\ [Next]_vars => Types'
<1> SUFFICES ASSUME CacheOK, SubmitOK, RestOK,
   [Next]_vars PROVE CacheOK' /\ SubmitOK' /\ RestOK'
  BY DEF Types
<1> USE Bounds
<1>1. ASSUME NEW o \in Order, RefuseLocally(o) PROVE CacheOK' /\ SubmitOK' /\ RestOK'
  <2>1. CacheOK'
    BY <1>1, BelieveType DEF RefuseLocally, Status, Dead
  <2> QED BY <1>1, <2>1 DEF RefuseLocally, SubmitOK, RestOK
<1>2. ASSUME NEW o \in Order, SubmitOrder(o) PROVE CacheOK' /\ SubmitOK' /\ RestOK'
  <2>1. CacheOK'
    BY <1>2, BelieveType DEF SubmitOrder, Status
  <2>2. SubmitOK'
    BY <1>2, NoSubmitType DEF SubmitOrder, SubmitOK, Submit
  <2> QED BY <1>2, <2>1, <2>2 DEF SubmitOrder, RestOK
<1>3. ASSUME NEW o \in Order, PostAnswered(o) PROVE CacheOK' /\ SubmitOK' /\ RestOK'
  <2>1. CacheOK'
    BY <1>3, AcceptType, RejectType DEF PostAnswered
  <2>2. SubmitOK'
    BY <1>3, DoneType DEF PostAnswered
  <2> QED BY <1>3, <2>1, <2>2 DEF PostAnswered, RestOK
<1>4. ASSUME NEW o \in Order, PostMisread(o) PROVE CacheOK' /\ SubmitOK' /\ RestOK'
  <2>1. CacheOK'
    BY <1>4, RejectType DEF PostMisread
  <2>2. SubmitOK'
    BY <1>4, DoneType DEF PostMisread
  <2> QED BY <1>4, <2>1, <2>2 DEF PostMisread, RestOK, Fault
<1>5. ASSUME NEW o \in Order, PostUnanswered(o) PROVE CacheOK' /\ SubmitOK' /\ RestOK'
  <2>1. SubmitOK'
    BY <1>5, NoSubmitType DEF PostUnanswered, SubmitOK, Submit
  <2> QED BY <1>5, <2>1 DEF PostUnanswered, CacheOK, RestOK, Fault
<1>6. ASSUME NEW o \in Order, AskFinds(o) PROVE CacheOK' /\ SubmitOK' /\ RestOK'
  <2>1. CacheOK'
    <3>1. CASE UNCHANGED <<cached, strikes>>
      BY <3>1 DEF CacheOK
    <3>2. CASE Accept(o, "lookup") \/ Reject(o)
      BY <3>2, AcceptType, RejectType
    <3> QED BY <1>6, <3>1, <3>2 DEF AskFinds
  <2>2. SubmitOK'
    BY <1>6, DoneType DEF AskFinds
  <2> QED BY <1>6, <2>1, <2>2 DEF AskFinds, RestOK
<1>7. ASSUME NEW o \in Order, AskNotFound(o) PROVE CacheOK' /\ SubmitOK' /\ RestOK'
  <2>1. submit[o].lost + 1 \in Nat /\ submit[o].lost + 1 <= submit[o].asks + 1
    BY Bounds DEF SubmitOK, Submit
  <2>2. CacheOK' /\ SubmitOK'
    BY <1>7, <2>1, AskedInVainType DEF AskNotFound
  <2> QED BY <1>7, <2>2 DEF AskNotFound, RestOK
<1>8. ASSUME NEW o \in Order, AskUnanswered(o) PROVE CacheOK' /\ SubmitOK' /\ RestOK'
  <2>1. submit[o].lost \in Nat /\ submit[o].lost <= submit[o].asks + 1
    BY Bounds DEF SubmitOK, Submit
  <2>2. CacheOK' /\ SubmitOK'
    BY <1>8, <2>1, AskedInVainType DEF AskUnanswered
  <2> QED BY <1>8, <2>2 DEF AskUnanswered, RestOK, Fault
<1>9. ASSUME NEW o \in Order, CancelOrder(o) PROVE CacheOK' /\ SubmitOK' /\ RestOK'
  <2>1. CacheOK'
    BY <1>9, BelieveType DEF CancelOrder, Status, CancelPending
  <2> QED BY <1>9, <2>1 DEF CancelOrder, SubmitOK, RestOK
<1>unsent. ASSUME NEW o \in Order, CancelWithoutId(o) PROVE CacheOK' /\ SubmitOK' /\ RestOK'
  <2>1. CacheOK'
    BY <1>unsent, BelieveType DEF CancelWithoutId, Status, CancelPending
  <2> QED BY <1>unsent, <2>1 DEF CancelWithoutId, SubmitOK, RestOK
<1>10. ASSUME NEW o \in Order, CancelTaken(o) PROVE CacheOK' /\ SubmitOK' /\ RestOK'
  BY <1>10 DEF CancelTaken, CacheOK, SubmitOK, RestOK, Record
<1>11. ASSUME NEW o \in Order, CancelFails(o) PROVE CacheOK' /\ SubmitOK' /\ RestOK'
  <2>1. CacheOK'
    BY <1>11 DEF CancelFails, Reopen, CacheOK, Status
  <2> QED BY <1>11, <2>1 DEF CancelFails, SubmitOK, RestOK, Fault
<1>12. ASSUME NEW o \in Order, InflightAsks(o) PROVE CacheOK' /\ SubmitOK' /\ RestOK'
  <2>1. CacheOK'
    <3>1. PICK report \in Report : IF report = "nothing"
             THEN strikes' = [strikes EXCEPT ![o] = @ + 1] /\ UNCHANGED cached
             ELSE Reconcile(o, report)
      BY <1>12 DEF InflightAsks
    <3>2. CASE report = "nothing"
      BY <3>1, <3>2 DEF CacheOK
    <3>3. CASE report # "nothing"
      BY <3>1, <3>3, AskedType DEF RestOK
    <3> QED BY <3>2, <3>3
  <2>2. RestOK'
    BY <1>12 DEF InflightAsks, RestOK, Asked, Fault
  <2> QED BY <1>12, <2>1, <2>2 DEF InflightAsks, SubmitOK
<1>13. ASSUME NEW o \in Order, InflightGivesUp(o) PROVE CacheOK' /\ SubmitOK' /\ RestOK'
  <2>1. CacheOK'
    BY <1>13, BelieveType DEF InflightGivesUp, Status, Dead
  <2> QED BY <1>13, <2>1 DEF InflightGivesUp, SubmitOK, RestOK
<1>14. ASSUME NEW o \in Order, MissingAsks(o) PROVE CacheOK' /\ SubmitOK' /\ RestOK'
  <2>1. CacheOK'
    <3>1. PICK report \in Report :
             IF report = "nothing" THEN Believe(o, "REJECTED") ELSE Reconcile(o, report)
      BY <1>14 DEF MissingAsks
    <3>2. CASE report = "nothing"
      BY <3>1, <3>2, BelieveType DEF Status, Dead
    <3>3. CASE report # "nothing"
      BY <3>1, <3>3, AskedType DEF RestOK
    <3> QED BY <3>2, <3>3
  <2>2. RestOK'
    BY <1>14 DEF MissingAsks, RestOK, Asked, Fault
  <2> QED BY <1>14, <2>1, <2>2 DEF MissingAsks, SubmitOK
<1>15. ASSUME NEW o \in Order, VenueAccepts(o) PROVE CacheOK' /\ SubmitOK' /\ RestOK'
  <2>1. SubmitOK'
    BY <1>15 DEF VenueAccepts, SubmitOK, Submit, Record, RestOK, Waiting
  <2> QED BY <1>15, <2>1 DEF VenueAccepts, CacheOK, RestOK, Record
<1>16. ASSUME NEW o \in Order, VenueRefuses(o) PROVE CacheOK' /\ SubmitOK' /\ RestOK'
  <2>1. SubmitOK'
    BY <1>16 DEF VenueRefuses, SubmitOK, Submit, Record, RestOK, Waiting
  <2> QED BY <1>16, <2>1 DEF VenueRefuses, CacheOK, RestOK, Record
<1>17. ASSUME NEW o \in Order, PostLost(o) PROVE CacheOK' /\ SubmitOK' /\ RestOK'
  BY <1>17 DEF PostLost, Fault, CacheOK, SubmitOK, RestOK, Record
<1>18. ASSUME NEW o \in Order, VenueAnswersAsk(o) PROVE CacheOK' /\ SubmitOK' /\ RestOK'
  <2>1. SubmitOK'
    BY <1>18 DEF VenueAnswersAsk, SubmitOK, Submit, Record, RestOK, Waiting
  <2> QED BY <1>18, <2>1 DEF VenueAnswersAsk, CacheOK, RestOK, Record
<1>19. ASSUME NEW o \in Order, VenueCancels(o) PROVE CacheOK' /\ SubmitOK' /\ RestOK'
  BY <1>19 DEF VenueCancels, CacheOK, SubmitOK, RestOK, Record
<1>20. ASSUME NEW o \in Order, DeleteLost(o) PROVE CacheOK' /\ SubmitOK' /\ RestOK'
  BY <1>20 DEF DeleteLost, Fault, CacheOK, SubmitOK, RestOK, Record
<1>21. ASSUME NEW o \in Order, VenueCloses(o) PROVE CacheOK' /\ SubmitOK' /\ RestOK'
  BY <1>21 DEF VenueCloses, CacheOK, SubmitOK, RestOK, Record
<1>22. CASE CancelAllOrders
  <2>1. CacheOK'
    BY <1>22 DEF CancelAllOrders, CacheOK, Status, CancelPending
  <2> QED BY <1>22, <2>1 DEF CancelAllOrders, SubmitOK, RestOK
<1>23. CASE SweepListed
  BY <1>23 DEF SweepListed, CacheOK, SubmitOK, RestOK, Record
<1>24. CASE SweepFails
  <2>1. CacheOK'
    BY <1>24 DEF SweepFails, Reopen, CacheOK, Status
  <2>2. faults' \in 0..MaxFaults /\ crashes' \in 0..MaxCrashes
    BY <1>24 DEF SweepFails, Fault, RestOK
  <2> QED BY <1>24, <2>1, <2>2 DEF SweepFails, SubmitOK, RestOK
<1>25. CASE CheckBegins
  BY <1>25 DEF CheckBegins, CacheOK, SubmitOK, RestOK, Record
<1>26. CASE CheckAnswered
  BY <1>26 DEF CheckAnswered, CacheOK, SubmitOK, RestOK, Record
<1>27. CASE CheckFails
  BY <1>27 DEF CheckFails, Fault, CacheOK, SubmitOK, RestOK, Record
<1>28. CASE CheckConcludes
  <2>1. \A o \in Order : check.seen[o] # "none" => Reported(cached[o], check.seen[o]) \in Status
    BY ReportedType DEF CacheOK, RestOK, Record
  <2>2. CacheOK'
    BY <1>28, <2>1 DEF CheckConcludes, CacheOK
  <2>3. RestOK'
    BY <1>28 DEF CheckConcludes, RestOK, IdleCheck, Unseen, Record
  <2> QED BY <1>28, <2>2, <2>3 DEF CheckConcludes, SubmitOK
<1>29. CASE OtherReads
  BY <1>29 DEF OtherReads, CacheOK, SubmitOK, RestOK, Record
<1>30. CASE OtherAnswered
  BY <1>30 DEF OtherAnswered, CacheOK, SubmitOK, RestOK, Record
<1>31. CASE OtherFails
  <2>1. faults' \in 0..MaxFaults /\ crashes' \in 0..MaxCrashes
    BY <1>31 DEF OtherFails, Fault, RestOK
  <2> QED BY <1>31, <2>1 DEF OtherFails, CacheOK, SubmitOK, RestOK
<1>32. CASE Restart
  <2>1. SubmitOK'
    BY <1>32, NoSubmitType DEF Restart, SubmitOK
  <2>2. CacheOK'
    BY <1>32 DEF Restart, CacheOK
  <2>3. check' \in [at : {"idle", "asked", "answered", "failed"}, seen : [Order -> Record]]
    BY <1>32 DEF Restart, Unseen, IdleCheck, Record
  <2>4. faults' \in 0..MaxFaults /\ crashes' \in 0..MaxCrashes
    BY <1>32 DEF Restart, RestOK
  <2>5. RestOK'
    BY <1>32, <2>3, <2>4 DEF Restart, RestOK
  <2> QED BY <2>1, <2>2, <2>5
<1>33. CASE UNCHANGED vars
  BY <1>33 DEF vars, CacheOK, SubmitOK, RestOK
<1> QED BY <1>1, <1>2, <1>3, <1>4, <1>5, <1>6, <1>7, <1>8, <1>9, <1>unsent, <1>10, <1>11, <1>12, <1>13,
   <1>14, <1>15, <1>16, <1>17, <1>18, <1>19, <1>20, <1>21, <1>22, <1>23, <1>24, <1>25, <1>26,
      <1>27, <1>28, <1>29, <1>30, <1>31, <1>32, <1>33 DEF Next, SubmitStep, CancelStep,
         InflightStep, VenueStep, SweepStep, CheckStep, OtherStep

\* The parts of TypeOK, and the counters of an ask in order.
THEOREM TypesAlways == Spec => []Types
<1> QED BY TypesInit, TypesStep, PTL DEF Spec

\* Type correctness of the client, its timers and the venue.
THEOREM TypeCorrect == Spec => []TypeOK
<1>1. Types => TypeOK
  BY DEF Types, CacheOK, SubmitOK, RestOK, TypeOK
<1> QED BY <1>1, TypesAlways, PTL

-----------------------------------------------------------------------------
(* What the cache, an answer on its way and a read of all orders say of an *)
(* order is true of the venue.  An order in flight is not at the venue, and *)
(* nothing of an order that was never submitted is.                         *)

CacheTrue(o) ==
    /\ cached[o] = "NEW" => venue[o] = "none" /\ o \notin posts /\ submit[o].at = "none"
    /\ cached[o] \in {"ACCEPTED", "PENDING_CANCEL"} => venue[o] # "none"
    /\ cached[o] \in Dead /\ (venue[o] = "live" \/ o \in posts) =>
           o \in late \cup gaveUp \cup misread \cup unlisted

ReplyTrue(o) ==
    /\ submit[o].reply = "refused" => venue[o] = "none" /\ o \notin posts
    /\ submit[o].reply \in DOMAIN Verdict \cup {"unlanded"} => venue[o] # "none"
    /\ submit[o].reply \in {"filled", "canceled"} => venue[o] = submit[o].reply

SeenTrue(o) ==
    /\ check.seen[o] # "none" => venue[o] # "none"
    /\ check.seen[o] \in {"filled", "canceled"} => venue[o] = check.seen[o]

Truth ==
    \A o \in Order :
        /\ o \in posts => venue[o] = "none"
        /\ CacheTrue(o) /\ ReplyTrue(o) /\ SeenTrue(o)

(* A DELETE that was taken has closed the order. *)
Pursuit ==
    /\ \A o \in Order : cancel[o] = "taken" => venue[o] = "canceled"
    /\ CancelPursued

(* A failed read leaves its outcome for the guard. *)
Quiet == check.at = "failed" /\ outcome = "ok" => overruled

\* What nobody has said yet is true.
LEMMA TruthInit == Init => Truth
BY NoSubmitType DEF Init, Truth, CacheTrue, ReplyTrue, SeenTrue, Unseen, IdleCheck, Dead,
   Verdict

\* Each step keeps what is said of an order true of the venue.
LEMMA TruthStep == Types /\ Truth /\ [Next]_vars => Truth'
<1> SUFFICES ASSUME CacheOK, SubmitOK, RestOK, Truth, [Next]_vars, NEW b \in Order
             PROVE  /\ (b \in posts => venue[b] = "none")'
                    /\ CacheTrue(b)' /\ ReplyTrue(b)' /\ SeenTrue(b)'
  BY DEF Types, Truth
<1> DEFINE Here == /\ (b \in posts => venue[b] = "none")'
                  /\ CacheTrue(b)' /\ ReplyTrue(b)' /\ SeenTrue(b)'
<1>0. /\ b \in posts => venue[b] = "none"
      /\ CacheTrue(b) /\ ReplyTrue(b) /\ SeenTrue(b)
  BY DEF Truth
<1> USE NoSubmitType DEF Dead, CancelPending, Verdict, Record, Status
<1>1. ASSUME NEW o \in Order, RefuseLocally(o) PROVE Here
  BY <1>0, <1>1 DEF RefuseLocally, Believe, CacheTrue, ReplyTrue, SeenTrue, CacheOK, SubmitOK,
     Submit, RestOK
<1>2. ASSUME NEW o \in Order, SubmitOrder(o) PROVE Here
  BY <1>0, <1>2 DEF SubmitOrder, Believe, CacheTrue, ReplyTrue, SeenTrue, CacheOK, SubmitOK,
     Submit, RestOK
<1>3. ASSUME NEW o \in Order, PostAnswered(o) PROVE Here
  BY <1>0, <1>3 DEF PostAnswered, Accept, Believe, Reject, Done, CacheTrue, ReplyTrue,
     SeenTrue, CacheOK, SubmitOK, Submit, RestOK
<1>4. ASSUME NEW o \in Order, PostMisread(o) PROVE Here
  BY <1>0, <1>4 DEF PostMisread, Fault, Reject, Believe, Done, CacheTrue, ReplyTrue, SeenTrue,
     CacheOK, SubmitOK, Submit, RestOK
<1>5. ASSUME NEW o \in Order, PostUnanswered(o) PROVE Here
  BY <1>0, <1>5 DEF PostUnanswered, Fault, CacheTrue, ReplyTrue, SeenTrue, CacheOK, SubmitOK,
     Submit, RestOK
<1>6. ASSUME NEW o \in Order, AskFinds(o) PROVE Here
  BY <1>0, <1>6 DEF AskFinds, StillSubmitted, Landed, Accept, Reject, Believe, Done, CacheTrue,
     ReplyTrue, SeenTrue, CacheOK, SubmitOK, Submit, RestOK
<1>vain. ASSUME NEW o \in Order, NEW lost, AskedInVain(o, lost),
               UNCHANGED <<venue, posts, check, gaveUp, misread, unlisted>>
        PROVE  Here
  <2>1. AskedInVain(o, lost) /\ UNCHANGED <<venue, posts, check, gaveUp, misread, unlisted>>
    BY <1>vain
  <2>2. CASE submit[o].asks + 1 < Asks
    BY <1>0, <2>1, <2>2 DEF AskedInVain, CacheTrue, ReplyTrue, SeenTrue, CacheOK, SubmitOK,
       Submit, RestOK
  <2>3. CASE ~(submit[o].asks + 1 < Asks) /\ NeverLanded(lost)
    BY <1>0, <2>1, <2>3 DEF AskedInVain, Reject, Believe, Done, CacheTrue, ReplyTrue, SeenTrue,
       CacheOK, SubmitOK, Submit, RestOK
  <2>4. CASE ~(submit[o].asks + 1 < Asks) /\ ~NeverLanded(lost)
    BY <1>0, <2>1, <2>4 DEF AskedInVain, Done, CacheTrue, ReplyTrue, SeenTrue, CacheOK,
       SubmitOK, Submit, RestOK
  <2> QED BY <2>2, <2>3, <2>4
<1>7. ASSUME NEW o \in Order, AskNotFound(o) PROVE Here
  BY <1>7, <1>vain DEF AskNotFound
<1>8. ASSUME NEW o \in Order, AskUnanswered(o) PROVE Here
  BY <1>8, <1>vain DEF AskUnanswered
<1>9. ASSUME NEW o \in Order, CancelOrder(o) PROVE Here
  BY <1>0, <1>9 DEF CancelOrder, Believe, CacheTrue, ReplyTrue, SeenTrue, CacheOK, SubmitOK,
     Submit, RestOK
<1>unsent. ASSUME NEW o \in Order, CancelWithoutId(o) PROVE Here
  BY <1>0, <1>unsent DEF CancelWithoutId, Believe, CacheTrue, ReplyTrue, SeenTrue, CacheOK,
     SubmitOK, Submit, RestOK
<1>10. ASSUME NEW o \in Order, CancelTaken(o) PROVE Here
  BY <1>0, <1>10 DEF CancelTaken, CacheTrue, ReplyTrue, SeenTrue, CacheOK, SubmitOK, Submit,
     RestOK
<1>11. ASSUME NEW o \in Order, CancelFails(o) PROVE Here
  BY <1>0, <1>11 DEF CancelFails, Fault, Reopen, CacheTrue, ReplyTrue, SeenTrue, CacheOK,
     SubmitOK, Submit, RestOK
<1>12. ASSUME NEW o \in Order, InflightAsks(o) PROVE Here
  BY <1>0, <1>12 DEF InflightAsks, Asked, Fault, Answer, Unanswered, Holdable, Report,
     Reconcile, Believe, Reported, CacheTrue, ReplyTrue, SeenTrue, CacheOK, SubmitOK, Submit,
        RestOK
<1>13. ASSUME NEW o \in Order, InflightGivesUp(o) PROVE Here
  BY <1>0, <1>13 DEF InflightGivesUp, Believe, CacheTrue, ReplyTrue, SeenTrue, CacheOK,
     SubmitOK, Submit, RestOK
<1>14. ASSUME NEW o \in Order, MissingAsks(o) PROVE Here
  BY <1>0, <1>14 DEF MissingAsks, Asked, Fault, Answer, Unanswered, Holdable, Report,
     Reconcile, Believe, Reported, CacheTrue, ReplyTrue, SeenTrue, CacheOK, SubmitOK, Submit,
        RestOK
<1>15. ASSUME NEW o \in Order, VenueAccepts(o) PROVE Here
  BY <1>0, <1>15 DEF VenueAccepts, Waiting, CacheTrue, ReplyTrue, SeenTrue, CacheOK, SubmitOK,
     Submit, RestOK
<1>16. ASSUME NEW o \in Order, VenueRefuses(o) PROVE Here
  BY <1>0, <1>16 DEF VenueRefuses, Waiting, CacheTrue, ReplyTrue, SeenTrue, CacheOK, SubmitOK,
     Submit, RestOK
<1>17. ASSUME NEW o \in Order, PostLost(o) PROVE Here
  BY <1>0, <1>17 DEF PostLost, Fault, CacheTrue, ReplyTrue, SeenTrue, CacheOK, SubmitOK,
     Submit, RestOK
<1>18. ASSUME NEW o \in Order, VenueAnswersAsk(o) PROVE Here
  BY <1>0, <1>18 DEF VenueAnswersAsk, CacheTrue, ReplyTrue, SeenTrue, CacheOK, SubmitOK,
     Submit, RestOK
<1>19. ASSUME NEW o \in Order, VenueCancels(o) PROVE Here
  BY <1>0, <1>19 DEF VenueCancels, CacheTrue, ReplyTrue, SeenTrue, CacheOK, SubmitOK, Submit,
     RestOK
<1>20. ASSUME NEW o \in Order, DeleteLost(o) PROVE Here
  BY <1>0, <1>20 DEF DeleteLost, Fault, CacheTrue, ReplyTrue, SeenTrue, CacheOK, SubmitOK,
     Submit, RestOK
<1>21. ASSUME NEW o \in Order, VenueCloses(o) PROVE Here
  BY <1>0, <1>21 DEF VenueCloses, CacheTrue, ReplyTrue, SeenTrue, CacheOK, SubmitOK, Submit,
     RestOK
<1>22. CASE CancelAllOrders
  BY <1>0, <1>22 DEF CancelAllOrders, CacheTrue, ReplyTrue, SeenTrue, CacheOK, SubmitOK,
     Submit, RestOK
<1>23. CASE SweepListed
  BY <1>0, <1>23 DEF SweepListed, CacheTrue, ReplyTrue, SeenTrue, CacheOK, SubmitOK, Submit,
     RestOK
<1>24. CASE SweepFails
  BY <1>0, <1>24 DEF SweepFails, Fault, Reopen, CacheTrue, ReplyTrue, SeenTrue, CacheOK,
     SubmitOK, Submit, RestOK
<1>25. CASE CheckBegins
  BY <1>0, <1>25 DEF CheckBegins, CacheTrue, ReplyTrue, SeenTrue, CacheOK, SubmitOK, Submit,
     RestOK
<1>26. CASE CheckAnswered
  BY <1>0, <1>26 DEF CheckAnswered, CacheTrue, ReplyTrue, SeenTrue, CacheOK, SubmitOK, Submit,
     RestOK
<1>27. CASE CheckFails
  BY <1>0, <1>27 DEF CheckFails, Fault, CacheTrue, ReplyTrue, SeenTrue, CacheOK, SubmitOK,
     Submit, RestOK
<1>28. CASE CheckConcludes
  BY <1>0, <1>28 DEF CheckConcludes, IdleCheck, Unseen, MayConclude, Reported, CacheTrue,
     ReplyTrue, SeenTrue, CacheOK, SubmitOK, Submit, RestOK
<1>29. CASE OtherReads
  BY <1>0, <1>29 DEF OtherReads, CacheTrue, ReplyTrue, SeenTrue, CacheOK, SubmitOK, Submit,
     RestOK
<1>30. CASE OtherAnswered
  BY <1>0, <1>30 DEF OtherAnswered, CacheTrue, ReplyTrue, SeenTrue, CacheOK, SubmitOK, Submit,
     RestOK
<1>31. CASE OtherFails
  BY <1>0, <1>31 DEF OtherFails, Fault, CacheTrue, ReplyTrue, SeenTrue, CacheOK, SubmitOK,
     Submit, RestOK
<1>32. CASE Restart
  BY <1>0, <1>32 DEF Restart, NoSubmit, IdleCheck, Unseen, CacheTrue, ReplyTrue, SeenTrue,
     CacheOK, SubmitOK, Submit, RestOK
<1>33. CASE UNCHANGED vars
  BY <1>0, <1>33 DEF vars, CacheTrue, ReplyTrue, SeenTrue
<1> QED BY <1>1, <1>2, <1>3, <1>4, <1>5, <1>6, <1>7, <1>8, <1>9, <1>unsent, <1>10, <1>11, <1>12, <1>13,
   <1>14, <1>15, <1>16, <1>17, <1>18, <1>19, <1>20, <1>21, <1>22, <1>23, <1>24, <1>25, <1>26,
      <1>27, <1>28, <1>29, <1>30, <1>31, <1>32, <1>33 DEF Next, SubmitStep, CancelStep,
         InflightStep, VenueStep, SweepStep, CheckStep, OtherStep


\* What the cache, the answers and the reads say is true of the venue.
THEOREM TruthAlways == Spec => []Truth
<1> QED BY TypesAlways, TruthInit, TruthStep, PTL DEF Spec

\* An order that rests at the venue is closed in the cache only in one of
\* the four ways the property names.
THEOREM NoCorpses == Spec => []NoCorpse
<1>1. Truth => NoCorpse
  BY DEF Truth, CacheTrue, NoCorpse
<1> QED BY <1>1, TruthAlways, PTL

\* An order that is accepted in the cache, or pends a cancel that was sent, has
\* been at the venue.
THEOREM NoPhantoms == Spec => []NoPhantom
<1>1. Truth => NoPhantom
  BY DEF Truth, CacheTrue, NoPhantom
<1> QED BY <1>1, TruthAlways, PTL

-----------------------------------------------------------------------------
(* The lookup, the guard, the cancels. *)

\* The lookup accepts an order only while the cache holds it submitted.
THEOREM LookupIsConsistent == Spec => []LookupNeverContradicts
<1>1. Init => LookupNeverContradicts
  BY DEF Init, LookupNeverContradicts
<1>2. LookupNeverContradicts /\ [Next]_vars => LookupNeverContradicts'
  <2> SUFFICES ASSUME LookupNeverContradicts, [Next]_vars PROVE LookupNeverContradicts'
    OBVIOUS
  <2>1. ASSUME NEW o \in Order, PostAnswered(o) PROVE LookupNeverContradicts'
    <3>1. contradicted' \subseteq contradicted \cup {<<o, "post">>}
      BY <2>1 DEF PostAnswered, Accept
    <3>2. \A b \in Order : <<b, "lookup">> # <<o, "post">>
      OBVIOUS
    <3> QED BY <3>1, <3>2 DEF LookupNeverContradicts
  <2>2. ASSUME NEW o \in Order, AskFinds(o) PROVE LookupNeverContradicts'
    BY <2>2 DEF AskFinds, StillSubmitted, Accept, LookupNeverContradicts
  <2>3. CASE UNCHANGED contradicted
    BY <2>3 DEF LookupNeverContradicts
  <2> QED
    BY <2>1, <2>2, <2>3 DEF Next, vars, RefuseLocally, SubmitOrder, SubmitStep, PostMisread,
       PostUnanswered, AskNotFound, AskUnanswered, CancelOrder, CancelWithoutId, CancelStep, CancelTaken,
          CancelFails,
       InflightStep, InflightAsks, InflightGivesUp, MissingAsks, VenueStep, VenueAccepts,
          VenueRefuses,
       PostLost, VenueAnswersAsk, VenueCancels, DeleteLost, VenueCloses, CancelAllOrders,
          SweepStep,
       SweepListed, SweepFails, CheckStep, CheckBegins, CheckAnswered, CheckFails,
          CheckConcludes,
       OtherStep, OtherReads, OtherAnswered, OtherFails, Restart
<1> QED BY <1>1, <1>2, PTL DEF Spec

\* Each step leaves a failure to the guard, or another reader overrules it.
LEMMA QuietStep == Types /\ Quiet /\ [Next]_vars => Quiet'
<1> SUFFICES ASSUME RestOK, Quiet, [Next]_vars PROVE Quiet'
  BY DEF Types
<1>0. check.at \in {"idle", "asked", "answered", "failed"}
  BY DEF RestOK
<1>1. CASE UNCHANGED <<reads, overruled>>
  BY <1>1 DEF Quiet
<1>2. CASE CheckBegins
  BY <1>2 DEF CheckBegins, Quiet, RestOK
<1>3. CASE CheckAnswered
  BY <1>3 DEF CheckAnswered, Quiet
<1>4. CASE CheckFails
  BY <1>4 DEF CheckFails, Quiet
<1>5. CASE CheckConcludes
  BY <1>5 DEF CheckConcludes, MayConclude, IdleCheck, Quiet
<1>6. CASE OtherReads
  BY <1>6 DEF OtherReads, Quiet
<1>7. CASE OtherAnswered
  BY <1>7 DEF OtherAnswered, Quiet
<1>8. CASE OtherFails
  BY <1>8 DEF OtherFails, Quiet
<1>9. CASE Restart
  BY <1>9 DEF Restart, IdleCheck, Quiet
<1> QED
  BY <1>1, <1>2, <1>3, <1>4, <1>5, <1>6, <1>7, <1>8, <1>9 DEF Next, vars, RefuseLocally,
     SubmitOrder,
     SubmitStep, PostAnswered, PostMisread, PostUnanswered, AskFinds, AskNotFound,
        AskUnanswered,
     CancelOrder, CancelWithoutId, CancelStep, CancelTaken, CancelFails, InflightStep, InflightAsks,
        InflightGivesUp,
     MissingAsks, VenueStep, VenueAccepts, VenueRefuses, PostLost, VenueAnswersAsk,
        VenueCancels,
     DeleteLost, VenueCloses, CancelAllOrders, SweepStep, SweepListed, SweepFails, CheckStep,
        OtherStep

\* A failed read gives no order a strike unless another reader overruled it.
THEOREM SilenceIsNoAnswer == Spec => NothingFromSilence
<1> DEFINE Silent == check.at = "failed" /\ check'.at = "idle" /\ ~overruled =>
                         \A o \in Order : strikes'[o] <= strikes[o]
<1>1. Init => Quiet
  BY DEF Init, Quiet, IdleCheck
<1>2. Types /\ Quiet /\ [Next]_vars => [Silent]_vars
  <2> SUFFICES ASSUME CacheOK, RestOK, Quiet, [Next]_vars,
                      check.at = "failed", check'.at = "idle", ~overruled,
                      NEW o \in Order
               PROVE  strikes'[o] <= strikes[o]
    BY DEF Types
  <2>0. strikes[o] \in Nat
    BY DEF CacheOK
  <2>1. CASE CheckConcludes
    BY <2>0, <2>1 DEF CheckConcludes, MayConclude, Quiet
  <2>2. CASE Restart
    BY <2>0, <2>2 DEF Restart
  <2>3. CASE UNCHANGED check
    BY <2>3
  <2> QED
    BY <2>1, <2>2, <2>3 DEF Next, vars, RefuseLocally, SubmitOrder, SubmitStep, PostAnswered,
       PostMisread, PostUnanswered, AskFinds, AskNotFound, AskUnanswered, CancelOrder,
       CancelWithoutId, CancelStep, CancelTaken, CancelFails, InflightStep, InflightAsks,
       InflightGivesUp, MissingAsks, VenueStep, VenueAccepts, VenueRefuses, PostLost,
       VenueAnswersAsk, VenueCancels, DeleteLost, VenueCloses, CancelAllOrders, SweepStep,
       SweepListed, SweepFails, CheckStep, CheckBegins, CheckAnswered, CheckFails, OtherStep,
       OtherReads, OtherAnswered, OtherFails
<1> QED BY <1>1, <1>2, QuietStep, TypesAlways, PTL DEF Spec, NothingFromSilence

\* Each step leaves a pending cancel of a resting order to somebody.
LEMMA PursuitStep == Types /\ Truth /\ Pursuit /\ [Next]_vars => Pursuit'
<1> SUFFICES ASSUME CacheOK, RestOK, Truth, Pursuit, [Next]_vars, NEW b \in Order
             PROVE  /\ (cancel[b] = "taken" => venue[b] = "canceled")'
                    /\ (crashes = 0 /\ cached[b] = "PENDING_CANCEL" /\ venue[b] = "live"
                           => cancel[b] # "none" \/ sweeping)'
  BY DEF Types, Pursuit, CancelPursued
<1> DEFINE Here == /\ (cancel[b] = "taken" => venue[b] = "canceled")'
                   /\ (crashes = 0 /\ cached[b] = "PENDING_CANCEL" /\ venue[b] = "live"
                          => cancel[b] # "none" \/ sweeping)'
<1>0. /\ cancel[b] = "taken" => venue[b] = "canceled"
      /\ crashes = 0 /\ cached[b] = "PENDING_CANCEL" /\ venue[b] = "live"
             => cancel[b] # "none" \/ sweeping
      /\ cached[b] \in {"ACCEPTED", "PENDING_CANCEL"} => venue[b] # "none"
      /\ b \in posts => venue[b] = "none"
      /\ crashes \in Nat
  BY Bounds DEF Pursuit, CancelPursued, Truth, CacheTrue, RestOK
<1> USE DEF Dead, CancelPending, Verdict, Record, Status, CacheOK, RestOK
<1>1. ASSUME NEW o \in Order, RefuseLocally(o) PROVE Here
  BY <1>0, <1>1 DEF RefuseLocally, Believe
<1>2. ASSUME NEW o \in Order, SubmitOrder(o) PROVE Here
  BY <1>0, <1>2 DEF SubmitOrder, Believe
<1>3. ASSUME NEW o \in Order, PostAnswered(o) PROVE Here
  BY <1>0, <1>3 DEF PostAnswered, Accept, Believe, Reject
<1>4. ASSUME NEW o \in Order, PostMisread(o) PROVE Here
  BY <1>0, <1>4 DEF PostMisread, Fault, Reject, Believe
<1>5. ASSUME NEW o \in Order, PostUnanswered(o) PROVE Here
  BY <1>0, <1>5 DEF PostUnanswered, Fault
<1>6. ASSUME NEW o \in Order, AskFinds(o) PROVE Here
  BY <1>0, <1>6 DEF AskFinds, StillSubmitted, Landed, Accept, Reject, Believe
<1>7. ASSUME NEW o \in Order, AskNotFound(o) PROVE Here
  BY <1>0, <1>7 DEF AskNotFound, AskedInVain, NeverLanded, Reject, Believe
<1>8. ASSUME NEW o \in Order, AskUnanswered(o) PROVE Here
  BY <1>0, <1>8 DEF AskUnanswered, Fault, AskedInVain, NeverLanded, Reject, Believe
<1>9. ASSUME NEW o \in Order, CancelOrder(o) PROVE Here
  BY <1>0, <1>9 DEF CancelOrder, Believe
<1>unsent. ASSUME NEW o \in Order, CancelWithoutId(o) PROVE Here
  BY <1>0, <1>unsent DEF CancelWithoutId, Believe
<1>10. ASSUME NEW o \in Order, CancelTaken(o) PROVE Here
  BY <1>0, <1>10 DEF CancelTaken
<1>11. ASSUME NEW o \in Order, CancelFails(o) PROVE Here
  BY <1>0, <1>11 DEF CancelFails, Fault, Reopen
<1>12. ASSUME NEW o \in Order, InflightAsks(o) PROVE Here
  BY <1>0, <1>12 DEF InflightAsks, Asked, Fault, Answer, Unanswered, Holdable, Report,
     Reconcile, Believe, Reported
<1>13. ASSUME NEW o \in Order, InflightGivesUp(o) PROVE Here
  BY <1>0, <1>13 DEF InflightGivesUp, Believe
<1>14. ASSUME NEW o \in Order, MissingAsks(o) PROVE Here
  BY <1>0, <1>14 DEF MissingAsks, Asked, Fault, Answer, Unanswered, Holdable, Report,
     Reconcile, Believe, Reported
<1>15. ASSUME NEW o \in Order, VenueAccepts(o) PROVE Here
  BY <1>0, <1>15 DEF VenueAccepts
<1>16. ASSUME NEW o \in Order, VenueRefuses(o) PROVE Here
  BY <1>0, <1>16 DEF VenueRefuses
<1>17. ASSUME NEW o \in Order, PostLost(o) PROVE Here
  BY <1>0, <1>17 DEF PostLost, Fault
<1>18. ASSUME NEW o \in Order, VenueAnswersAsk(o) PROVE Here
  BY <1>0, <1>18 DEF VenueAnswersAsk
<1>19. ASSUME NEW o \in Order, VenueCancels(o) PROVE Here
  BY <1>0, <1>19 DEF VenueCancels
<1>20. ASSUME NEW o \in Order, DeleteLost(o) PROVE Here
  BY <1>0, <1>20 DEF DeleteLost, Fault
<1>21. ASSUME NEW o \in Order, VenueCloses(o) PROVE Here
  BY <1>0, <1>21 DEF VenueCloses
<1>22. CASE CancelAllOrders
  BY <1>0, <1>22 DEF CancelAllOrders
<1>23. CASE SweepListed
  BY <1>0, <1>23 DEF SweepListed
<1>24. CASE SweepFails
  BY <1>0, <1>24 DEF SweepFails, Fault, Reopen
<1>25. CASE CheckBegins
  BY <1>0, <1>25 DEF CheckBegins
<1>26. CASE CheckAnswered
  BY <1>0, <1>26 DEF CheckAnswered
<1>27. CASE CheckFails
  BY <1>0, <1>27 DEF CheckFails, Fault
<1>28. CASE CheckConcludes
  BY <1>0, <1>28 DEF CheckConcludes, IdleCheck, Unseen, MayConclude, Reported
<1>29. CASE OtherReads
  BY <1>0, <1>29 DEF OtherReads
<1>30. CASE OtherAnswered
  BY <1>0, <1>30 DEF OtherAnswered
<1>31. CASE OtherFails
  BY <1>0, <1>31 DEF OtherFails, Fault
<1>32. CASE Restart
  BY <1>0, <1>32 DEF Restart, IdleCheck, Unseen
<1>33. CASE UNCHANGED vars
  BY <1>0, <1>33 DEF vars
<1> QED BY <1>1, <1>2, <1>3, <1>4, <1>5, <1>6, <1>7, <1>8, <1>9, <1>unsent, <1>10, <1>11, <1>12, <1>13,
   <1>14, <1>15, <1>16, <1>17, <1>18, <1>19, <1>20, <1>21, <1>22, <1>23, <1>24, <1>25, <1>26,
      <1>27, <1>28, <1>29, <1>30, <1>31, <1>32, <1>33 DEF Next, SubmitStep, CancelStep,
         InflightStep, VenueStep, SweepStep, CheckStep, OtherStep

\* Without a restart, an order that rests and pends a cancel that was sent has
\* a task.
THEOREM CancelsArePursued == Spec => []CancelPursued
<1>1. Init => Pursuit
  BY DEF Init, Pursuit, CancelPursued
<1>2. Pursuit => CancelPursued
  BY DEF Pursuit
<1> QED BY <1>1, <1>2, TypesAlways, TruthAlways, PursuitStep, PTL DEF Spec
=============================================================================
