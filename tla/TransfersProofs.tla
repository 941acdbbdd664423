-------------------------- MODULE TransfersProofs --------------------------
(***************************************************************************)
(* Proofs about Transfers for any set of strategies and transfers, any     *)
(* quantities and positions, and any number of trades, crashes and faults. *)
(***************************************************************************)
EXTENDS Transfers, Totals, TLAPS

LEMMA HeadTailLeg ==
  ASSUME NEW S, NEW q \in Seq(S), q # <<>>
  PROVE  Head(q) \in S /\ Tail(q) \in Seq(S)
  OBVIOUS

LEMMA ElementLeg ==
  ASSUME NEW S, NEW q \in Seq(S), NEW i \in DOMAIN q
  PROVE  q[i] \in S
  OBVIOUS

\* The furthest event of a non-empty log is one of its events.
LEMMA FoldType ==
  ASSUME NEW es \in SUBSET Event, es # {}
  PROVE  Fold(es) \in es
<1>1. \A e \in Event : Rank(e) \in Nat
  BY DEF Event, Rank
<1>2. SUFFICES \E e \in es : \A d \in es : Rank(d) <= Rank(e)
  BY <1>2 DEF Fold
<1>3. CASE "COMPLETED" \in es
  BY <1>3 DEF Event, Rank
<1>4. CASE "COMPLETED" \notin es /\ "DEST_APPLIED" \in es
  BY <1>4 DEF Event, Rank
<1>5. CASE es \subseteq {"PREPARED", "FAILED", "SOURCE_APPLIED"} /\ "SOURCE_APPLIED" \in es
  BY <1>5 DEF Event, Rank
<1>6. CASE es \subseteq {"PREPARED", "FAILED"} /\ "FAILED" \in es
  BY <1>6 DEF Event, Rank
<1>7. CASE es \subseteq {"PREPARED"}
  BY <1>7 DEF Event, Rank
<1> QED BY <1>3, <1>4, <1>5, <1>6, <1>7 DEF Event

\* What recovery reads is well formed and has rows.
LEMMA IncompleteType ==
  ASSUME TypeOK
  PROVE  /\ Incomplete \subseteq [id : Transfer, state : Event \ {"COMPLETED"}]
         /\ \A p \in Incomplete : log[p.id] # {}
<1> SUFFICES ASSUME NEW p \in Incomplete
             PROVE  /\ p \in [id : Transfer, state : Event \ {"COMPLETED"}]
                    /\ log[p.id] # {}
  OBVIOUS
<1>1. PICK t \in Transfer : /\ log[t] # {} /\ Fold(log[t]) # "COMPLETED"
                            /\ p = [id |-> t, state |-> Fold(log[t])]
  BY DEF Incomplete
<1>2. log[t] \in SUBSET Event
  BY DEF TypeOK
<1>3. Fold(log[t]) \in Event
  BY <1>1, <1>2, FoldType
<1> QED BY <1>1, <1>3

LEMMA LegFacts ==
  ASSUME NEW l \in Leg
  PROVE  LegDelta(l) \in Int /\ LegStrategy(l) \in Strategy
<1>1. l[1] \in Transfer /\ Side[l[1]] \in {"LONG", "SHORT"} /\ Qty[l[1]] \in Nat
  BY TransferAssumption DEF Leg
<1>2. LegDelta(l) \in Int
  BY <1>1 DEF LegDelta, Sign
<1> QED BY <1>1, <1>2, TransferAssumption DEF LegStrategy

LEMMA LegsOf ==
  ASSUME NEW t \in Transfer
  PROVE  LegSet(t) \subseteq Leg /\ <<t, "SRC">> \in Leg /\ <<t, "DST">> \in Leg
         /\ FirstMissing(t) \in LegSet(t)
  BY DEF LegSet, Leg, FirstMissing

-----------------------------------------------------------------------------
(* Types. *)

LEMMA TypeInit == Init => TypeOK
  BY TransferAssumption DEF Init, TypeOK, Leg, None, Event

LEMMA LogType ==
  ASSUME TypeOK, NEW t \in Transfer, NEW e \in Event, log' = log \/ Recorded(t, e)
  PROVE  log' \in [Transfer -> SUBSET Event]
<1>1. log \in [Transfer -> SUBSET Event]
  BY DEF TypeOK
<1> QED BY <1>1 DEF Recorded

LEMMA TypeEnvironment ==
  ASSUME TypeOK, Environment
  PROVE  TypeOK'
<1>1. ASSUME NEW t \in Transfer, Send(t) PROVE TypeOK'
  BY <1>1 DEF Send, TypeOK, legs, handler, recovery, bounds
<1>2. ASSUME NEW s \in Strategy, PlaceExit(s) PROVE TypeOK'
  <2>1. Abs(pos[s]) \in Nat
    BY DEF TypeOK, Abs
  <2> QED BY <1>2, <2>1 DEF PlaceExit, TypeOK, legs, handler, recovery
<1>3. ASSUME NEW s \in Strategy, NEW d \in {-1, 1}, Trade(s, d) PROVE TypeOK'
  BY <1>3 DEF Trade, Moved, TypeOK, legs, handler, recovery
<1> QED BY <1>1, <1>2, <1>3 DEF Environment

LEMMA TypeHandle ==
  ASSUME TypeOK, Handle
  PROVE  TypeOK'
<1>1. ASSUME NEW t \in Transfer, AlreadyApplied(t) \/ Refuse(t) \/ Accept(t) PROVE TypeOK'
  BY <1>1 DEF AlreadyApplied, Refuse, Accept, Handling, Answer, TypeOK, book, legs,
              recovery, bounds, Awaiting
<1>2. CASE RecordStep
  <2>1. EventOf(pc) \in Event /\ After(pc) \in Awaiting \cup {"source", "dest"}
    BY <1>2 DEF RecordStep, EventOf, After, Awaiting, Event
  <2> QED BY <1>2, <2>1
          DEF RecordStep, Recorded, TypeOK, book, legs, recovery, bounds, Awaiting
<1>3. CASE RecordCompleted
  BY <1>3 DEF RecordCompleted, Recorded, Answer, Event, TypeOK, book, legs, recovery,
              bounds, Awaiting
<1>4. CASE RecordFails
  <2>1. EventOf(pc) \in Event /\ pc # "idle" /\ cur \in Transfer
    BY <1>4 DEF RecordFails, EventOf, Awaiting, Event, TypeOK
  <2>2. log' \in [Transfer -> SUBSET Event]
    BY <1>4, <2>1 DEF RecordFails, Recorded, TypeOK
  <2> QED BY <1>4, <2>1, <2>2
          DEF RecordFails, Answer, Fault, TypeOK, book, legs, recovery
<1>5. CASE ApplyLeg
  <2>1. cur \in Transfer /\ <<cur, LegOf(pc)>> \in Leg /\ Booked(pc) \in Awaiting
    BY <1>5 DEF ApplyLeg, TypeOK, Leg, LegOf, Booked, Awaiting
  <2>2. evq' \in Seq(Leg)
    BY <1>5, <2>1 DEF ApplyLeg, BookLeg, TypeOK
  <2> QED BY <1>5, <2>1, <2>2 DEF ApplyLeg, BookLeg, TypeOK, Awaiting, book, recovery, bounds
<1>6. CASE ApplyLegRaises
  <2>1. cur \in Transfer /\ <<cur, LegOf(pc)>> \in Leg
    BY <1>6 DEF ApplyLegRaises, TypeOK, Leg, LegOf
  <2> QED BY <1>6, <2>1 DEF ApplyLegRaises, LegRaises, TypeOK, book, recovery, bounds
<1>7. CASE RecordFailed
  <2>1. cur \in Transfer
    BY <1>7 DEF RecordFailed, TypeOK
  <2>2. log' \in [Transfer -> SUBSET Event]
    <3>1. {"COMPLETED", "FAILED"} \subseteq Event
      BY DEF Event
    <3> QED BY <1>7, <2>1, <3>1, LogType DEF RecordFailed
  <2>3. faults' \in Nat
    BY <1>7 DEF RecordFailed, Fault, TypeOK
  <2> QED BY <1>7, <2>1, <2>2, <2>3 DEF RecordFailed, Answer, TypeOK, book, legs, recovery
<1> QED BY <1>1, <1>2, <1>3, <1>4, <1>5, <1>6, <1>7 DEF Handle

LEMMA TypeRecover ==
  ASSUME TypeOK, Recover
  PROVE  TypeOK'
<1>1. CASE RecoverRead
  BY <1>1, IncompleteType DEF RecoverRead, Fault, TypeOK, book, legs, handler
<1>2. CASE RecoverRecord
  <2>1. rcur \in Transfer
    BY <1>2 DEF RecoverRecord, TypeOK
  <2>2. log' \in [Transfer -> SUBSET Event]
    <3>1. {"COMPLETED", "FAILED"} \subseteq Event
      BY DEF Event
    <3> QED BY <1>2, <2>1, <3>1, LogType DEF RecoverRecord
  <2>3. faults' \in Nat
    BY <1>2 DEF RecoverRecord, Fault, TypeOK
  <2> QED BY <1>2, <2>1, <2>2, <2>3 DEF RecoverRecord, TypeOK, book, legs, handler
<1>3. CASE RecoverFailed
  <2>1. rcur \in Transfer
    BY <1>3 DEF RecoverFailed, TypeOK
  <2>2. log' \in [Transfer -> SUBSET Event]
    <3>1. {"COMPLETED", "FAILED"} \subseteq Event
      BY DEF Event
    <3> QED BY <1>3, <2>1, <3>1, LogType DEF RecoverFailed
  <2>3. faults' \in Nat
    BY <1>3 DEF RecoverFailed, Fault, TypeOK
  <2> QED BY <1>3, <2>1, <2>2, <2>3 DEF RecoverFailed, TypeOK, book, legs, handler
<1>4. CASE RecoverDone
  BY <1>4 DEF RecoverDone, TypeOK, book, legs, handler, bounds
<1>5. ASSUME NEW p \in todo, RecoverSkip(p) PROVE TypeOK'
  BY <1>5 DEF RecoverSkip, TypeOK, book, legs, handler, bounds
<1>6. ASSUME NEW p \in todo, RecoverLegs(p) PROVE TypeOK'
  <2>1. p.id \in Transfer
    BY DEF TypeOK
  <2>2. evq' \in Seq(Leg)
    BY <1>6, <2>1, LegsOf DEF RecoverLegs, QueuedIfMissing, TypeOK
  <2>3. orders' \subseteq Leg
    BY <1>6, <2>1, LegsOf DEF RecoverLegs, TypeOK
  <2> QED BY <1>6, <2>1, <2>2, <2>3 DEF RecoverLegs, TypeOK, book, handler, bounds
<1>7. ASSUME NEW p \in todo, RecoverRaises(p) PROVE TypeOK'
  <2>1. p.id \in Transfer
    BY DEF TypeOK
  <2>2. FirstMissing(p.id) \in Leg
    BY <2>1, LegsOf
  <2> QED BY <1>7, <2>1, <2>2 DEF RecoverRaises, TypeOK, book, handler, bounds
<1> QED BY <1>1, <1>2, <1>3, <1>4, <1>5, <1>6, <1>7 DEF Recover

LEMMA TypeRest ==
  ASSUME TypeOK, ProcessFill \/ Crash \/ Restart
  PROVE  TypeOK'
<1>1. CASE ProcessFill
  <2>1. Head(evq) \in Leg /\ Tail(evq) \in Seq(Leg)
    BY <1>1, HeadTailLeg DEF ProcessFill, TypeOK
  <2>2. pos' \in [Strategy -> Int] /\ fills' \in [Leg -> Nat]
    BY <1>1, <2>1, LegFacts DEF ProcessFill, TypeOK
  <2> QED BY <1>1, <2>1, <2>2 DEF ProcessFill, Moved, TypeOK, handler, recovery, bounds
<1>2. CASE Crash
  <2>1. {evq[i] : i \in DOMAIN evq} \subseteq Leg
    BY DEF TypeOK
  <2>2. up' \in BOOLEAN
    BY <1>2 DEF Crash
  <2>5. evq' \in Seq(Leg)
    BY <1>2 DEF Crash
  <2>3. lost' \subseteq Leg
    <3>1. lost' = lost \cup {evq[i] : i \in DOMAIN evq}
      BY <1>2 DEF Crash
    <3>2. lost \subseteq Leg
      BY DEF TypeOK
    <3> QED BY <2>1, <3>1, <3>2
  <2>4. crashes' \in Nat
    BY <1>2 DEF Crash, TypeOK
  <2> QED BY <1>2, <2>2, <2>3, <2>4, <2>5 DEF Crash, TypeOK, book
<1>3. CASE Restart
  <2>1. up' \in BOOLEAN
    BY <1>3 DEF Restart
  <2> QED BY <1>3, <2>1 DEF Restart, TypeOK, book, legs, handler, bounds
<1> QED BY <1>1, <1>2, <1>3

LEMMA TypeStep == TypeOK /\ [Next]_vars => TypeOK'
<1> SUFFICES ASSUME TypeOK, [Next]_vars PROVE TypeOK'
  OBVIOUS
<1>1. CASE Next
  BY <1>1, TypeEnvironment, TypeHandle, TypeRecover, TypeRest DEF Next
<1>2. CASE UNCHANGED vars
  BY <1>2 DEF vars, TypeOK
<1> QED BY <1>1, <1>2

\* Every variable keeps its type: TypeOK is inductive on its own.
THEOREM TypeCorrect == Spec => []TypeOK
<1>1. Init => TypeOK
  BY TypeInit
<1>2. TypeOK /\ [Next]_vars => TypeOK'
  BY TypeStep
<1> QED BY <1>1, <1>2, PTL DEF Spec

-----------------------------------------------------------------------------
(* Each leg is booked once. *)

\* A queued fill belongs to a cached leg that is not booked yet, and a leg is
\* queued once: this is what makes LegBookedOnce inductive.
LegsSettle ==
    /\ \A i \in DOMAIN evq : evq[i] \in orders /\ fills[evq[i]] = 0
    /\ \A i, j \in DOMAIN evq : evq[i] = evq[j] => i = j
    /\ \A l \in Leg : fills[l] <= 1 /\ (fills[l] > 0 => l \in orders)

\* Caching a new leg and queueing its fill keeps LegsSettle.
LEMMA AppendSettles ==
  ASSUME NEW S, NEW q \in Seq(S), NEW l \in S, NEW O, l \notin O,
         NEW F \in [S -> Nat], F[l] = 0,
         \A i \in DOMAIN q : q[i] \in O /\ F[q[i]] = 0,
         \A i, j \in DOMAIN q : q[i] = q[j] => i = j
  PROVE  /\ Append(q, l) \in Seq(S)
         /\ \A i \in DOMAIN Append(q, l) :
               Append(q, l)[i] \in O \cup {l} /\ F[Append(q, l)[i]] = 0
         /\ \A i, j \in DOMAIN Append(q, l) :
               Append(q, l)[i] = Append(q, l)[j] => i = j
<1> DEFINE r == Append(q, l)
<1>1. r \in Seq(S) /\ DOMAIN r = 1 .. Len(q) + 1 /\ DOMAIN q = 1 .. Len(q)
  OBVIOUS
<1>2. \A i \in DOMAIN r : IF i = Len(q) + 1 THEN r[i] = l ELSE i \in DOMAIN q /\ r[i] = q[i]
  OBVIOUS
<1>3. \A i \in DOMAIN q : q[i] # l
  OBVIOUS
<1> HIDE DEF r
<1>4. \A i \in DOMAIN r : r[i] \in O \cup {l} /\ F[r[i]] = 0
  BY <1>1, <1>2
<1>5. \A i, j \in DOMAIN r : r[i] = r[j] => i = j
  BY <1>1, <1>2, <1>3
<1> QED BY <1>1, <1>4, <1>5 DEF r

\* Taking the head off a queue without repetitions leaves the head nowhere.
LEMMA TailSettles ==
  ASSUME NEW S, NEW q \in Seq(S), q # <<>>,
         \A i, j \in DOMAIN q : q[i] = q[j] => i = j
  PROVE  /\ \A i \in DOMAIN Tail(q) : \E k \in DOMAIN q : k # 1 /\ Tail(q)[i] = q[k]
         /\ \A i \in DOMAIN Tail(q) : Tail(q)[i] # Head(q)
         /\ \A i, j \in DOMAIN Tail(q) : Tail(q)[i] = Tail(q)[j] => i = j
         /\ 1 \in DOMAIN q /\ Head(q) = q[1]
<1>1. DOMAIN q = 1 .. Len(q) /\ Len(q) \in Nat /\ Len(q) > 0
  OBVIOUS
<1>2. DOMAIN Tail(q) = 1 .. Len(q) - 1 /\ Head(q) = q[1]
  BY <1>1
<1>3. \A i \in DOMAIN Tail(q) : Tail(q)[i] = q[i + 1] /\ i + 1 \in DOMAIN q /\ i + 1 # 1
  BY <1>1, <1>2
<1>4. \A i, j \in DOMAIN Tail(q) : Tail(q)[i] = Tail(q)[j] => i = j
  BY <1>2, <1>3
<1> QED BY <1>1, <1>2, <1>3, <1>4

LEMMA SettleBook ==
  ASSUME TypeOK, LegsSettle, NEW l \in Leg, BookLeg(l)
  PROVE  LegsSettle'
<1>1. l \notin orders /\ orders' = orders \cup {l} /\ evq' = Append(evq, l) /\ fills' = fills
  BY DEF BookLeg, legs
<1>2. fills[l] = 0 /\ evq \in Seq(Leg) /\ fills \in [Leg -> Nat]
  BY <1>1 DEF TypeOK, LegsSettle
<1>3. /\ \A i \in DOMAIN evq' : evq'[i] \in orders' /\ fills'[evq'[i]] = 0
      /\ \A i, j \in DOMAIN evq' : evq'[i] = evq'[j] => i = j
  BY <1>1, <1>2, AppendSettles DEF LegsSettle
<1> QED BY <1>1, <1>3 DEF LegsSettle

\* A step that books nothing, whatever it caches, keeps LegsSettle.
LEMMA SettleCache ==
  ASSUME LegsSettle, orders \subseteq orders', evq' = evq, fills' = fills
  PROVE  LegsSettle'
  BY DEF LegsSettle

LEMMA SettleRecover ==
  ASSUME TypeOK, LegsSettle, NEW p \in todo, RecoverLegs(p)
  PROVE  LegsSettle'
<1> DEFINE s == <<p.id, "SRC">>
           d == <<p.id, "DST">>
           q == QueuedIfMissing(evq, s)
           O == orders \cup {s}
<1>1. p.id \in Transfer /\ s \in Leg /\ d \in Leg /\ s # d
  BY LegsOf DEF TypeOK
<1>2. /\ evq' = QueuedIfMissing(q, d) /\ orders' = O \cup {d} /\ fills' = fills
  BY DEF RecoverLegs, LegSet
<1>3. /\ evq \in Seq(Leg) /\ fills \in [Leg -> Nat]
      /\ (s \notin orders => fills[s] = 0) /\ (d \notin orders => fills[d] = 0)
  BY <1>1 DEF TypeOK, LegsSettle
<1>4. /\ q \in Seq(Leg)
      /\ \A i \in DOMAIN q : q[i] \in O /\ fills[q[i]] = 0
      /\ \A i, j \in DOMAIN q : q[i] = q[j] => i = j
  <2>1. CASE s \in orders
    BY <1>3, <2>1 DEF QueuedIfMissing, LegsSettle
  <2>2. CASE s \notin orders
    <3>1. q = Append(evq, s) /\ fills[s] = 0
      BY <1>3, <2>2 DEF QueuedIfMissing
    <3>2. /\ \A i \in DOMAIN evq : evq[i] \in orders /\ fills[evq[i]] = 0
          /\ \A i, j \in DOMAIN evq : evq[i] = evq[j] => i = j
      BY DEF LegsSettle
    <3> HIDE DEF q, s
    <3> QED BY <1>1, <1>3, <2>2, <3>1, <3>2, AppendSettles
  <2> QED BY <2>1, <2>2
<1> HIDE DEF q, s, d
<1>5. /\ \A i \in DOMAIN evq' : evq'[i] \in orders' /\ fills'[evq'[i]] = 0
      /\ \A i, j \in DOMAIN evq' : evq'[i] = evq'[j] => i = j
  <2>1. CASE d \in orders
    BY <1>2, <1>4, <2>1 DEF QueuedIfMissing
  <2>2. CASE d \notin orders
    <3>1. d \notin O
      BY <1>1, <2>2
    <3>2. evq' = Append(q, d) /\ fills[d] = 0
      BY <1>2, <1>3, <2>2 DEF QueuedIfMissing
    <3> HIDE DEF O
    <3> QED BY <1>1, <1>2, <1>3, <1>4, <3>1, <3>2, AppendSettles
  <2> QED BY <2>1, <2>2
<1>6. \A l \in Leg : fills'[l] <= 1 /\ (fills'[l] > 0 => l \in orders')
  BY <1>2 DEF LegsSettle
<1> QED BY <1>5, <1>6 DEF LegsSettle

LEMMA SettleFill ==
  ASSUME TypeOK, LegsSettle, ProcessFill
  PROVE  LegsSettle'
<1>1. /\ evq \in Seq(Leg) /\ evq # <<>> /\ evq' = Tail(evq) /\ orders' = orders
      /\ fills \in [Leg -> Nat]
      /\ fills' = [fills EXCEPT ![Head(evq)] = @ + 1]
  BY DEF ProcessFill, TypeOK
<1>2. Head(evq) \in Leg
  BY <1>1, HeadTailLeg
<1>3. /\ \A i \in DOMAIN Tail(evq) : \E k \in DOMAIN evq : k # 1 /\ Tail(evq)[i] = evq[k]
      /\ \A i \in DOMAIN Tail(evq) : Tail(evq)[i] # Head(evq)
      /\ \A i, j \in DOMAIN Tail(evq) : Tail(evq)[i] = Tail(evq)[j] => i = j
      /\ 1 \in DOMAIN evq /\ Head(evq) = evq[1]
  BY <1>1, TailSettles DEF LegsSettle
<1>4. fills[Head(evq)] = 0 /\ Head(evq) \in orders
  BY <1>3 DEF LegsSettle
<1>5. Tail(evq) \in Seq(Leg)
  BY <1>1, HeadTailLeg
<1>6. \A i \in DOMAIN evq' : evq'[i] \in orders' /\ fills'[evq'[i]] = 0
  <2> SUFFICES ASSUME NEW i \in DOMAIN Tail(evq)
               PROVE  Tail(evq)[i] \in orders /\ fills'[Tail(evq)[i]] = 0
    BY <1>1
  <2>1. Tail(evq)[i] # Head(evq)
    BY <1>3
  <2>2. PICK k \in DOMAIN evq : Tail(evq)[i] = evq[k]
    BY <1>3
  <2>3. evq[k] \in orders /\ fills[evq[k]] = 0
    BY DEF LegsSettle
  <2>4. Tail(evq)[i] \in Leg
    BY <1>5, ElementLeg
  <2> QED BY <1>1, <1>2, <2>1, <2>2, <2>3, <2>4
<1>7. \A i, j \in DOMAIN evq' : evq'[i] = evq'[j] => i = j
  BY <1>1, <1>3
<1>8. \A l \in Leg : fills'[l] <= 1 /\ (fills'[l] > 0 => l \in orders')
  BY <1>1, <1>2, <1>4 DEF LegsSettle
<1> QED BY <1>6, <1>7, <1>8 DEF LegsSettle

LEMMA SettleStep == TypeOK /\ LegsSettle /\ [Next]_vars => LegsSettle'
<1> SUFFICES ASSUME TypeOK, LegsSettle, [Next]_vars PROVE LegsSettle'
  OBVIOUS
<1>1. CASE Environment
  <2>1. UNCHANGED legs
    BY <1>1 DEF Environment, Send, PlaceExit, Trade
  <2> QED BY <2>1, SettleCache DEF legs
<1>2. CASE Handle
  <2>1. CASE ApplyLeg
    <3>1. <<cur, LegOf(pc)>> \in Leg
      BY <2>1 DEF ApplyLeg, TypeOK, Leg, LegOf
    <3> QED BY <2>1, <3>1, SettleBook DEF ApplyLeg
  <2>2. CASE ApplyLegRaises
    <3>1. orders \subseteq orders' /\ evq' = evq /\ fills' = fills
      BY <2>2 DEF ApplyLegRaises, LegRaises
    <3> QED BY <3>1, SettleCache
  <2>3. CASE ~ApplyLeg /\ ~ApplyLegRaises
    <3>1. UNCHANGED legs
      BY <1>2, <2>3 DEF Handle, AlreadyApplied, Refuse, Accept, RecordStep, RecordCompleted,
                         RecordFails, RecordFailed
    <3> QED BY <3>1, SettleCache DEF legs
  <2> QED BY <2>1, <2>2, <2>3
<1>3. CASE Recover
  <2>1. ASSUME NEW p \in todo, RecoverLegs(p) PROVE LegsSettle'
    BY <2>1, SettleRecover
  <2>2. ASSUME NEW p \in todo, RecoverRaises(p) PROVE LegsSettle'
    <3>1. orders \subseteq orders' /\ evq' = evq /\ fills' = fills
      BY <2>2 DEF RecoverRaises
    <3> QED BY <3>1, SettleCache
  <2>3. CASE RecoverRead \/ RecoverRecord \/ RecoverFailed \/ RecoverDone
             \/ \E p \in todo : RecoverSkip(p)
    <3>1. UNCHANGED legs
      BY <2>3 DEF RecoverRead, RecoverRecord, RecoverFailed, RecoverDone, RecoverSkip
    <3> QED BY <3>1, SettleCache DEF legs
  <2> QED BY <1>3, <2>1, <2>2, <2>3 DEF Recover
<1>4. CASE ProcessFill
  BY <1>4, SettleFill
<1>5. CASE Crash
  BY <1>5 DEF Crash, LegsSettle
<1>6. CASE Restart
  <2>1. UNCHANGED legs
    BY <1>6 DEF Restart
  <2> QED BY <2>1, SettleCache DEF legs
<1>7. CASE UNCHANGED vars
  <2>1. UNCHANGED legs
    BY <1>7 DEF vars, legs
  <2> QED BY <2>1, SettleCache DEF legs
<1> QED BY <1>1, <1>2, <1>3, <1>4, <1>5, <1>6, <1>7 DEF Next

\* No leg of any transfer is booked twice, however the handler, a redelivered
\* command, the recovery task and crashes interleave (LegBookedOnce).
THEOREM BookedOnce == Spec => []LegBookedOnce
<1>1. Init => LegsSettle
  BY DEF Init, LegsSettle
<1>2. TypeOK /\ LegsSettle /\ [Next]_vars => LegsSettle'
  BY SettleStep
<1>3. LegsSettle => LegBookedOnce
  BY DEF LegsSettle, LegBookedOnce
<1> QED BY <1>1, <1>2, <1>3, TypeCorrect, PTL DEF Spec

-----------------------------------------------------------------------------
(* The outbox covers the legs. *)

\* Where the handler and the recovery task stand, the rows and the legs that
\* their next step relies on are there already.
RowsLead ==
    /\ pc \notin {"idle", "prepare"} => log[cur] # {}
    /\ pc \in {"source_booked", "dest", "dest_booked", "complete"} => <<cur, "SRC">> \in orders
    /\ pc \in {"dest_booked", "complete"} => <<cur, "DST">> \in orders
    /\ \A p \in todo : log[p.id] # {}
    /\ rpc \in {"complete", "failed"} => log[rcur] # {}
    /\ rpc = "complete" => LegSet(rcur) \subseteq orders

Covered == OutboxCoversLegs /\ RowsLead

\* Rows and legs only accumulate: a step that adds to them keeps what both
\* invariants say of the rest.
LEMMA CoverKeeps ==
  ASSUME TypeOK, Covered,
         \A t \in Transfer : log[t] \subseteq log'[t],
         orders \subseteq orders'
  PROVE  /\ \A t \in Transfer : log[t] # {} => log'[t] # {}
         /\ \A p \in todo : log'[p.id] # {}
         /\ \A t \in Transfer : LegSet(t) \subseteq orders => LegSet(t) \subseteq orders'
  BY DEF Covered, RowsLead, TypeOK

\* A step that leaves rows, legs and both tasks alone keeps both.
LEMMA CoverStutter ==
  ASSUME Covered, UNCHANGED <<log, orders, pc, cur, rpc, todo, rcur>>
  PROVE  Covered'
  BY DEF Covered, OutboxCoversLegs, RowsLead

\* Rows may be added while no leg is, COMPLETED only over both legs.
LEMMA CoverRows ==
  ASSUME Covered, orders' = orders,
         \A t \in Transfer : log[t] \subseteq log'[t],
         \A t \in Transfer : "COMPLETED" \in log'[t] =>
             "COMPLETED" \in log[t] \/ LegSet(t) \subseteq orders
  PROVE  OutboxCoversLegs'
<1> SUFFICES ASSUME NEW t \in Transfer
             PROVE  /\ orders \cap LegSet(t) # {} => log'[t] # {}
                    /\ "COMPLETED" \in log'[t] => LegSet(t) \subseteq orders
                    /\ <<t, "DST">> \in orders => <<t, "SRC">> \in orders
  BY DEF OutboxCoversLegs, LegSet
<1>1. /\ orders \cap LegSet(t) # {} => log[t] # {}
      /\ "COMPLETED" \in log[t] => LegSet(t) \subseteq orders
      /\ <<t, "DST">> \in orders => <<t, "SRC">> \in orders
  BY DEF Covered, OutboxCoversLegs
<1>2. log[t] \subseteq log'[t]
  OBVIOUS
<1> QED BY <1>1, <1>2

\* Caching legs of one transfer that has rows, the source leg first.
LEMMA CoverLegs ==
  ASSUME Covered, log' = log, NEW c \in Transfer, log[c] # {}, orders \subseteq orders',
         orders' \subseteq orders \cup LegSet(c),
         <<c, "DST">> \in orders' => <<c, "SRC">> \in orders'
  PROVE  OutboxCoversLegs'
<1> SUFFICES ASSUME NEW t \in Transfer
             PROVE  /\ orders' \cap LegSet(t) # {} => log[t] # {}
                    /\ "COMPLETED" \in log[t] => LegSet(t) \subseteq orders'
                    /\ <<t, "DST">> \in orders' => <<t, "SRC">> \in orders'
  BY DEF OutboxCoversLegs, LegSet
<1>1. /\ orders \cap LegSet(t) # {} => log[t] # {}
      /\ "COMPLETED" \in log[t] => LegSet(t) \subseteq orders
      /\ <<t, "DST">> \in orders => <<t, "SRC">> \in orders
  BY DEF Covered, OutboxCoversLegs
<1>2. CASE t = c
  BY <1>1, <1>2
<1>3. CASE t # c
  <2>1. orders' \cap LegSet(t) = orders \cap LegSet(t)
    BY <1>3 DEF LegSet
  <2> QED BY <1>1, <2>1 DEF LegSet
<1> QED BY <1>2, <1>3

LEMMA CoverHandle ==
  ASSUME TypeOK, Covered, Handle
  PROVE  Covered'
<1>1. ASSUME NEW t \in Transfer, AlreadyApplied(t) \/ Refuse(t) \/ Accept(t) PROVE Covered'
  BY <1>1 DEF AlreadyApplied, Refuse, Accept, Answer, legs, recovery, Covered,
              OutboxCoversLegs, RowsLead
<1>2. CASE RecordStep
  <2>1. cur \in Transfer /\ log \in [Transfer -> SUBSET Event] /\ EventOf(pc) # "COMPLETED"
    BY <1>2 DEF RecordStep, TypeOK, Awaiting, EventOf
  <2>2. log' = [log EXCEPT ![cur] = @ \cup {EventOf(pc)}]
    BY <1>2 DEF RecordStep, Recorded
  <2>3. /\ UNCHANGED <<orders, rpc, todo, rcur, cur>> /\ pc' = After(pc)
        /\ pc \in {"prepare", "source_booked", "dest_booked"}
    BY <1>2 DEF RecordStep, legs, recovery, Awaiting
  <2>4. \A t \in Transfer : log[t] \subseteq log'[t] /\ log'[cur] # {}
                              /\ ("COMPLETED" \in log'[t] => "COMPLETED" \in log[t])
    BY <2>1, <2>2
  <2>5. OutboxCoversLegs'
    BY <2>3, <2>4 DEF Covered, OutboxCoversLegs
  <2>6. RowsLead'
    BY <2>3, <2>4, CoverKeeps DEF Covered, RowsLead, After, TypeOK
  <2> QED BY <2>5, <2>6 DEF Covered
<1>3. CASE RecordCompleted
  <2>1. cur \in Transfer /\ log \in [Transfer -> SUBSET Event] /\ pc = "complete"
    BY <1>3 DEF RecordCompleted, TypeOK
  <2>2. /\ log' = [log EXCEPT ![cur] = @ \cup {"COMPLETED"}]
        /\ UNCHANGED <<orders, rpc, todo, rcur>> /\ pc' = "idle"
    BY <1>3 DEF RecordCompleted, Recorded, Answer, legs, recovery
  <2>3. LegSet(cur) \subseteq orders
    BY <2>1 DEF Covered, RowsLead, LegSet
  <2>4. \A t \in Transfer : /\ log[t] \subseteq log'[t]
                              /\ t # cur => log'[t] = log[t]
    BY <2>1, <2>2
  <2>5. OutboxCoversLegs'
    BY <2>1, <2>2, <2>3, <2>4, CoverKeeps DEF Covered, OutboxCoversLegs
  <2>6. RowsLead'
    BY <2>2, <2>4, CoverKeeps DEF Covered, RowsLead, TypeOK
  <2> QED BY <2>5, <2>6 DEF Covered
<1>4. CASE RecordFails
  <2>1. /\ cur \in Transfer /\ log \in [Transfer -> SUBSET Event]
        /\ pc \in Awaiting /\ UNCHANGED <<orders, rpc, todo, rcur>>
        /\ IF pc = "prepare" THEN pc' = "idle" ELSE pc' = "fail" /\ cur' = cur
    BY <1>4 DEF RecordFails, Answer, TypeOK, Awaiting, legs, recovery
  <2>2. log' = log \/ log' = [log EXCEPT ![cur] = @ \cup {EventOf(pc)}]
    BY <1>4 DEF RecordFails, Recorded
  <2>3. /\ \A t \in Transfer : log[t] \subseteq log'[t]
        /\ \A t \in Transfer : "COMPLETED" \in log'[t] =>
              "COMPLETED" \in log[t] \/ (t = cur /\ pc = "complete")
    BY <2>1, <2>2 DEF EventOf, Awaiting
  <2>4. pc = "complete" => LegSet(cur) \subseteq orders
    BY DEF Covered, RowsLead, LegSet
  <2>5. OutboxCoversLegs'
    <3>1. \A t \in Transfer : "COMPLETED" \in log'[t] =>
             "COMPLETED" \in log[t] \/ LegSet(t) \subseteq orders
      BY <2>3, <2>4
    <3>2. orders' = orders /\ \A t \in Transfer : log[t] \subseteq log'[t]
      BY <2>1, <2>3
    <3> QED BY <3>1, <3>2, CoverRows
  <2>6. pc # "prepare" => log[cur] # {}
    BY <2>1 DEF Covered, RowsLead, Awaiting
  <2>7. RowsLead'
    <3>1. \A p \in todo : log'[p.id] # {}
      BY <2>1, <2>3, CoverKeeps
    <3>2. rpc \in {"complete", "failed"} => log'[rcur] # {}
      BY <2>1, <2>3, CoverKeeps DEF Covered, RowsLead, TypeOK
    <3>3. pc' = "fail" => log'[cur'] # {}
      BY <2>1, <2>3, <2>6
    <3> QED BY <2>1, <3>1, <3>2, <3>3 DEF Covered, RowsLead
  <2> QED BY <2>5, <2>7 DEF Covered
<1>5. CASE ApplyLeg \/ ApplyLegRaises
  <2>1. /\ cur \in Transfer /\ pc \in {"source", "dest"} /\ cur' = cur
        /\ orders' = orders \cup {<<cur, LegOf(pc)>>}
        /\ UNCHANGED <<log, rpc, todo, rcur>>
        /\ pc' \in {"fail", Booked(pc)}
    BY <1>5 DEF ApplyLeg, ApplyLegRaises, BookLeg, LegRaises, TypeOK, recovery
  <2>2. log[cur] # {} /\ (pc = "dest" => <<cur, "SRC">> \in orders)
    BY <2>1 DEF Covered, RowsLead
  <2>3. OutboxCoversLegs'
    <3>1. orders' \subseteq orders \cup LegSet(cur)
      BY <2>1 DEF LegSet, LegOf
    <3>2. <<cur, "DST">> \in orders' => <<cur, "SRC">> \in orders'
      BY <2>1, <2>2 DEF Covered, OutboxCoversLegs, LegOf
    <3> QED BY <2>1, <2>2, <3>1, <3>2, CoverLegs
  <2>4. RowsLead'
    BY <2>1, <2>2 DEF Covered, RowsLead, LegOf, Booked
  <2> QED BY <2>3, <2>4 DEF Covered
<1>6. CASE RecordFailed
  <2>1. /\ cur \in Transfer /\ log \in [Transfer -> SUBSET Event] /\ pc' = "idle"
        /\ UNCHANGED <<orders, rpc, todo, rcur>>
        /\ log' = log \/ log' = [log EXCEPT ![cur] = @ \cup {"FAILED"}]
        /\ log[cur] # {}
    BY <1>6 DEF RecordFailed, Recorded, Answer, TypeOK, legs, recovery, Covered, RowsLead
  <2>2. \A t \in Transfer : /\ log[t] \subseteq log'[t]
                              /\ ("COMPLETED" \in log'[t] => "COMPLETED" \in log[t])
    BY <2>1
  <2>3. OutboxCoversLegs'
    BY <2>1, <2>2 DEF Covered, OutboxCoversLegs
  <2>4. RowsLead'
    BY <2>1, <2>2, CoverKeeps DEF Covered, RowsLead, TypeOK
  <2> QED BY <2>3, <2>4 DEF Covered
<1> QED BY <1>1, <1>2, <1>3, <1>4, <1>5, <1>6 DEF Handle

LEMMA CoverRecover ==
  ASSUME TypeOK, Covered, Recover
  PROVE  Covered'
<1>1. CASE RecoverRead
  BY <1>1, IncompleteType DEF RecoverRead, legs, handler, Covered, OutboxCoversLegs, RowsLead
<1>2. CASE RecoverRecord \/ RecoverFailed
  <2>1. /\ rcur \in Transfer /\ log \in [Transfer -> SUBSET Event]
        /\ UNCHANGED <<orders, pc, cur>> /\ todo' \subseteq todo
        /\ rpc \in {"complete", "failed"} /\ log[rcur] # {}
    BY <1>2 DEF RecoverRecord, RecoverFailed, TypeOK, legs, handler, Covered, RowsLead
  <2>2. /\ \/ log' = log
           \/ log' = [log EXCEPT ![rcur] = @ \cup {"FAILED"}]
           \/ log' = [log EXCEPT ![rcur] = @ \cup {"COMPLETED"}] /\ rpc = "complete"
        /\ rpc' \in {"loop", "off"} \/ (rpc' = "failed" /\ rcur' = rcur)
    BY <1>2 DEF RecoverRecord, RecoverFailed, Recorded
  <2>3. /\ \A t \in Transfer : log[t] \subseteq log'[t]
        /\ \A t \in Transfer : "COMPLETED" \in log'[t] =>
              "COMPLETED" \in log[t] \/ (t = rcur /\ rpc = "complete")
    BY <2>1, <2>2
  <2>4. rpc = "complete" => LegSet(rcur) \subseteq orders
    BY DEF Covered, RowsLead
  <2>5. OutboxCoversLegs'
    <3>1. \A t \in Transfer : "COMPLETED" \in log'[t] =>
             "COMPLETED" \in log[t] \/ LegSet(t) \subseteq orders
      BY <2>3, <2>4
    <3>2. orders' = orders /\ \A t \in Transfer : log[t] \subseteq log'[t]
      BY <2>1, <2>3
    <3> QED BY <3>1, <3>2, CoverRows
  <2>6. RowsLead'
    BY <2>1, <2>2, <2>3, CoverKeeps DEF Covered, RowsLead, TypeOK
  <2> QED BY <2>5, <2>6 DEF Covered
<1>3. CASE RecoverDone
  BY <1>3 DEF RecoverDone, legs, handler, Covered, OutboxCoversLegs, RowsLead
<1>4. ASSUME NEW p \in todo, RecoverSkip(p) PROVE Covered'
  BY <1>4 DEF RecoverSkip, legs, handler, Covered, OutboxCoversLegs, RowsLead, TypeOK
<1>5. ASSUME NEW p \in todo, RecoverLegs(p) \/ RecoverRaises(p) PROVE Covered'
  <2>1. /\ p.id \in Transfer /\ log[p.id] # {}
        /\ UNCHANGED <<log, pc, cur>> /\ rcur' = p.id /\ todo' \subseteq todo
        /\ \/ orders' = orders \cup LegSet(p.id) /\ rpc' = "complete"
           \/ orders' = orders \cup {FirstMissing(p.id)} /\ rpc' = "failed"
    BY <1>5 DEF RecoverLegs, RecoverRaises, TypeOK, Covered, RowsLead, handler
  <2>2. /\ \A t \in Transfer : t # p.id => orders' \cap LegSet(t) = orders \cap LegSet(t)
        /\ <<p.id, "DST">> \in orders' => <<p.id, "SRC">> \in orders'
    BY <2>1 DEF LegSet, FirstMissing
  <2>3. OutboxCoversLegs'
    BY <2>1, <2>2 DEF Covered, OutboxCoversLegs, LegSet
  <2>4. RowsLead'
    BY <2>1, CoverKeeps DEF Covered, RowsLead, TypeOK
  <2> QED BY <2>3, <2>4 DEF Covered
<1> QED BY <1>1, <1>2, <1>3, <1>4, <1>5 DEF Recover

LEMMA CoverStep == TypeOK /\ Covered /\ [Next]_vars => Covered'
<1> SUFFICES ASSUME TypeOK, Covered, [Next]_vars PROVE Covered'
  OBVIOUS
<1>1. CASE Environment
  <2>1. UNCHANGED <<log, orders, pc, cur, rpc, todo, rcur>>
    BY <1>1 DEF Environment, Send, PlaceExit, Trade, legs, handler, recovery
  <2> QED BY <2>1, CoverStutter
<1>2. CASE Handle
  BY <1>2, CoverHandle
<1>3. CASE Recover
  BY <1>3, CoverRecover
<1>4. CASE ProcessFill \/ UNCHANGED vars
  <2>1. UNCHANGED <<log, orders, pc, cur, rpc, todo, rcur>>
    BY <1>4 DEF ProcessFill, vars, handler, recovery
  <2> QED BY <2>1, CoverStutter
<1>5. CASE Crash \/ Restart
  BY <1>5 DEF Crash, Restart, legs, handler, Covered, OutboxCoversLegs, RowsLead
<1> QED BY <1>1, <1>2, <1>3, <1>4, <1>5 DEF Next

\* A cached leg always has a row that recovery reads, COMPLETED is only ever
\* written over two cached legs, and the source leg comes first
\* (OutboxCoversLegs).
THEOREM LegsAreCovered == Spec => []OutboxCoversLegs
<1>1. Init => Covered
  BY DEF Init, Covered, OutboxCoversLegs, RowsLead, LegSet
<1>2. TypeOK /\ Covered /\ [Next]_vars => Covered'
  BY CoverStep
<1>3. Covered => OutboxCoversLegs
  BY DEF Covered
<1> QED BY <1>1, <1>2, <1>3, TypeCorrect, PTL DEF Spec
-----------------------------------------------------------------------------
(* The books add up.                                                         *)

\* What each leg moves, and the legs whose fill was booked.
Delta == [l \in Leg |-> LegDelta(l)]
Landed == {l \in Leg : fills[l] > 0}

LEMMA NetIsTotal ==
  ASSUME NEW p \in [Strategy -> Int]
  PROVE  NetOf(p) = Total(p, Strategy) /\ NetOf(p) \in Int
<1>1. NetOf(p) = Total(p, Strategy)
  BY DEF NetOf, Total
<1>2. Total(p, Strategy) \in Int
  BY TransferAssumption, TotalInt
<1> QED BY <1>1, <1>2

\* A fill of one strategy moves the net by as much.
LEMMA NetMoves ==
  ASSUME NEW p \in [Strategy -> Int], NEW s \in Strategy, NEW d \in Int
  PROVE  NetOf([p EXCEPT ![s] = @ + d]) = NetOf(p) + d
<1> DEFINE n == [p EXCEPT ![s] = @ + d]
           others == Strategy \ {s}
<1>1. n \in [Strategy -> Int] /\ n[s] = p[s] + d /\ \A x \in others : n[x] = p[x]
  OBVIOUS
<1>2. IsFiniteSet(Strategy) /\ IsFiniteSet(others)
  BY TransferAssumption, FS_RemoveElement
<1> HIDE DEF n
<1>3. Total(n, Strategy) = n[s] + Total(n, others)
  BY <1>1, <1>2, TotalRemove
<1>4. Total(p, Strategy) = p[s] + Total(p, others)
  BY <1>2, TotalRemove
<1>5. Total(n, others) = Total(p, others)
  BY <1>1, <1>2, TotalSame
<1>6. Total(p, others) \in Int
  BY <1>2, TotalInt
<1>7. NetOf(n) = Total(n, Strategy) /\ NetOf(p) = Total(p, Strategy)
  BY <1>1, NetIsTotal
<1> QED BY <1>1, <1>3, <1>4, <1>5, <1>6, <1>7 DEF n

\* Legs that come in pairs move nothing.
LEMMA PairsCancel ==
  ASSUME NEW S \in SUBSET Leg, IsFiniteSet(S),
         \A t \in Transfer : LegSet(t) \subseteq S \/ LegSet(t) \cap S = {}
  PROVE  Total(Delta, S) = 0
<1> DEFINE T == {t \in Transfer : <<t, "SRC">> \in S}
           src == [t \in T |-> <<t, "SRC">>]
           dst == [t \in T |-> <<t, "DST">>]
           out == [t \in T |-> Delta[src[t]]]
           in  == [t \in T |-> Delta[dst[t]]]
           nil == [t \in T |-> 0]
           A == {src[t] : t \in T}
           B == {dst[t] : t \in T}
<1>1. IsFiniteSet(T)
  <2>1. src \in Injection(T, S)
    BY DEF Injection, IsInjective
  <2> QED BY <2>1, FS_Injection
<1>2. \A t \in T : t \in Transfer /\ <<t, "SRC">> \in S /\ <<t, "DST">> \in S
  BY DEF LegSet
<1>3. \A t \in T : src[t] \in Leg /\ dst[t] \in Leg
                   /\ out[t] \in Int /\ in[t] \in Int /\ nil[t] = out[t] + in[t]
  <2> SUFFICES ASSUME NEW t \in T
               PROVE  /\ <<t, "SRC">> \in Leg /\ <<t, "DST">> \in Leg
                      /\ LegDelta(<<t, "SRC">>) \in Int /\ LegDelta(<<t, "DST">>) \in Int
                      /\ 0 = LegDelta(<<t, "SRC">>) + LegDelta(<<t, "DST">>)
    BY DEF Delta
  <2>1. <<t, "SRC">> \in Leg /\ <<t, "DST">> \in Leg
    BY <1>2
  <2>2. LegDelta(<<t, "SRC">>) \in Int /\ LegDelta(<<t, "DST">>) \in Int
    BY <2>1, LegFacts
  <2>3. LegDelta(<<t, "SRC">>) = - LegDelta(<<t, "DST">>)
    BY <2>2 DEF LegDelta
  <2> QED BY <2>1, <2>2, <2>3
<1>4. /\ \A x, y \in T : src[x] = src[y] => x = y
      /\ \A x, y \in T : dst[x] = dst[y] => x = y
  OBVIOUS
<1>5. S = A \cup B
  <2>1. A \subseteq S /\ B \subseteq S
    BY <1>2
  <2>2. ASSUME NEW l \in S PROVE l \in A \cup B
    <3>1. PICK t \in Transfer, k \in {"SRC", "DST"} : l = <<t, k>>
      BY DEF Leg
    <3>2. t \in T
      BY <3>1 DEF LegSet
    <3> QED BY <3>1, <3>2
  <2> QED BY <2>1, <2>2
<1>6. A \cap B = {} /\ \A l \in A \cup B : Delta[l] \in Int
  <2>1. \A l \in S : Delta[l] \in Int
    BY LegFacts DEF Delta
  <2>2. \A t, u \in T : src[t] # dst[u]
    OBVIOUS
  <2>3. A \cap B = {}
    BY <2>2
  <2> HIDE DEF A, B
  <2> QED BY <1>5, <2>1, <2>3
<1>7. \A x \in T : out[x] \in Int /\ Delta[src[x]] = out[x]
  BY <1>3
<1>8. \A x \in T : in[x] \in Int /\ Delta[dst[x]] = in[x]
  BY <1>3
<1>9. nil = [t \in T |-> 0]
  OBVIOUS
<1> HIDE DEF T, src, dst, out, in, nil
<1>10. IsFiniteSet(A) /\ Total(Delta, A) = Total(out, T)
  <2>1. \A x, y \in T : src[x] = src[y] => x = y
    BY <1>4
  <2>2. (\A t \in T : src[t] \in A) /\ \A l \in A : \E t \in T : l = src[t]
    OBVIOUS
  <2> HIDE DEF A
  <2> QED BY <1>1, <1>7, <2>1, <2>2, TotalOfImages
<1>11. IsFiniteSet(B) /\ Total(Delta, B) = Total(in, T)
  <2>1. \A x, y \in T : dst[x] = dst[y] => x = y
    BY <1>4
  <2>2. (\A t \in T : dst[t] \in B) /\ \A l \in B : \E t \in T : l = dst[t]
    OBVIOUS
  <2> HIDE DEF B
  <2> QED BY <1>1, <1>8, <2>1, <2>2, TotalOfImages
<1>12. Total(nil, T) = Total(out, T) + Total(in, T)
  BY <1>1, <1>3, TotalPlus
<1>13. Total(nil, T) = 0
  BY <1>1, <1>9, TotalZeros
<1>14. Total(Delta, A \cup B) = Total(Delta, A) + Total(Delta, B)
  <2> HIDE DEF A, B
  <2> QED BY <1>6, <1>10, <1>11, TotalUnion
<1> QED BY <1>5, <1>10, <1>11, <1>12, <1>13, <1>14

\* The books differ from what the broker holds by the legs that landed.
NetExplained == IsFiniteSet(Landed) /\ NetOf(pos) = net + Total(Delta, Landed)

\* A cached leg has landed, waits in the queue, or its fill is gone.
LegsPlaced ==
    \A l \in orders : \/ fills[l] > 0 \/ l \in lost \/ l \in mute
                      \/ \E i \in DOMAIN evq : evq[i] = l

\* With no crash, no failing store and an account for every leg, only the
\* transfer in the handler's hands has one leg.
HalfAtHand ==
    crashes = 0 /\ faults = 0 /\ mute = {} =>
        /\ lost = {}
        /\ \A t \in Transfer : HalfBooked(t) => cur = t /\ pc \in {"source_booked", "dest"}

LEMMA ExplainedStep == TypeOK /\ LegsSettle /\ NetExplained /\ [Next]_vars => NetExplained'
<1> SUFFICES ASSUME TypeOK, LegsSettle, NetExplained, [Next]_vars PROVE NetExplained'
  OBVIOUS
<1>1. Landed \subseteq Leg /\ Total(Delta, Landed) \in Int /\ net \in Int
  <2>1. \A l \in Landed : Delta[l] \in Int
    BY LegFacts DEF Landed, Delta
  <2> QED BY <2>1, TotalInt DEF NetExplained, TypeOK, Landed
<1>2. CASE UNCHANGED <<pos, net, fills>>
  BY <1>2 DEF NetExplained, Landed
<1>3. ASSUME NEW s \in Strategy, NEW d \in {-1, 1}, Trade(s, d) PROVE NetExplained'
  <2>1. pos' = [pos EXCEPT ![s] = @ + d] /\ net' = net + d /\ fills' = fills /\ d \in Int
    BY <1>3 DEF Trade, legs
  <2>2. NetOf(pos') = NetOf(pos) + d
    BY <2>1, NetMoves DEF TypeOK
  <2>3. Landed' = Landed
    BY <2>1 DEF Landed
  <2> QED BY <1>1, <2>1, <2>2, <2>3 DEF NetExplained
<1>4. CASE ProcessFill
  <2> DEFINE l == Head(evq)
  <2>1. evq \in Seq(Leg) /\ evq # <<>> /\ fills \in [Leg -> Nat] /\ net' = net
        /\ pos' = [pos EXCEPT ![LegStrategy(l)] = @ + LegDelta(l)]
        /\ fills' = [fills EXCEPT ![l] = @ + 1]
    BY <1>4 DEF ProcessFill, TypeOK
  <2>2. l \in Leg
    BY <2>1, HeadTailLeg
  <2>3. 1 \in DOMAIN evq /\ l = evq[1]
    BY <2>1
  <2>4. fills[l] = 0
    BY <2>3 DEF LegsSettle
  <2>5. Landed' = Landed \cup {l} /\ l \notin Landed
    BY <2>1, <2>2, <2>4 DEF Landed
  <2>6. NetOf(pos') = NetOf(pos) + LegDelta(l)
    BY <2>1, <2>2, LegFacts, NetMoves DEF TypeOK
  <2>7. IsFiniteSet(Landed') /\ Total(Delta, Landed') = Delta[l] + Total(Delta, Landed)
    <3>1. \A k \in Landed \cup {l} : Delta[k] \in Int
      BY <1>1, <2>2, LegFacts DEF Delta
    <3> QED BY <2>5, <3>1, TotalAdd, FS_AddElement DEF NetExplained
  <2>8. Delta[l] = LegDelta(l) /\ LegDelta(l) \in Int
    BY <2>2, LegFacts DEF Delta
  <2> QED BY <1>1, <2>1, <2>6, <2>7, <2>8 DEF NetExplained
<1>5. CASE Environment
  <2>1. ASSUME NEW t \in Transfer, Send(t) PROVE UNCHANGED <<pos, net, fills>>
    BY <2>1 DEF Send, legs
  <2>2. ASSUME NEW s \in Strategy, PlaceExit(s) PROVE UNCHANGED <<pos, net, fills>>
    BY <2>2 DEF PlaceExit, legs
  <2> QED BY <1>2, <1>3, <1>5, <2>1, <2>2 DEF Environment
<1>6. CASE Handle
  BY <1>2, <1>6 DEF Handle, AlreadyApplied, Refuse, Accept, RecordStep, RecordCompleted,
     RecordFails, ApplyLeg, ApplyLegRaises, RecordFailed, BookLeg, LegRaises, legs, book
<1>7. CASE Recover
  BY <1>2, <1>7 DEF Recover, RecoverRead, RecoverRecord, RecoverFailed, RecoverDone,
     RecoverSkip, RecoverLegs, RecoverRaises, legs, book
<1>8. CASE Crash \/ Restart \/ UNCHANGED vars
  BY <1>2, <1>8 DEF Crash, Restart, vars, legs, book
<1> QED BY <1>4, <1>5, <1>6, <1>7, <1>8 DEF Next

\* What is queued stays queued when more is.
LEMMA AppendKeeps ==
  ASSUME NEW S, NEW q \in Seq(S), NEW l \in S
  PROVE  /\ \E i \in DOMAIN Append(q, l) : Append(q, l)[i] = l
         /\ \A i \in DOMAIN q : \E k \in DOMAIN Append(q, l) : Append(q, l)[k] = q[i]
<1> DEFINE r == Append(q, l)
<1>1. Len(q) \in Nat /\ DOMAIN r = 1 .. Len(q) + 1 /\ DOMAIN q = 1 .. Len(q)
      /\ r[Len(q) + 1] = l /\ \A i \in DOMAIN q : r[i] = q[i]
  OBVIOUS
<1> HIDE DEF r
<1>2. \E i \in DOMAIN r : r[i] = l
  BY <1>1
<1>3. \A i \in DOMAIN q : i \in DOMAIN r
  BY <1>1
<1> QED BY <1>1, <1>2, <1>3 DEF r

LEMMA QueuedKeeps ==
  ASSUME NEW S, NEW q \in Seq(S), NEW l \in S
  PROVE  /\ l \in orders \/ \E i \in DOMAIN QueuedIfMissing(q, l) : QueuedIfMissing(q, l)[i] = l
         /\ \A i \in DOMAIN q : \E k \in DOMAIN QueuedIfMissing(q, l) :
               QueuedIfMissing(q, l)[k] = q[i]
<1>1. CASE l \in orders
  BY <1>1 DEF QueuedIfMissing
<1>2. CASE l \notin orders
  <2>1. QueuedIfMissing(q, l) = Append(q, l)
    BY <1>2 DEF QueuedIfMissing
  <2>2. /\ \E i \in DOMAIN Append(q, l) : Append(q, l)[i] = l
        /\ \A i \in DOMAIN q : \E k \in DOMAIN Append(q, l) : Append(q, l)[k] = q[i]
    BY AppendKeeps
  <2> QED BY <2>1, <2>2
<1> QED BY <1>1, <1>2

LEMMA PlacedStep == TypeOK /\ LegsSettle /\ LegsPlaced /\ [Next]_vars => LegsPlaced'
<1> SUFFICES ASSUME TypeOK, LegsSettle, LegsPlaced, [Next]_vars PROVE LegsPlaced'
  OBVIOUS
<1>1. CASE UNCHANGED legs
  BY <1>1 DEF legs, LegsPlaced
<1>2. ASSUME NEW l \in Leg, BookLeg(l) PROVE LegsPlaced'
  <2>1. orders' = orders \cup {l} /\ evq' = Append(evq, l) /\ evq \in Seq(Leg)
        /\ UNCHANGED <<fills, lost, mute>>
    BY <1>2 DEF BookLeg, TypeOK
  <2>2. /\ \E i \in DOMAIN evq' : evq'[i] = l
        /\ \A i \in DOMAIN evq : \E k \in DOMAIN evq' : evq'[k] = evq[i]
    BY <2>1, AppendKeeps
  <2> QED BY <2>1, <2>2 DEF LegsPlaced
<1>3. ASSUME NEW l \in Leg, LegRaises(l) PROVE LegsPlaced'
  BY <1>3 DEF LegRaises, LegsPlaced
<1>4. ASSUME NEW p \in todo, RecoverLegs(p) PROVE LegsPlaced'
  <2> DEFINE s == <<p.id, "SRC">>
             d == <<p.id, "DST">>
             q == QueuedIfMissing(evq, s)
  <2>1. s \in Leg /\ d \in Leg /\ evq \in Seq(Leg) /\ q \in Seq(Leg)
    BY LegsOf DEF TypeOK, QueuedIfMissing
  <2>2. orders' = orders \cup {s, d} /\ evq' = QueuedIfMissing(q, d)
        /\ UNCHANGED <<fills, lost, mute>>
    BY <1>4 DEF RecoverLegs, LegSet
  <2>3. /\ s \in orders \/ \E i \in DOMAIN q : q[i] = s
        /\ \A i \in DOMAIN evq : \E k \in DOMAIN q : q[k] = evq[i]
    <3> HIDE DEF s
    <3> QED BY <2>1, QueuedKeeps
  <2>4. /\ d \in orders \/ \E i \in DOMAIN evq' : evq'[i] = d
        /\ \A i \in DOMAIN q : \E k \in DOMAIN evq' : evq'[k] = q[i]
    BY <2>1, <2>2, QueuedKeeps
  <2> HIDE DEF s, d, q
  <2> QED BY <2>2, <2>3, <2>4 DEF LegsPlaced
<1>5. ASSUME NEW p \in todo, RecoverRaises(p) PROVE LegsPlaced'
  BY <1>5 DEF RecoverRaises, LegsPlaced
<1>6. CASE ProcessFill
  <2>1. evq \in Seq(Leg) /\ evq # <<>> /\ evq' = Tail(evq) /\ fills \in [Leg -> Nat]
        /\ fills' = [fills EXCEPT ![Head(evq)] = @ + 1]
        /\ UNCHANGED <<orders, lost, mute>>
    BY <1>6 DEF ProcessFill, TypeOK
  <2>2. Head(evq) = evq[1] /\ Head(evq) \in Leg
    BY <2>1, HeadTailLeg
  <2>3. \A i \in DOMAIN evq : i # 1 => \E k \in DOMAIN evq' : evq'[k] = evq[i]
    <3> SUFFICES ASSUME NEW i \in DOMAIN evq, i # 1
                 PROVE  i - 1 \in DOMAIN Tail(evq) /\ Tail(evq)[i - 1] = evq[i]
      BY <2>1
    <3> QED BY <2>1
  <2>4. \A l \in Leg : fills[l] > 0 => fills'[l] > 0
    BY <2>1
  <2>5. fills'[Head(evq)] > 0
    BY <2>1, <2>2
  <2> QED BY <2>1, <2>2, <2>3, <2>4, <2>5 DEF LegsPlaced, TypeOK
<1>7. CASE Crash
  BY <1>7 DEF Crash, LegsPlaced
<1>8. CASE Environment
  BY <1>1, <1>8 DEF Environment, Send, PlaceExit, Trade
<1>9. CASE Handle
  <2>1. CASE ApplyLeg
    <3>1. <<cur, LegOf(pc)>> \in Leg
      BY <2>1 DEF ApplyLeg, TypeOK, Leg, LegOf
    <3> QED BY <1>2, <2>1, <3>1 DEF ApplyLeg
  <2>2. CASE ApplyLegRaises
    <3>1. <<cur, LegOf(pc)>> \in Leg
      BY <2>2 DEF ApplyLegRaises, TypeOK, Leg, LegOf
    <3> QED BY <1>3, <2>2, <3>1 DEF ApplyLegRaises
  <2>3. CASE ~ApplyLeg /\ ~ApplyLegRaises
    BY <1>1, <1>9, <2>3 DEF Handle, AlreadyApplied, Refuse, Accept, RecordStep,
       RecordCompleted, RecordFails, RecordFailed
  <2> QED BY <2>1, <2>2, <2>3
<1>10. CASE Recover
  <2>1. CASE RecoverRead \/ RecoverRecord \/ RecoverFailed \/ RecoverDone
             \/ \E p \in todo : RecoverSkip(p)
    BY <1>1, <2>1 DEF RecoverRead, RecoverRecord, RecoverFailed, RecoverDone, RecoverSkip
  <2> QED BY <1>4, <1>5, <1>10, <2>1 DEF Recover
<1>11. CASE Restart \/ UNCHANGED vars
  BY <1>1, <1>11 DEF Restart, vars, legs
<1> QED BY <1>6, <1>7, <1>8, <1>9, <1>10, <1>11 DEF Next

LEMMA HalfStep == TypeOK /\ Covered /\ HalfAtHand /\ [Next]_vars => HalfAtHand'
<1> SUFFICES ASSUME TypeOK, Covered, HalfAtHand, [Next]_vars,
                    crashes' = 0, faults' = 0, mute' = {}
             PROVE  /\ lost' = {}
                    /\ \A t \in Transfer : HalfBooked(t)' =>
                          cur' = t /\ pc' \in {"source_booked", "dest"}
  BY DEF HalfAtHand
<1>1. ~ Crash
  BY DEF Crash, TypeOK
<1>2. faults = 0 /\ mute = {} /\ crashes = 0
  <2>1. /\ \/ faults' = faults \/ Fault
        /\ mute \subseteq mute'
        /\ crashes' = crashes
    <3>1. CASE Environment
      BY <3>1 DEF Environment, Send, PlaceExit, Trade, legs, bounds
    <3>2. CASE Handle
      BY <3>2 DEF Handle, AlreadyApplied, Refuse, Accept, RecordStep, RecordCompleted, RecordFails,
         ApplyLeg, ApplyLegRaises, RecordFailed, BookLeg, LegRaises, legs, bounds
    <3>3. CASE Recover
      BY <3>3 DEF Recover, RecoverRead, RecoverRecord, RecoverFailed, RecoverDone, RecoverSkip,
         RecoverLegs, RecoverRaises, legs, bounds
    <3>4. CASE ProcessFill \/ Restart \/ UNCHANGED vars
      BY <3>4 DEF ProcessFill, Restart, vars, legs, bounds
    <3> QED BY <1>1, <3>1, <3>2, <3>3, <3>4 DEF Next
  <2> QED BY <2>1 DEF Fault, TypeOK
<1>3. /\ lost = {}
      /\ \A t \in Transfer : HalfBooked(t) => cur = t /\ pc \in {"source_booked", "dest"}
  BY <1>2 DEF HalfAtHand
<1>4. CASE UNCHANGED <<orders, lost, pc, cur>>
  BY <1>3, <1>4 DEF HalfBooked
<1>5. CASE Handle
  <2>1. CASE RecordStep
    BY <1>3, <2>1 DEF RecordStep, After, Awaiting, HalfBooked, legs
  <2>2. CASE ApplyLeg
    <3>1. cur \in Transfer /\ orders' = orders \cup {<<cur, LegOf(pc)>>} /\ lost' = lost
          /\ pc \in {"source", "dest"} /\ pc' = Booked(pc) /\ cur' = cur
      BY <2>2 DEF ApplyLeg, BookLeg, TypeOK
    <3>2. \A t \in Transfer : t # cur => orders' \cap LegSet(t) = orders \cap LegSet(t)
      BY <3>1 DEF LegSet
    <3>3. pc = "dest" => LegSet(cur) \subseteq orders'
      BY <3>1 DEF Covered, RowsLead, LegSet, LegOf
    <3>4. \A t \in Transfer : t # cur => ~ HalfBooked(t)'
      BY <1>3, <3>2 DEF HalfBooked
    <3> QED BY <1>3, <3>1, <3>3, <3>4 DEF HalfBooked, Booked
  <2>3. CASE ApplyLegRaises
    <3>1. cur \in Transfer /\ UNCHANGED <<orders, lost>> /\ <<cur, LegOf(pc)>> \in orders
          /\ pc \in {"source", "dest"}
      BY <2>3 DEF ApplyLegRaises, LegRaises, TypeOK
    <3>2. pc = "dest" => LegSet(cur) \subseteq orders
      BY <3>1 DEF Covered, RowsLead, LegSet, LegOf
    <3> QED BY <1>3, <3>1, <3>2 DEF HalfBooked
  <2>4. CASE RecordFails
    BY <1>2, <2>4 DEF RecordFails, Fault
  <2>5. CASE RecordCompleted \/ RecordFailed \/ \E t \in Transfer : AlreadyApplied(t) \/ Refuse(t) \/ Accept(t)
    <3>1. UNCHANGED <<orders, lost>> /\ pc \notin {"source_booked", "dest"}
      BY <2>5 DEF RecordCompleted, RecordFailed, AlreadyApplied, Refuse, Accept, Handling, legs
    <3> QED BY <1>3, <3>1 DEF HalfBooked
  <2> QED BY <1>5, <2>1, <2>2, <2>3, <2>4, <2>5 DEF Handle
<1>6. CASE Recover
  <2>1. ASSUME NEW p \in todo, RecoverLegs(p) PROVE lost' = {} /\ \A t \in Transfer : HalfBooked(t)' => HalfBooked(t)
    <3>1. orders' = orders \cup LegSet(p.id) /\ lost' = lost
      BY <2>1 DEF RecoverLegs
    <3>2. \A t \in Transfer : t # p.id => orders' \cap LegSet(t) = orders \cap LegSet(t)
      BY <3>1 DEF LegSet
    <3> QED BY <1>3, <3>1, <3>2 DEF HalfBooked
  <2>2. ASSUME NEW p \in todo, RecoverRaises(p) PROVE FALSE
    BY <2>2 DEF RecoverRaises
  <2>3. CASE RecoverRead \/ RecoverRecord \/ RecoverFailed \/ RecoverDone
             \/ \E p \in todo : RecoverSkip(p)
    BY <1>4, <2>3 DEF RecoverRead, RecoverRecord, RecoverFailed, RecoverDone, RecoverSkip, legs, handler
  <2>4. UNCHANGED <<pc, cur>>
    BY <1>6 DEF Recover, RecoverRead, RecoverRecord, RecoverFailed, RecoverDone, RecoverSkip,
       RecoverLegs, RecoverRaises, handler
  <2> QED BY <1>3, <1>6, <2>1, <2>2, <2>3, <2>4 DEF Recover
<1>7. CASE Environment \/ ProcessFill \/ Restart \/ UNCHANGED vars
  BY <1>4, <1>7 DEF Environment, Send, PlaceExit, Trade, ProcessFill, Restart, vars, legs, handler
<1> QED BY <1>1, <1>5, <1>6, <1>7 DEF Next

\* What the two invariants make of a quiet engine.
LEMMA QuietBalances ==
  ASSUME TypeOK, LegsSettle, NetExplained, LegsPlaced, HalfAtHand, Covered, mute = {}
  PROVE  BooksBalance
<1> SUFFICES ASSUME Quiet,
                    \/ crashes = 0 /\ faults = 0
                    \/ /\ lost = {}
                       /\ \A t \in Transfer : "COMPLETED" \in log[t] \/ orders \cap LegSet(t) = {}
             PROVE  NetOf(pos) = net
  BY DEF BooksBalance
<1>1. lost = {} /\ \A t \in Transfer : LegSet(t) \subseteq orders \/ orders \cap LegSet(t) = {}
  BY DEF HalfAtHand, HalfBooked, Quiet, Covered, OutboxCoversLegs
<1>2. Landed = orders
  <2>1. DOMAIN evq = {}
    BY DEF Quiet
  <2> QED BY <1>1, <2>1 DEF LegsPlaced, LegsSettle, Landed, TypeOK
<1>3. Total(Delta, Landed) = 0
  <2>1. Landed \in SUBSET Leg /\ IsFiniteSet(Landed)
    BY DEF Landed, NetExplained
  <2> QED BY <1>1, <1>2, <2>1, PairsCancel
<1> QED BY <1>3 DEF NetExplained, TypeOK

\* A transfer moves a position between two owners and leaves what the broker
\* holds explained: whatever raced, crashed or failed, the books add up as
\* BooksBalance says, unless a leg was cached by a call that then raised for
\* want of an account.
THEOREM BooksAddUp == Spec => [](mute = {} => BooksBalance)
<1>1. Init => NetExplained /\ LegsPlaced /\ HalfAtHand
  <2> SUFFICES ASSUME Init PROVE NetExplained /\ LegsPlaced /\ HalfAtHand
    OBVIOUS
  <2>1. Landed = {} /\ pos = InitPos /\ net = NetOf(InitPos) /\ orders = {} /\ lost = {}
    BY DEF Init, Landed
  <2>2. NetOf(InitPos) \in Int
    BY TransferAssumption
  <2>3. NetExplained
    BY <2>1, <2>2, TotalEmpty, FS_EmptySet DEF NetExplained
  <2> QED BY <2>1, <2>3 DEF LegsPlaced, HalfAtHand, HalfBooked
<1>2. Init => LegsSettle /\ Covered
  BY DEF Init, LegsSettle, Covered, OutboxCoversLegs, RowsLead, LegSet
<1>3. TypeOK /\ LegsSettle /\ Covered /\ NetExplained /\ LegsPlaced /\ HalfAtHand /\ [Next]_vars
        => LegsSettle' /\ Covered' /\ NetExplained' /\ LegsPlaced' /\ HalfAtHand'
  BY SettleStep, CoverStep, ExplainedStep, PlacedStep, HalfStep
<1>4. TypeOK /\ LegsSettle /\ Covered /\ NetExplained /\ LegsPlaced /\ HalfAtHand
        => (mute = {} => BooksBalance)
  BY QuietBalances
<1> QED BY <1>1, <1>2, <1>3, <1>4, TypeCorrect, PTL DEF Spec

\* While some position is open there is an account to book a leg to, so no
\* call raises for want of one: then the books add up.
THEOREM BooksAddUpWithAccount == Spec /\ []AccountVisible => []BooksBalance
<1>1. Init => mute = {}
  BY DEF Init
<1>2. mute = {} /\ AccountVisible /\ [Next]_vars => (mute = {})'
  <2> SUFFICES ASSUME mute = {}, AccountVisible, [Next]_vars PROVE mute' = {}
    OBVIOUS
  <2> QED
    BY DEF Next, Environment, Send, PlaceExit, Trade, Handle, AlreadyApplied, Refuse, Accept,
       RecordStep, RecordCompleted, RecordFails, ApplyLeg, ApplyLegRaises, RecordFailed, BookLeg,
       LegRaises, Recover, RecoverRead, RecoverRecord, RecoverFailed, RecoverDone, RecoverSkip,
       RecoverLegs, RecoverRaises, ProcessFill, Crash, Restart, legs, vars
<1> QED BY <1>1, <1>2, BooksAddUp, PTL DEF Spec
=============================================================================
