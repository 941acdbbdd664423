-------------------------- MODULE OrderBlotterProofs --------------------------
(***************************************************************************)
(* Proofs about OrderBlotter for any orders, caps of queue, stream and     *)
(* snapshot, and any numbers of events, restarts and lost writes.          *)
(***************************************************************************)
EXTENDS OrderBlotter, FiniteSetTheorems, TLAPS

-----------------------------------------------------------------------------
(* Queues. *)

LEMMA AppendFacts ==
  ASSUME NEW S, NEW q \in Seq(S), NEW x \in S
  PROVE  /\ Append(q, x) \in Seq(S) /\ Len(Append(q, x)) = Len(q) + 1
         /\ ToSet(Append(q, x)) = ToSet(q) \cup {x}
         /\ DOMAIN Append(q, x) = DOMAIN q \cup {Len(q) + 1} /\ DOMAIN q = 1..Len(q) /\ Len(q) \in Nat
         /\ \A i \in DOMAIN q : Append(q, x)[i] = q[i]
         /\ Append(q, x)[Len(q) + 1] = x
<1>1. DOMAIN q = 1..Len(q) /\ Len(q) \in Nat
  OBVIOUS
<1>2. Append(q, x) \in Seq(S) /\ Len(Append(q, x)) = Len(q) + 1
  OBVIOUS
<1>3. DOMAIN Append(q, x) = DOMAIN q \cup {Len(q) + 1}
  BY <1>1, <1>2
<1>4. (\A i \in DOMAIN q : Append(q, x)[i] = q[i]) /\ Append(q, x)[Len(q) + 1] = x
  BY <1>1
<1> QED BY <1>1, <1>2, <1>3, <1>4 DEF ToSet

LEMMA TailFacts ==
  ASSUME NEW S, NEW q \in Seq(S), q # <<>>
  PROVE  /\ Tail(q) \in Seq(S) /\ Len(q) \in Nat \ {0} /\ Len(Tail(q)) = Len(q) - 1
         /\ Head(q) \in S /\ Head(q) \in ToSet(q) /\ Head(q) = q[1] /\ 1 \in DOMAIN q
         /\ ToSet(Tail(q)) \subseteq ToSet(q)
         /\ \A i \in DOMAIN Tail(q) : i \in Nat \ {0} /\ i + 1 \in DOMAIN q /\ Tail(q)[i] = q[i + 1]
<1>1. DOMAIN q = 1..Len(q) /\ Len(q) \in Nat \ {0} /\ Head(q) = q[1] /\ Head(q) \in S
  OBVIOUS
<1>2. Tail(q) \in Seq(S) /\ Len(Tail(q)) = Len(q) - 1
  OBVIOUS
<1>3. \A i \in DOMAIN Tail(q) : i \in Nat \ {0} /\ i + 1 \in DOMAIN q /\ Tail(q)[i] = q[i + 1]
  BY <1>1, <1>2
<1>4. 1 \in DOMAIN q
  BY <1>1
<1> QED BY <1>1, <1>2, <1>3, <1>4 DEF ToSet

LEMMA EmptyFacts == ToSet(<<>>) = {} /\ DOMAIN <<>> = {} /\ Len(<<>>) = 0
  BY DEF ToSet

LEMMA MemberType ==
  ASSUME NEW S, NEW q \in Seq(S)
  PROVE  ToSet(q) \subseteq S /\ Len(q) \in Nat
  BY DEF ToSet

-----------------------------------------------------------------------------
(* Types. *)

\* A row dated no later than the last event.
RowNow == [status : Status, ts : 0..(2 * events), version : Nat] \cup {None}

OrderFrame == {f \in [kind : {"order"}, order : Order, row : Row] : f.row # None}

\* A snapshot, of some orders, none of them in flight.
SnapshotOK(s) ==
    /\ s.kind = "orders" /\ s.ts \in Nat
    /\ DOMAIN s.rows \subseteq Order
    /\ \A o \in DOMAIN s.rows : s.rows[o] \in Row \ {None} /\ s.rows[o].status # "SUBMITTED"

SnapshotFrame ==
    {s \in [kind : {"orders"}, rows : UNION {[D -> Row] : D \in SUBSET Order}, ts : Nat] : SnapshotOK(s)}

EngineOK ==
    /\ orders \in [Order -> RowNow] /\ was \in [Order -> RowNow]
    /\ \A o \in Order : orders[o] # None => orders[o].version > 0
    /\ events \in 0..MaxEvents /\ running \in BOOLEAN
    /\ queue \in Seq(OrderFrame \cup SnapshotFrame) /\ Len(queue) <= QueueMax

RedisOK ==
    /\ stream \in Seq(OrderFrame) /\ Len(stream) <= StreamMax
    /\ key \in SnapshotFrame \cup {NoSnapshot}

ApiOK ==
    /\ cursor \in 0..Len(stream)
    /\ polled \in SnapshotFrame \cup {NoSnapshot}
    /\ shown \in [Order -> Row]
    /\ Cardinality({o \in Order : Terminal(shown[o])}) <= MaxTerminal

Types == EngineOK /\ RedisOK /\ ApiOK

LEMMA Bounds ==
  /\ MaxEvents \in Nat /\ MaxStops \in Nat /\ MaxTerminal \in Nat /\ QueueMax \in Nat \ {0} /\ StreamMax \in Nat \ {0}
  /\ IsFiniteSet(Order)
  BY OrderBlotterAssumption

LEMMA NoneFacts ==
  /\ None.status = "none" /\ None.ts = 0 /\ None.version = 0 /\ ~Terminal(None) /\ None \in Row /\ None \in RowNow
  /\ \A r \in Row : r.status = "none" => r = None
  /\ \A r \in Row : r.version \in Nat /\ r.ts \in Nat
  BY Bounds DEF None, Terminal, Row, RowNow, Status

LEMMA RowNowIsRow ==
  ASSUME events \in 0..MaxEvents
  PROVE  RowNow \subseteq Row
  BY Bounds DEF RowNow, Row

LEMMA TypesInit == Init => Types
<1> SUFFICES ASSUME Init PROVE Types
  OBVIOUS
<1>1. {o \in Order : Terminal(shown[o])} = {}
  BY NoneFacts DEF Init
<1>2. EngineOK
  BY Bounds, NoneFacts, EmptyFacts DEF Init, EngineOK
<1>3. RedisOK
  BY Bounds, EmptyFacts DEF Init, RedisOK
<1>4. Cardinality({o \in Order : Terminal(shown[o])}) <= MaxTerminal
  BY <1>1, Bounds, FS_EmptySet
<1>5. cursor = 0 /\ Len(stream) = 0 /\ polled = NoSnapshot /\ shown \in [Order -> Row]
  BY NoneFacts, EmptyFacts DEF Init
<1>6. ApiOK
  BY <1>4, <1>5 DEF ApiOK
<1> QED BY <1>2, <1>3, <1>6 DEF Types

\* A frame that is enqueued, or dropped, is the only change of the queue.
LEMMA EnqueueType ==
  ASSUME queue \in Seq(OrderFrame \cup SnapshotFrame), Len(queue) <= QueueMax,
         NEW f \in OrderFrame \cup SnapshotFrame, Enqueue(f)
  PROVE  /\ queue' \in Seq(OrderFrame \cup SnapshotFrame) /\ Len(queue') <= QueueMax
         /\ queue' = queue \/ queue' = Append(queue, f)
<1>1. CASE Len(queue) < QueueMax
  BY <1>1, AppendFacts, Bounds DEF Enqueue
<1>2. CASE ~(Len(queue) < QueueMax)
  BY <1>2 DEF Enqueue
<1> QED BY <1>1, <1>2

LEMMA EventTypes ==
  ASSUME Types, NEW o \in Order, Event(o)
  PROVE  EngineOK'
<1>1. PICK status \in Becomes(o) : \E n \in 1..(events + 1) : Happens(o, status, 2 * n)
  BY DEF Event
<1>2. PICK n \in 1..(events + 1) : Happens(o, status, 2 * n)
  BY <1>1
<1> DEFINE row == [status |-> status, ts |-> 2 * n, version |-> orders[o].version + 1]
           frame == [kind |-> "order", order |-> o, row |-> row]
<1>3. /\ events < MaxEvents /\ events' = events + 1
      /\ orders' = [orders EXCEPT ![o] = row] /\ was' = [was EXCEPT ![o] = orders[o]]
      /\ IF running THEN Enqueue(frame) ELSE UNCHANGED queue
      /\ UNCHANGED running
  BY <1>2 DEF Happens
<1>4. events \in Nat /\ events' \in 0..MaxEvents /\ orders[o] \in RowNow /\ orders[o].version \in Nat
  BY <1>3, Bounds, RowNowIsRow, NoneFacts DEF Types, EngineOK
<1>5. status \in Status /\ n \in Nat
  BY <1>4 DEF Becomes, Status
<1>6. row \in RowNow' /\ row \in Row /\ row.version > 0 /\ row # None
  <2>1. 2 * n \in 0..(2 * events') /\ 2 * n \in 0..(2 * MaxEvents) /\ orders[o].version + 1 \in Nat
    BY <1>3, <1>4, <1>5, Bounds
  <2>2. row \in RowNow' /\ row \in Row /\ row.version > 0
    BY <1>4, <1>5, <2>1 DEF RowNow, Row
  <2>3. row.version # None.version
    BY <2>2, NoneFacts
  <2> QED BY <2>2, <2>3
<1>7. RowNow \subseteq RowNow'
  BY <1>3, <1>4 DEF RowNow
<1>8. frame \in OrderFrame
  BY <1>6 DEF OrderFrame
<1> HIDE DEF row, frame
<1>9. queue' \in Seq(OrderFrame \cup SnapshotFrame) /\ Len(queue') <= QueueMax
  BY <1>3, <1>8, EnqueueType DEF Types, EngineOK
<1>10. orders' \in [Order -> RowNow'] /\ was' \in [Order -> RowNow']
  BY <1>3, <1>6, <1>7 DEF Types, EngineOK
<1>11. \A p \in Order : orders'[p] # None => orders'[p].version > 0
  BY <1>3, <1>6 DEF Types, EngineOK
<1> QED BY <1>3, <1>4, <1>9, <1>10, <1>11 DEF Types, EngineOK

LEMMA SnapshotTypes ==
  ASSUME Types, Snapshot
  PROVE  EngineOK'
<1> DEFINE rows == [o \in {p \in Order : Listed(p)} |-> orders[o]]
           frame == [kind |-> "orders", rows |-> rows, ts |-> 2 * events + 1]
<1>1. Enqueue(frame) /\ UNCHANGED <<orders, was, events, running>>
  BY DEF Snapshot
<1>2. \A o \in DOMAIN rows : rows[o] \in Row \ {None} /\ rows[o].status # "SUBMITTED"
  BY NoneFacts, RowNowIsRow DEF Listed, IsRecent, Terminal, Types, EngineOK
<1>3. 2 * events + 1 \in Nat
  BY Bounds DEF Types, EngineOK
<1>4. frame \in SnapshotFrame
  <2>1. DOMAIN rows \in SUBSET Order /\ rows \in [DOMAIN rows -> Row]
    BY <1>2
  <2> HIDE DEF rows
  <2> QED BY <1>2, <1>3, <2>1 DEF SnapshotFrame, SnapshotOK
<1> HIDE DEF frame
<1>5. queue' \in Seq(OrderFrame \cup SnapshotFrame) /\ Len(queue') <= QueueMax
  BY <1>1, <1>4, EnqueueType DEF Types, EngineOK
<1> QED BY <1>1, <1>5 DEF Types, EngineOK, RowNow

LEMMA DrainTypes ==
  ASSUME Types, Drain
  PROVE  Types'
<1>1. /\ queue # <<>> /\ queue' = Tail(queue) /\ UNCHANGED <<orders, was, events, running, polled, shown>>
      /\ queue \in Seq(OrderFrame \cup SnapshotFrame) /\ stream \in Seq(OrderFrame)
  BY DEF Drain, Types, EngineOK, RedisOK
<1>2. /\ queue' \in Seq(OrderFrame \cup SnapshotFrame) /\ Len(queue') <= Len(queue) /\ Len(queue) \in Nat
      /\ Head(queue) \in OrderFrame \cup SnapshotFrame
  <2>1. /\ Tail(queue) \in Seq(OrderFrame \cup SnapshotFrame) /\ Len(queue) \in Nat \ {0}
        /\ Len(Tail(queue)) = Len(queue) - 1 /\ Head(queue) \in OrderFrame \cup SnapshotFrame
    BY <1>1, TailFacts
  <2> QED BY <1>1, <2>1
<1>3. EngineOK'
  <2>1. Len(queue') <= QueueMax
    BY <1>1, <1>2, Bounds DEF Types, EngineOK
  <2> QED BY <1>1, <1>2, <2>1 DEF Types, EngineOK, RowNow
<1>4. CASE Head(queue).kind = "orders"
  <2>1. key' = Head(queue) /\ UNCHANGED <<stream, cursor>>
    BY <1>4 DEF Drain
  <2>2. Head(queue) \in SnapshotFrame
    BY <1>2, <1>4 DEF OrderFrame
  <2> QED BY <1>1, <1>3, <2>1, <2>2 DEF Types, RedisOK, ApiOK
<1>5. CASE Head(queue).kind # "orders"
  <2> DEFINE full == Len(stream) = StreamMax
             rest == IF full THEN Tail(stream) ELSE stream
  <2>1. /\ stream' = Append(rest, Head(queue)) /\ UNCHANGED key
        /\ cursor' = IF full /\ cursor > 0 THEN cursor - 1 ELSE cursor
    BY <1>5 DEF Drain
  <2>2. Head(queue) \in OrderFrame
    BY <1>2, <1>5 DEF SnapshotFrame
  <2>3. Len(stream) \in Nat /\ Len(stream) <= StreamMax /\ cursor \in 0..Len(stream)
    BY <1>1, MemberType DEF Types, RedisOK, ApiOK
  <2>4. full => stream # <<>>
    BY EmptyFacts, Bounds
  <2>5. rest \in Seq(OrderFrame) /\ Len(rest) = (IF full THEN Len(stream) - 1 ELSE Len(stream))
    <3>1. CASE full
      BY <1>1, <2>4, <3>1, TailFacts
    <3>2. CASE ~full
      BY <1>1, <3>2
    <3> QED BY <3>1, <3>2
  <2> HIDE DEF rest
  <2>6. stream' \in Seq(OrderFrame) /\ Len(stream') = Len(rest) + 1
    BY <2>1, <2>2, <2>5, AppendFacts
  <2>7. Len(stream') <= StreamMax /\ cursor' \in 0..Len(stream')
    BY <2>1, <2>3, <2>5, <2>6, Bounds
  <2> QED BY <1>1, <1>3, <2>1, <2>6, <2>7 DEF Types, RedisOK, ApiOK
<1> QED BY <1>4, <1>5

\* The larger of 0 and a difference.
LEMMA MaxZero ==
  ASSUME NEW n \in Int
  PROVE  Max({0, n}) = IF n > 0 THEN n ELSE 0
  BY DEF Max

\* What an upsert makes of an order: the new row, the old one, or nothing when it
\* is terminal; and no more terminal rows than the cap.
LEMMA UpsertFacts ==
  ASSUME NEW book \in [Order -> Row], NEW rows, \A o \in DOMAIN rows : rows[o] \in Row,
         NEW x \in Upserted(book, rows)
  PROVE  /\ x \in [Order -> Row]
         /\ Cardinality({o \in Order : Terminal(x[o])}) <= MaxTerminal
         /\ \A o \in Order :
              LET m == IF o \in DOMAIN rows THEN rows[o] ELSE book[o]
              IN  x[o] = m \/ (x[o] = None /\ Terminal(m))
<1> DEFINE merged == [o \in Order |-> IF o \in DOMAIN rows THEN rows[o] ELSE book[o]]
           T == {o \in Order : Terminal(merged[o])}
<1>1. PICK P \in Pruned(merged) : x = [o \in Order |-> IF o \in P THEN None ELSE merged[o]]
  BY DEF Upserted
<1>2. merged \in [Order -> Row]
  OBVIOUS
<1>3. P \subseteq T /\ Cardinality(P) = Max({0, Cardinality(T) - MaxTerminal})
  BY DEF Pruned
<1>4. IsFiniteSet(T) /\ IsFiniteSet(P) /\ Cardinality(T) \in Nat /\ Cardinality(P) \in Nat
  <2>1. IsFiniteSet(T) /\ T \subseteq Order
    BY Bounds, FS_Subset
  <2>2. IsFiniteSet(P)
    BY <1>3, <2>1, FS_Subset
  <2> QED BY <2>1, <2>2, FS_CardinalityType
<1>5. Cardinality(T \ P) = Cardinality(T) - Cardinality(P)
  <2>1. T \cap P = P
    BY <1>3
  <2> HIDE DEF T
  <2> QED BY <1>4, <2>1, FS_Difference
<1>6. Cardinality(T \ P) <= MaxTerminal
  <2> HIDE DEF T
  <2>1. Cardinality(P) = IF Cardinality(T) - MaxTerminal > 0 THEN Cardinality(T) - MaxTerminal ELSE 0
    BY <1>3, <1>4, MaxZero, Bounds
  <2> QED BY <1>4, <1>5, <2>1, Bounds
<1>7. {o \in Order : Terminal(x[o])} = T \ P
  BY <1>1, NoneFacts
<1>8. x \in [Order -> Row]
  BY <1>1, <1>2, NoneFacts
<1>9. \A o \in Order : x[o] = merged[o] \/ (x[o] = None /\ Terminal(merged[o]))
  BY <1>1, <1>3
<1> QED BY <1>6, <1>7, <1>8, <1>9

\* The rows a polled snapshot brings, and what is kept beside them.
LEMMA PolledType ==
  ASSUME NEW s \in SnapshotFrame
  PROVE  /\ DOMAIN s.rows \subseteq Order /\ s.ts \in Nat /\ s.kind = "orders"
         /\ \A o \in DOMAIN s.rows : s.rows[o] \in Row \ {None} /\ s.rows[o].status # "SUBMITTED"
  BY DEF SnapshotFrame, SnapshotOK

LEMMA StreamReadIs ==
  ASSUME Types, StreamRead
  PROVE  /\ shown' \in [Order -> Row] /\ Cardinality({o \in Order : Terminal(shown'[o])}) <= MaxTerminal
         /\ cursor' \in 0..Len(stream)
         /\ \E f \in ToSet(stream) : \A o \in Order :
              shown'[o] \in {None, shown[o]} \/ (f.order = o /\ shown'[o] = f.row)
<1> DEFINE f == stream[cursor + 1]
           rows == [o \in {f.order} |-> f.row]
<1>1. cursor \in 0..Len(stream) /\ Len(stream) \in Nat /\ cursor < Len(stream)
  BY MemberType DEF Types, RedisOK, ApiOK, StreamRead
<1>2. cursor + 1 \in DOMAIN stream /\ cursor' \in 0..Len(stream)
  BY <1>1 DEF StreamRead, Types, RedisOK
<1>3. f \in ToSet(stream) /\ f \in OrderFrame
  BY <1>2, MemberType DEF ToSet, Types, RedisOK
<1>4. f.row \in Row /\ f.order \in Order
  BY <1>3 DEF OrderFrame
<1>5. DOMAIN rows = {f.order} /\ rows[f.order] = f.row
  OBVIOUS
<1>6. shown' \in Upserted(shown, rows)
  BY DEF StreamRead
<1> HIDE DEF f, rows
<1>7. /\ shown' \in [Order -> Row] /\ Cardinality({o \in Order : Terminal(shown'[o])}) <= MaxTerminal
      /\ \A o \in Order :
           LET m == IF o \in DOMAIN rows THEN rows[o] ELSE shown[o]
           IN  shown'[o] = m \/ (shown'[o] = None /\ Terminal(m))
  <2>1. shown \in [Order -> Row] /\ \A o \in DOMAIN rows : rows[o] \in Row
    BY <1>4, <1>5 DEF Types, ApiOK
  <2> QED BY <1>6, <2>1, UpsertFacts
<1> QED BY <1>2, <1>3, <1>5, <1>7

LEMMA PollAppliesIs ==
  ASSUME Types, PollApplies
  PROVE  /\ polled \in SnapshotFrame
         /\ shown' \in [Order -> Row] /\ Cardinality({o \in Order : Terminal(shown'[o])}) <= MaxTerminal
         /\ \A o \in Order :
              LET m == IF o \in DOMAIN polled.rows /\ Taken(o) THEN polled.rows[o]
                       ELSE IF Absent(o) THEN None ELSE shown[o]
              IN  shown'[o] = m \/ (shown'[o] = None /\ Terminal(m))
<1> DEFINE kept == [o \in Order |-> IF Absent(o) THEN None ELSE shown[o]]
           taken == {o \in DOMAIN polled.rows : Taken(o)}
           rows == [o \in taken |-> polled.rows[o]]
<1>1. polled \in SnapshotFrame /\ shown \in [Order -> Row]
  BY DEF Types, ApiOK, PollApplies
<1>2. kept \in [Order -> Row]
  BY <1>1, NoneFacts
<1>3. DOMAIN rows = taken /\ \A o \in taken : rows[o] = polled.rows[o] /\ rows[o] \in Row
  BY <1>1, PolledType
<1>4. shown' \in Upserted(kept, rows)
  BY DEF PollApplies
<1> HIDE DEF kept, rows
<1>5. /\ shown' \in [Order -> Row] /\ Cardinality({o \in Order : Terminal(shown'[o])}) <= MaxTerminal
      /\ \A o \in Order :
           LET m == IF o \in DOMAIN rows THEN rows[o] ELSE kept[o]
           IN  shown'[o] = m \/ (shown'[o] = None /\ Terminal(m))
  BY <1>2, <1>3, <1>4, UpsertFacts
<1>6. \A o \in Order : kept[o] = IF Absent(o) THEN None ELSE shown[o]
  BY DEF kept
<1> QED BY <1>1, <1>3, <1>5, <1>6

LEMMA TypesStep == Types /\ [Next]_vars => Types'
<1> SUFFICES ASSUME Types, [Next]_vars PROVE Types'
  OBVIOUS
<1>1. ASSUME NEW o \in Order, Event(o) PROVE Types'
  <2>1. UNCHANGED <<stream, key, cursor, polled, shown>>
    BY <1>1 DEF Event, Happens, api
  <2> QED BY <1>1, <2>1, EventTypes DEF Types, RedisOK, ApiOK
<1>2. ASSUME NEW o \in Order, Repaired(o) PROVE Types'
  <2>1. /\ UNCHANGED <<was, events, running, queue, stream, key, cursor, polled, shown>>
        /\ orders' = [orders EXCEPT ![o] = [was[o] EXCEPT !.version = orders[o].version + 1]]
        /\ was[o].status = "OPEN"
    BY <1>2 DEF Repaired, api
  <2>2. was[o] \in RowNow /\ was[o] # None /\ orders[o].version \in Nat
    BY <2>1, NoneFacts, RowNowIsRow DEF Types, EngineOK
  <2>3. [was[o] EXCEPT !.version = orders[o].version + 1] \in RowNow
        /\ [was[o] EXCEPT !.version = orders[o].version + 1].version = orders[o].version + 1
    BY <2>2 DEF RowNow
  <2>4. RowNow' = RowNow
    BY <2>1 DEF RowNow
  <2>5. EngineOK'
    BY <2>1, <2>2, <2>3, <2>4 DEF Types, EngineOK
  <2> QED BY <2>1, <2>5 DEF Types, RedisOK, ApiOK
<1>3. CASE Snapshot
  <2>1. UNCHANGED <<stream, key, cursor, polled, shown>>
    BY <1>3 DEF Snapshot, api
  <2> QED BY <1>3, <2>1, SnapshotTypes DEF Types, RedisOK, ApiOK
<1>4. CASE Drain
  BY <1>4, DrainTypes
<1>5. CASE DrainFails \/ EngineStops
  <2>1. queue' \in Seq(OrderFrame \cup SnapshotFrame) /\ Len(queue') <= QueueMax
    <3>1. CASE DrainFails
      <4>1. queue # <<>> /\ queue' = Tail(queue) /\ queue \in Seq(OrderFrame \cup SnapshotFrame)
        BY <3>1 DEF DrainFails, Types, EngineOK
      <4>2. /\ Tail(queue) \in Seq(OrderFrame \cup SnapshotFrame) /\ Len(queue) \in Nat \ {0}
            /\ Len(Tail(queue)) = Len(queue) - 1
        BY <4>1, TailFacts
      <4> QED BY <4>1, <4>2, Bounds DEF Types, EngineOK
    <3>2. CASE EngineStops
      BY <3>2, EmptyFacts, Bounds DEF EngineStops
    <3> QED BY <1>5, <3>1, <3>2
  <2>2. UNCHANGED <<orders, was, events, stream, key, cursor, polled, shown>> /\ running' \in BOOLEAN
    BY <1>5 DEF DrainFails, EngineStops, api, Types, EngineOK
  <2> QED BY <2>1, <2>2 DEF Types, EngineOK, RowNow, RedisOK, ApiOK
<1>6. CASE KeyExpires \/ EngineStarts
  <2>1. UNCHANGED <<orders, was, events, queue, stream, cursor, polled, shown>>
        /\ key' \in {key, NoSnapshot} /\ running' \in BOOLEAN
    BY <1>6 DEF KeyExpires, EngineStarts, engine, api, Types, EngineOK
  <2> QED BY <2>1 DEF Types, EngineOK, RowNow, RedisOK, ApiOK
<1>7. CASE StreamRead
  <2>1. UNCHANGED <<orders, was, events, running, queue, stream, key, polled>>
    BY <1>7 DEF StreamRead, engine
  <2> QED BY <1>7, <2>1, StreamReadIs DEF Types, EngineOK, RowNow, RedisOK, ApiOK
<1>8. CASE PollReads
  <2>1. UNCHANGED <<orders, was, events, running, queue, stream, key, cursor, shown>> /\ polled' = key
    BY <1>8 DEF PollReads, engine
  <2> QED BY <2>1 DEF Types, EngineOK, RowNow, RedisOK, ApiOK
<1>9. CASE PollApplies
  <2>1. UNCHANGED <<orders, was, events, running, queue, stream, key, cursor>> /\ polled' = NoSnapshot
    BY <1>9 DEF PollApplies, engine
  <2> QED BY <1>9, <2>1, PollAppliesIs DEF Types, EngineOK, RowNow, RedisOK, ApiOK
<1>10. CASE ApiRestarts
  <2>1. UNCHANGED <<orders, was, events, running, queue, stream, key>>
        /\ cursor' = 0 /\ polled' = NoSnapshot /\ shown' = [o \in Order |-> None]
    BY <1>10 DEF ApiRestarts, engine
  <2>2. {o \in Order : Terminal(shown'[o])} = {} /\ shown' \in [Order -> Row]
    BY <2>1, NoneFacts
  <2>3. Cardinality({o \in Order : Terminal(shown'[o])}) <= MaxTerminal
    BY <2>2, FS_EmptySet, Bounds
  <2>4. cursor' \in 0..Len(stream')
    BY <2>1, MemberType DEF Types, RedisOK
  <2> QED BY <2>1, <2>2, <2>3, <2>4 DEF Types, EngineOK, RowNow, RedisOK, ApiOK
<1>11. CASE UNCHANGED vars
  BY <1>11 DEF vars, engine, api, Types, EngineOK, RowNow, RedisOK, ApiOK
<1> QED BY <1>1, <1>2, <1>3, <1>4, <1>5, <1>6, <1>7, <1>8, <1>9, <1>10, <1>11 DEF Next

LEMMA TypesAlways == Spec => []Types
<1> QED BY TypesInit, TypesStep, PTL DEF Spec

\* Every frame and row is well formed, queue and stream keep to their bounds, no
\* snapshot lists an order in flight, and the blotter keeps no more terminal
\* orders than its cap (_publish, _on_snapshot, _upsert_order).
THEOREM TypeCorrect == Spec => []TypeOK
<1>1. Types => TypeOK
  <2> SUFFICES ASSUME Types PROVE TypeOK
    OBVIOUS
  <2>1. orders \in [Order -> Row]
    BY RowNowIsRow DEF Types, EngineOK
  <2>2. \A s \in {key, polled} \ {NoSnapshot} : \A o \in DOMAIN s.rows : s.rows[o].status # "SUBMITTED"
    BY PolledType DEF Types, RedisOK, ApiOK
  <2> QED BY <2>1, <2>2 DEF Types, EngineOK, RedisOK, ApiOK, TypeOK
<1> QED BY <1>1, TypesAlways, PTL

-----------------------------------------------------------------------------
(* Nothing newer is taken back. *)

\* The snapshots on their way to the blotter, and an order's events.
Snapshots == {f \in ToSet(queue) : f.kind = "orders"} \cup ({key, polled} \ {NoSnapshot})

EventsOf(o) ==
    {f.row : f \in {g \in ToSet(queue) : g.kind = "order" /\ g.order = o}
                      \cup {g \in ToSet(stream) : g.order = o}}

Lists(s, o) == o \in DOMAIN s.rows

\* The row r of o is no news to the snapshot s, or s was taken before it.
Fits(r, s, o) ==
    /\ Lists(s, o) /\ s.rows[o].version < r.version => s.ts < r.ts
    /\ ~Lists(s, o) /\ r = orders[o] /\ r.status = "OPEN" => s.ts < r.ts

\* No row is ahead of the engine, and one as new as the engine's is the engine's.
Current(r, o) ==
    r.version <= orders[o].version /\ (r.version = orders[o].version => r = orders[o])

AllCurrent ==
    \A o \in Order :
        /\ Current(shown[o], o)
        /\ \A r \in EventsOf(o) : Current(r, o)
        /\ \A s \in Snapshots : Lists(s, o) => Current(s.rows[o], o)

\* A snapshot is younger than its rows and not of the future.
Dated ==
    \A s \in Snapshots :
        s.ts <= 2 * events + 1 /\ \A o \in DOMAIN s.rows : s.rows[o].ts < s.ts

\* What is shown, or will be when its event is read, fits every snapshot.
ShownFits ==
    \A o \in Order \ late : \A s \in Snapshots : \A r \in EventsOf(o) \cup {shown[o]} : Fits(r, s, o)

\* What one snapshot will show fits those that come after it.
Before(p, s) == \A o \in Order \ late : Lists(p, o) => Fits(p.rows[o], s, o)

InTurn ==
    /\ {key, polled} \cap {NoSnapshot} = {} => Before(polled, key)
    /\ \A s \in {key, polled} \ {NoSnapshot} : \A i \in DOMAIN queue :
          queue[i].kind = "orders" => Before(s, queue[i])
    /\ \A i, j \in DOMAIN queue :
          i < j /\ queue[i].kind = "orders" /\ queue[j].kind = "orders" => Before(queue[i], queue[j])

Ordered == AllCurrent /\ Dated /\ ShownFits /\ InTurn

LEMMA OrderedInit == Init => Ordered
<1> SUFFICES ASSUME Init PROVE Ordered
  OBVIOUS
<1>1. Snapshots = {} /\ \A o : EventsOf(o) = {}
  BY EmptyFacts DEF Init, Snapshots, EventsOf
<1>2. key = NoSnapshot /\ DOMAIN queue = {} /\ \A o \in Order : orders[o] = None /\ shown[o] = None
  BY EmptyFacts DEF Init
<1> QED BY <1>1, <1>2, NoneFacts DEF Ordered, AllCurrent, Current, Dated, ShownFits, InTurn

LEMMA SnapshotsType ==
  ASSUME Types
  PROVE  /\ Snapshots \subseteq SnapshotFrame
         /\ \A s \in Snapshots : \A o \in DOMAIN s.rows :
               o \in Order /\ s.rows[o] \in Row /\ s.rows[o].version \in Nat /\ s.rows[o].ts \in Nat
         /\ \A o : EventsOf(o) \subseteq Row \ {None}
         /\ \A o \in Order : orders[o] \in Row /\ shown[o] \in Row
<1>1. Snapshots \subseteq SnapshotFrame
  <2>1. ToSet(queue) \subseteq OrderFrame \cup SnapshotFrame
    BY MemberType DEF Types, EngineOK
  <2>2. \A f \in OrderFrame : f.kind # "orders"
    BY DEF OrderFrame
  <2> QED BY <2>1, <2>2 DEF Snapshots, Types, RedisOK, ApiOK
<1>2. \A o : EventsOf(o) \subseteq Row \ {None}
  <2>1. ToSet(queue) \subseteq OrderFrame \cup SnapshotFrame /\ ToSet(stream) \subseteq OrderFrame
    BY MemberType DEF Types, EngineOK, RedisOK
  <2>2. \A f \in SnapshotFrame : f.kind # "order"
    BY DEF SnapshotFrame
  <2>3. \A f \in OrderFrame : f.row \in Row \ {None}
    BY DEF OrderFrame
  <2> QED BY <2>1, <2>2, <2>3 DEF EventsOf
<1>3. \A s \in Snapshots : \A o \in DOMAIN s.rows :
         o \in Order /\ s.rows[o] \in Row /\ s.rows[o].version \in Nat /\ s.rows[o].ts \in Nat
  BY <1>1, PolledType, NoneFacts
<1>4. \A o \in Order : orders[o] \in Row /\ shown[o] \in Row
  BY RowNowIsRow DEF Types, EngineOK, ApiOK
<1> QED BY <1>1, <1>2, <1>3, <1>4

\* Frames may go and the blotter forget; what fits goes on to fit.
LEMMA OrderedLess ==
  ASSUME Types, Ordered, UNCHANGED <<orders, events, late>>,
         Snapshots' \subseteq Snapshots,
         \A o \in Order : EventsOf(o)' \subseteq EventsOf(o),
         \A o \in Order : shown'[o] \in {None, shown[o]} \cup EventsOf(o)
  PROVE  AllCurrent' /\ Dated' /\ ShownFits'
<1>1. \A r, o : Current(r, o)' <=> Current(r, o)
  BY DEF Current
<1>2. \A r, s, o : Fits(r, s, o)' <=> Fits(r, s, o)
  BY DEF Fits, Lists
<1>3. \A o \in Order : Current(None, o)
  <2> SUFFICES ASSUME NEW o \in Order PROVE Current(None, o)
    OBVIOUS
  <2>1. orders[o] \in Row /\ (orders[o] # None => orders[o].version > 0)
    BY SnapshotsType DEF Types, EngineOK
  <2> QED BY <2>1, NoneFacts DEF Current
<1>4. \A s \in Snapshots : \A o \in Order : Fits(None, s, o)
  BY SnapshotsType, NoneFacts DEF Fits, Lists
<1>5. AllCurrent'
  BY <1>1, <1>3 DEF Ordered, AllCurrent, Lists
<1>6. Dated'
  BY DEF Ordered, Dated
<1>7. ShownFits'
  BY <1>2, <1>4 DEF Ordered, ShownFits
<1> QED BY <1>5, <1>6, <1>7

\* The same, with the frames of the queue in the same order, or fewer.
LEMMA InTurnLess ==
  ASSUME Ordered, UNCHANGED <<orders, late>>, polled' \in {polled, NoSnapshot}, key' \in {key, NoSnapshot},
         NEW k \in {0, 1},
         \A i \in DOMAIN queue' : i \in Nat /\ i + k \in DOMAIN queue /\ queue'[i] = queue[i + k]
  PROVE  InTurn'
<1>1. \A p, s : Before(p, s)' <=> Before(p, s)
  BY DEF Before, Fits, Lists
<1>2. {key', polled'} \cap {NoSnapshot} = {} => key' = key /\ polled' = polled
  OBVIOUS
<1>3. {key', polled'} \ {NoSnapshot} \subseteq {key, polled} \ {NoSnapshot}
  OBVIOUS
<1>4. {key', polled'} \cap {NoSnapshot} = {} => Before(polled', key')
  BY <1>2 DEF Ordered, InTurn
<1>5. \A s \in {key', polled'} \ {NoSnapshot} : \A i \in DOMAIN queue' :
         queue'[i].kind = "orders" => Before(s, queue'[i])
  BY <1>3 DEF Ordered, InTurn
<1>6. \A i, j \in DOMAIN queue' : i < j /\ queue'[i].kind = "orders" /\ queue'[j].kind = "orders"
        => Before(queue'[i], queue'[j])
  <2> SUFFICES ASSUME NEW i \in DOMAIN queue', NEW j \in DOMAIN queue', i < j,
                      queue'[i].kind = "orders", queue'[j].kind = "orders"
               PROVE  Before(queue'[i], queue'[j])
    OBVIOUS
  <2>1. i + k < j + k /\ i + k \in DOMAIN queue /\ j + k \in DOMAIN queue
    OBVIOUS
  <2> QED BY <2>1 DEF Ordered, InTurn
<1> QED BY <1>1, <1>4, <1>5, <1>6 DEF InTurn

\* A new row leaves the older ones behind.
LEMMA NewRow ==
  ASSUME Types, Ordered, NEW o \in Order, NEW row \in Row, row.version = orders[o].version + 1,
         orders' = [orders EXCEPT ![o] = row], late \subseteq late'
  PROVE  /\ orders'[o] = row /\ Current(row, o)'
         /\ \A p \in Order, r \in Row : Current(r, p) => Current(r, p)'
         /\ \A p \in Order, r \in Row, s \in Snapshots : Fits(r, s, p) /\ Current(r, p) => Fits(r, s, p)'
         /\ \A p, s \in Snapshots : Before(p, s) => Before(p, s)'
<1>1. /\ orders'[o] = row /\ orders[o].version \in Nat
      /\ \A p \in Order : p # o => orders'[p] = orders[p]
  BY SnapshotsType, NoneFacts DEF Types, EngineOK
<1>2. \A p \in Order, r \in Row : Current(r, p) => Current(r, p)'
  <2> SUFFICES ASSUME NEW p \in Order, NEW r \in Row, Current(r, p)
               PROVE  r.version <= orders'[p].version /\ (r.version = orders'[p].version => r = orders'[p])
    BY DEF Current
  <2>1. r.version \in Nat /\ r.version <= orders[p].version
    BY NoneFacts DEF Current
  <2> QED BY <1>1, <2>1 DEF Current
<1>3. Current(row, o)'
  <2>1. row.version \in Nat /\ orders'[o] = row
    BY <1>1, NoneFacts
  <2>2. row.version <= orders'[o].version /\ (row.version = orders'[o].version => row = orders'[o])
    BY <2>1
  <2> QED BY <2>2 DEF Current
<1>4. \A p \in Order, r \in Row, s \in Snapshots : Fits(r, s, p) /\ Current(r, p) => Fits(r, s, p)'
  <2> SUFFICES ASSUME NEW p \in Order, NEW r \in Row, NEW s \in Snapshots, Fits(r, s, p), Current(r, p),
                      ~Lists(s, p), r = orders'[p], r.status = "OPEN"
               PROVE  s.ts < r.ts
    BY DEF Fits, Lists
  <2>1. p # o
    BY <1>1, NoneFacts DEF Current
  <2> QED BY <1>1, <2>1 DEF Fits
<1>5. \A p, s \in Snapshots : Before(p, s) => Before(p, s)'
  <2> SUFFICES ASSUME NEW p \in Snapshots, NEW s \in Snapshots, Before(p, s), NEW q \in Order \ late', Lists(p, q)
               PROVE  Fits(p.rows[q], s, q)'
    BY DEF Before, Lists
  <2>1. p.rows[q] \in Row /\ Current(p.rows[q], q) /\ Fits(p.rows[q], s, q)
    BY SnapshotsType DEF Ordered, AllCurrent, Before, Lists
  <2> QED BY <1>4, <2>1
<1> QED BY <1>1, <1>2, <1>3, <1>4, <1>5

\* What an event makes of its order, and the frame that says so.
LEMMA EventIs ==
  ASSUME Types, NEW o \in Order, Event(o)
  PROVE  /\ events' = events + 1 /\ events \in Nat /\ UNCHANGED <<stream, key, polled, shown>>
         /\ \E row \in Row :
              /\ orders' = [orders EXCEPT ![o] = row] /\ row.version = orders[o].version + 1
              /\ [kind |-> "order", order |-> o, row |-> row] \in OrderFrame
              /\ queue' \in {queue, Append(queue, [kind |-> "order", order |-> o, row |-> row])}
              /\ late' = IF row.ts < 2 * (events + 1) THEN late \cup {o} ELSE late
              /\ row.ts \in Nat /\ row.ts <= 2 * (events + 1)
<1>1. PICK status \in Becomes(o) : \E n \in 1..(events + 1) : Happens(o, status, 2 * n)
  BY DEF Event
<1>2. PICK n \in 1..(events + 1) : Happens(o, status, 2 * n)
  BY <1>1
<1> DEFINE row == [status |-> status, ts |-> 2 * n, version |-> orders[o].version + 1]
           frame == [kind |-> "order", order |-> o, row |-> row]
<1>3. /\ events' = events + 1 /\ events \in Nat /\ events < MaxEvents
      /\ orders' = [orders EXCEPT ![o] = row]
      /\ queue' = queue \/ queue' = Append(queue, frame)
      /\ late' = IF row.ts < 2 * (events + 1) THEN late \cup {o} ELSE late
      /\ UNCHANGED <<stream, key, polled, shown>>
  BY <1>2, Bounds DEF Happens, Enqueue, api, Types, EngineOK
<1>4. /\ row.version = orders[o].version + 1 /\ orders[o].version \in Nat
      /\ row.ts = 2 * n /\ row.ts \in Nat /\ row.ts <= 2 * (events + 1)
  BY <1>3, SnapshotsType, NoneFacts
<1>5. row \in Row /\ frame \in OrderFrame
  <2>1. n \in Nat /\ status \in Status
    BY <1>2, <1>3 DEF Becomes, Status
  <2>2. 2 * n \in 0..(2 * MaxEvents) /\ orders[o].version + 1 \in Nat
    BY <1>3, <1>4, <2>1, Bounds
  <2>3. row \in Row /\ row.version # 0
    BY <1>4, <2>1, <2>2 DEF Row
  <2>4. row # None
    BY <2>3, NoneFacts
  <2> HIDE DEF row
  <2> QED BY <2>3, <2>4 DEF OrderFrame
<1> HIDE DEF row
<1> QED BY <1>3, <1>4, <1>5

\* An event is news to every snapshot there is, or its order is late.
LEMMA EventOrdered ==
  ASSUME Types, Types', Ordered, NEW o \in Order, Event(o)
  PROVE  Ordered'
<1>1. /\ events' = events + 1 /\ events \in Nat
      /\ UNCHANGED <<stream, key, polled, shown>>
  BY EventIs
<1>2. PICK row \in Row :
        /\ orders' = [orders EXCEPT ![o] = row] /\ row.version = orders[o].version + 1
        /\ [kind |-> "order", order |-> o, row |-> row] \in OrderFrame
        /\ queue' \in {queue, Append(queue, [kind |-> "order", order |-> o, row |-> row])}
        /\ late' = IF row.ts < 2 * (events + 1) THEN late \cup {o} ELSE late
        /\ row.ts \in Nat /\ row.ts <= 2 * (events + 1)
  BY EventIs
<1> DEFINE frame == [kind |-> "order", order |-> o, row |-> row]
<1>3. queue' = queue \/ queue' = Append(queue, frame)
  BY <1>2
<1>4. frame.kind = "order" /\ frame.order = o /\ frame.row = row /\ frame \in OrderFrame
  BY <1>2
<1>5. late \subseteq late' /\ \A p \in Order \ late' : p \notin late /\ (p = o => row.ts = 2 * events + 2)
  BY <1>1, <1>2
<1>6. /\ Current(row, o)'
      /\ \A p \in Order, r \in Row : Current(r, p) => Current(r, p)'
      /\ \A p \in Order, r \in Row, s \in Snapshots : Fits(r, s, p) /\ Current(r, p) => Fits(r, s, p)'
      /\ \A p, s \in Snapshots : Before(p, s) => Before(p, s)'
  BY <1>2, <1>5, NewRow
<1> HIDE DEF frame
<1>7. /\ ToSet(queue') \subseteq ToSet(queue) \cup {frame}
      /\ DOMAIN queue' \subseteq DOMAIN queue \cup {Len(queue) + 1}
      /\ \A i \in DOMAIN queue' : (i \in DOMAIN queue /\ queue'[i] = queue[i]) \/ queue'[i] = frame
  <2>1. CASE queue' = queue
    BY <2>1
  <2>2. CASE queue' = Append(queue, frame)
    <3>1. queue \in Seq(OrderFrame \cup SnapshotFrame) /\ frame \in OrderFrame \cup SnapshotFrame
      BY <1>4 DEF Types, EngineOK
    <3> QED BY <2>2, <3>1, AppendFacts
  <2> QED BY <1>3, <2>1, <2>2
<1>8. Snapshots' \subseteq Snapshots
  BY <1>1, <1>4, <1>7 DEF Snapshots
<1>9. \A p \in Order : \A r \in EventsOf(p)' : r \in EventsOf(p) \/ (p = o /\ r = row)
  BY <1>1, <1>4, <1>7 DEF EventsOf
<1>10. AllCurrent'
  <2>1. \A p \in Order : Current(shown[p], p)'
    <3> SUFFICES ASSUME NEW p \in Order
                 PROVE  shown'[p].version <= orders'[p].version
                        /\ (shown'[p].version = orders'[p].version => shown'[p] = orders'[p])
      BY DEF Current
    <3>1. shown[p] \in Row /\ Current(shown[p], p) /\ shown' = shown
      BY <1>1, SnapshotsType DEF Ordered, AllCurrent
    <3>2. Current(shown[p], p) => shown[p].version <= orders'[p].version
                        /\ (shown[p].version = orders'[p].version => shown[p] = orders'[p])
      BY <1>6, <3>1 DEF Current
    <3> QED BY <3>1, <3>2
  <2>2. \A p \in Order : \A r \in EventsOf(p)' : Current(r, p)'
    BY <1>9, <1>6, SnapshotsType DEF Ordered, AllCurrent
  <2>3. \A p \in Order : \A s \in Snapshots' : Lists(s, p) => Current(s.rows[p], p)'
    <3> SUFFICES ASSUME NEW p \in Order, NEW s \in Snapshots', Lists(s, p)
                 PROVE  Current(s.rows[p], p)'
      OBVIOUS
    <3>1. s.rows[p] \in Row /\ Current(s.rows[p], p)
      BY <1>8, SnapshotsType DEF Ordered, AllCurrent, Lists
    <3> QED BY <1>6, <3>1
  <2> QED BY <2>1, <2>2, <2>3 DEF AllCurrent, Lists
<1>11. Dated'
  <2>1. \A s \in Snapshots : s.ts \in Nat
    BY SnapshotsType, PolledType
  <2> QED BY <1>1, <1>8, <2>1 DEF Ordered, Dated
<1>12. ShownFits'
  <2> SUFFICES ASSUME NEW p \in Order \ late', NEW s \in Snapshots', NEW r \in EventsOf(p)' \cup {shown'[p]}
               PROVE  Fits(r, s, p)'
    BY DEF ShownFits
  <2>1. CASE r \in EventsOf(p) \cup {shown[p]}
    <3>1. r \in Row /\ Current(r, p) /\ Fits(r, s, p)
      BY <1>5, <1>8, <2>1, SnapshotsType DEF Ordered, AllCurrent, ShownFits
    <3> QED BY <1>8, <1>6, <3>1
  <2>2. CASE p = o /\ r = row
    <3>1. r.ts = 2 * events + 2 /\ s.ts \in Nat /\ s.ts <= 2 * events + 1
      BY <1>5, <1>8, <2>2, SnapshotsType, PolledType DEF Ordered, Dated
    <3>2. s.ts < r.ts
      BY <1>1, <3>1
    <3> QED BY <3>2 DEF Fits
  <2> QED BY <1>1, <1>9, <2>1, <2>2
<1>13. InTurn'
  <2>1. \A i \in DOMAIN queue' : queue'[i].kind = "orders" => i \in DOMAIN queue /\ queue'[i] = queue[i] /\ queue[i] \in Snapshots
    BY <1>4, <1>7 DEF Snapshots, ToSet
  <2>2. {key, polled} \ {NoSnapshot} \subseteq Snapshots
    BY DEF Snapshots
  <2> QED BY <1>1, <1>6, <2>1, <2>2 DEF Ordered, InTurn
<1> QED BY <1>10, <1>11, <1>12, <1>13 DEF Ordered

\* What a new snapshot lists, and what it leaves out.
LEMMA SnapshotIs ==
  ASSUME Types, Snapshot
  PROVE  /\ UNCHANGED <<orders, events, late, stream, key, polled, shown>>
         /\ \E f \in SnapshotFrame :
              /\ queue' = queue \/ queue' = Append(queue, f)
              /\ f.kind = "orders" /\ f.ts = 2 * events + 1
              /\ \A o \in Order : Lists(f, o) => f.rows[o] = orders[o]
              /\ \A o \in Order : ~Lists(f, o) => orders[o].status # "OPEN"
<1> DEFINE rows == [o \in {p \in Order : Listed(p)} |-> orders[o]]
           frame == [kind |-> "orders", rows |-> rows, ts |-> 2 * events + 1]
<1>1. Enqueue(frame) /\ UNCHANGED <<orders, events, late, stream, key, polled, shown>>
  BY DEF Snapshot, api
<1>2. \A o \in DOMAIN rows : rows[o] \in Row \ {None} /\ rows[o].status # "SUBMITTED"
  BY NoneFacts, RowNowIsRow DEF Listed, IsRecent, Terminal, Types, EngineOK
<1>3. 2 * events + 1 \in Nat
  BY Bounds DEF Types, EngineOK
<1>4. \A o \in Order : IF o \in DOMAIN rows THEN rows[o] = orders[o] ELSE orders[o].status # "OPEN"
  BY DEF Listed
<1>5. frame \in SnapshotFrame
  <2>1. DOMAIN rows \in SUBSET Order /\ rows \in [DOMAIN rows -> Row]
    BY <1>2
  <2> HIDE DEF rows
  <2> QED BY <1>2, <1>3, <2>1 DEF SnapshotFrame, SnapshotOK
<1>6. /\ frame.kind = "orders" /\ frame.ts = 2 * events + 1
      /\ \A o \in Order : Lists(frame, o) => frame.rows[o] = orders[o]
      /\ \A o \in Order : ~Lists(frame, o) => orders[o].status # "OPEN"
  <2> HIDE DEF rows
  <2> QED BY <1>4 DEF Lists
<1>7. queue' = queue \/ queue' = Append(queue, frame)
  BY <1>1 DEF Enqueue
<1> HIDE DEF frame
<1> QED BY <1>1, <1>5, <1>6, <1>7

\* It says what the engine knows, so nothing there is can be ahead of it.
LEMMA SnapshotOrdered ==
  ASSUME Types, Ordered, Snapshot
  PROVE  Ordered'
<1>1. UNCHANGED <<orders, events, late, stream, key, polled, shown>>
  BY SnapshotIs
<1>2. PICK f \in SnapshotFrame :
        /\ queue' = queue \/ queue' = Append(queue, f)
        /\ f.kind = "orders" /\ f.ts = 2 * events + 1
        /\ \A o \in Order : Lists(f, o) => f.rows[o] = orders[o]
        /\ \A o \in Order : ~Lists(f, o) => orders[o].status # "OPEN"
  BY SnapshotIs
<1>3. /\ ToSet(queue') \subseteq ToSet(queue) \cup {f} /\ DOMAIN queue = 1..Len(queue) /\ Len(queue) \in Nat
      /\ \A i \in DOMAIN queue' : 
            /\ i \in Nat
            /\ (i \in DOMAIN queue /\ queue'[i] = queue[i]) \/ (i = Len(queue) + 1 /\ queue'[i] = f)
  <2>1. queue \in Seq(OrderFrame \cup SnapshotFrame) /\ f \in OrderFrame \cup SnapshotFrame
    BY DEF Types, EngineOK
  <2>2. /\ ToSet(Append(queue, f)) = ToSet(queue) \cup {f}
        /\ DOMAIN Append(queue, f) = DOMAIN queue \cup {Len(queue) + 1} /\ DOMAIN queue = 1..Len(queue) /\ Len(queue) \in Nat
        /\ \A i \in DOMAIN queue : Append(queue, f)[i] = queue[i]
        /\ Append(queue, f)[Len(queue) + 1] = f
    BY <2>1, AppendFacts
  <2>3. CASE queue' = queue
    BY <2>2, <2>3
  <2>4. CASE queue' = Append(queue, f)
    BY <2>2, <2>4
  <2> QED BY <1>2, <2>3, <2>4
<1>4. Snapshots' \subseteq Snapshots \cup {f}
  BY <1>1, <1>3 DEF Snapshots
<1>5. \A o : EventsOf(o)' \subseteq EventsOf(o)
  BY <1>1, <1>2, <1>3 DEF EventsOf
<1>6. \A r, o : Current(r, o)' <=> Current(r, o)
  BY <1>1 DEF Current
<1>7. \A r, s, o : Fits(r, s, o)' <=> Fits(r, s, o)
  BY <1>1 DEF Fits, Lists
<1>8. \A p, s : Before(p, s)' <=> Before(p, s)
  BY <1>1 DEF Before, Fits, Lists
<1>9. \A o \in Order, r \in Row : Current(r, o) => Fits(r, f, o)
  BY <1>2, SnapshotsType, NoneFacts DEF Current, Fits
<1>10. \A p \in Snapshots : Before(p, f)
  <2> SUFFICES ASSUME NEW p \in Snapshots, NEW o \in Order, Lists(p, o)
               PROVE  Fits(p.rows[o], f, o)
    BY DEF Before
  <2>1. p.rows[o] \in Row /\ Current(p.rows[o], o)
    BY SnapshotsType DEF Ordered, AllCurrent, Lists
  <2> QED BY <1>9, <2>1
<1>11. AllCurrent'
  <2>1. \A o \in Order : \A r \in EventsOf(o)' : Current(r, o)'
    BY <1>5, <1>6 DEF Ordered, AllCurrent
  <2>2. \A o \in Order : \A s \in Snapshots' : Lists(s, o) => Current(s.rows[o], o)'
    <3> SUFFICES ASSUME NEW o \in Order, NEW s \in Snapshots', Lists(s, o)
                 PROVE  Current(s.rows[o], o)
      BY <1>6
    <3>1. CASE s \in Snapshots
      BY <3>1 DEF Ordered, AllCurrent
    <3>2. CASE s = f
      BY <1>2, <3>2, SnapshotsType, NoneFacts DEF Current
    <3> QED BY <1>4, <3>1, <3>2
  <2>3. \A o \in Order : Current(shown[o], o)'
    <3> SUFFICES ASSUME NEW o \in Order
                 PROVE  shown'[o].version <= orders'[o].version
                        /\ (shown'[o].version = orders'[o].version => shown'[o] = orders'[o])
      BY DEF Current
    <3> QED BY <1>1 DEF Ordered, AllCurrent, Current
  <2> QED BY <2>1, <2>2, <2>3 DEF AllCurrent, Lists
<1>12. Dated'
  <2>1. \A o \in DOMAIN f.rows : f.rows[o].ts < f.ts
    <3> SUFFICES ASSUME NEW o \in DOMAIN f.rows PROVE f.rows[o].ts < f.ts
      OBVIOUS
    <3>1. o \in Order /\ f.rows[o] = orders[o] /\ orders[o] \in RowNow /\ events \in Nat
      BY <1>2, PolledType, Bounds DEF Lists, Types, EngineOK
    <3>2. orders[o].ts \in 0..(2 * events)
      BY <3>1, NoneFacts DEF RowNow
    <3> QED BY <1>2, <3>1, <3>2
  <2>2. f.ts <= 2 * events + 1
    BY <1>2, Bounds DEF Types, EngineOK
  <2> QED BY <1>1, <1>4, <2>1, <2>2 DEF Ordered, Dated
<1>13. ShownFits'
  <2> SUFFICES ASSUME NEW o \in Order \ late, NEW s \in Snapshots', NEW r \in EventsOf(o)' \cup {shown'[o]}
               PROVE  Fits(r, s, o)
    BY <1>1, <1>7 DEF ShownFits
  <2>1. r \in EventsOf(o) \cup {shown[o]}
    BY <1>1, <1>5
  <2>2. r \in Row /\ Current(r, o) /\ \A t \in Snapshots : Fits(r, t, o)
    BY <2>1, SnapshotsType DEF Ordered, AllCurrent, ShownFits
  <2> QED BY <1>4, <1>9, <2>2
<1>14. InTurn'
  <2>1. {key, polled} \ {NoSnapshot} \subseteq Snapshots
    BY DEF Snapshots
  <2>2. \A i \in DOMAIN queue : queue[i].kind = "orders" => queue[i] \in Snapshots
    BY DEF Snapshots, ToSet
  <2>3. \A s \in {key, polled} \ {NoSnapshot} : \A i \in DOMAIN queue' :
           queue'[i].kind = "orders" => Before(s, queue'[i])
    BY <1>3, <1>10, <2>1 DEF Ordered, InTurn
  <2>4. \A i, j \in DOMAIN queue' : i < j /\ queue'[i].kind = "orders" /\ queue'[j].kind = "orders"
           => Before(queue'[i], queue'[j])
    <3> SUFFICES ASSUME NEW i \in DOMAIN queue', NEW j \in DOMAIN queue', i < j,
                        queue'[i].kind = "orders", queue'[j].kind = "orders"
                 PROVE  Before(queue'[i], queue'[j])
      OBVIOUS
    <3>1. i \in DOMAIN queue /\ queue'[i] = queue[i]
      BY <1>3
    <3>2. CASE j \in DOMAIN queue /\ queue'[j] = queue[j]
      BY <3>1, <3>2 DEF Ordered, InTurn
    <3>3. CASE queue'[j] = f
      BY <1>10, <2>2, <3>1, <3>3
    <3> QED BY <1>3, <3>2, <3>3
  <2>5. {key, polled} \cap {NoSnapshot} = {} => Before(polled, key)
    BY DEF Ordered, InTurn
  <2> QED BY <1>1, <1>8, <2>3, <2>4, <2>5 DEF InTurn
<1> QED BY <1>11, <1>12, <1>13, <1>14 DEF Ordered

\* A repair makes a new row of an old one.
LEMMA RepairedOrdered ==
  ASSUME Types, Ordered, NEW o \in Order, Repaired(o)
  PROVE  Ordered'
<1> DEFINE row == [was[o] EXCEPT !.version = orders[o].version + 1]
<1>1. orders' = [orders EXCEPT ![o] = row] /\ UNCHANGED <<events, late, queue, stream, key, polled, shown>>
  BY DEF Repaired, api
<1>2. row \in Row /\ row.version = orders[o].version + 1
  <2>1. was[o] \in Row /\ was[o].status = "OPEN" /\ orders[o].version \in Nat
    BY RowNowIsRow, SnapshotsType, NoneFacts DEF Types, EngineOK, Repaired
  <2> QED BY <2>1, NoneFacts DEF Row
<1> HIDE DEF row
<1>3. Snapshots' = Snapshots /\ \A p : EventsOf(p)' = EventsOf(p)
  BY <1>1 DEF Snapshots, EventsOf
<1>4. /\ \A p \in Order, r \in Row : Current(r, p) => Current(r, p)'
      /\ \A p \in Order, r \in Row, s \in Snapshots : Fits(r, s, p) /\ Current(r, p) => Fits(r, s, p)'
      /\ \A p, s \in Snapshots : Before(p, s) => Before(p, s)'
  BY <1>1, <1>2, NewRow
<1>5. \A p \in Order : \A r \in EventsOf(p) \cup {shown[p]} : r \in Row /\ Current(r, p)
  BY SnapshotsType DEF Ordered, AllCurrent
<1>6. AllCurrent'
  <2>1. \A p \in Order : \A r \in EventsOf(p)' \cup {shown'[p]} : Current(r, p)'
    BY <1>1, <1>3, <1>4, <1>5
  <2>2. \A p \in Order : \A s \in Snapshots' : Lists(s, p) => Current(s.rows[p], p)'
    <3> SUFFICES ASSUME NEW p \in Order, NEW s \in Snapshots', Lists(s, p)
                 PROVE  Current(s.rows[p], p)'
      OBVIOUS
    <3>1. s.rows[p] \in Row /\ Current(s.rows[p], p)
      BY <1>3, SnapshotsType DEF Ordered, AllCurrent, Lists
    <3> QED BY <1>4, <3>1
  <2>3. \A p \in Order : Current(shown[p], p)'
    <3> SUFFICES ASSUME NEW p \in Order
                 PROVE  shown'[p].version <= orders'[p].version
                        /\ (shown'[p].version = orders'[p].version => shown'[p] = orders'[p])
      BY DEF Current
    <3> QED BY <2>1 DEF Current
  <2> QED BY <2>1, <2>2, <2>3 DEF AllCurrent, Lists
<1>7. Dated'
  BY <1>1, <1>3 DEF Ordered, Dated
<1>8. ShownFits'
  <2> SUFFICES ASSUME NEW p \in Order \ late', NEW s \in Snapshots', NEW r \in EventsOf(p)' \cup {shown'[p]}
               PROVE  Fits(r, s, p)'
    BY DEF ShownFits
  <2>1. r \in Row /\ Current(r, p) /\ Fits(r, s, p)
    BY <1>1, <1>3, <1>5 DEF Ordered, ShownFits
  <2> QED BY <1>3, <1>4, <2>1
<1>9. InTurn'
  <2>1. \A i \in DOMAIN queue : queue[i].kind = "orders" => queue[i] \in Snapshots
    BY DEF Snapshots, ToSet
  <2>2. {key, polled} \ {NoSnapshot} \subseteq Snapshots
    BY DEF Snapshots
  <2> QED BY <1>1, <1>4, <2>1, <2>2 DEF Ordered, InTurn
<1> QED BY <1>6, <1>7, <1>8, <1>9 DEF Ordered

\* What is already shown, or arrives as an event, fits; so does nothing at all.
LEMMA OldNews ==
  ASSUME Types, Ordered, NEW o \in Order, NEW r \in {None, shown[o]} \cup EventsOf(o)
  PROVE  Current(r, o) /\ (o \notin late => \A s \in Snapshots : Fits(r, s, o))
<1>1. CASE r = None
  <2>1. orders[o] \in Row /\ (orders[o] # None => orders[o].version > 0)
    BY SnapshotsType DEF Types, EngineOK
  <2>2. Current(r, o)
    BY <1>1, <2>1, NoneFacts DEF Current
  <2>3. \A s \in Snapshots : Fits(r, s, o)
    BY <1>1, SnapshotsType, NoneFacts DEF Fits, Lists
  <2> QED BY <2>2, <2>3
<1>2. CASE r # None
  BY <1>2 DEF Ordered, AllCurrent, ShownFits
<1> QED BY <1>1, <1>2

\* The writer thread: the snapshot at the head becomes the key, the event goes to
\* the stream.
LEMMA DrainOrdered ==
  ASSUME Types, Ordered, Drain
  PROVE  Ordered'
<1>1. /\ queue \in Seq(OrderFrame \cup SnapshotFrame) /\ queue # <<>> /\ queue' = Tail(queue)
      /\ UNCHANGED <<orders, events, late, polled, shown>>
  BY DEF Drain, Types, EngineOK
<1>2. /\ Head(queue) \in OrderFrame \cup SnapshotFrame
      /\ Head(queue) \in ToSet(queue) /\ Head(queue) = queue[1] /\ 1 \in DOMAIN queue
      /\ ToSet(queue') \subseteq ToSet(queue)
      /\ \A i \in DOMAIN queue' : i \in Nat \ {0} /\ i + 1 \in DOMAIN queue /\ queue'[i] = queue[i + 1]
  BY <1>1, TailFacts
<1>3. \A o \in Order : shown'[o] \in {None, shown[o]} \cup EventsOf(o)
  BY <1>1
<1>4. CASE Head(queue).kind = "orders"
  <2>1. key' = queue[1] /\ queue[1].kind = "orders" /\ UNCHANGED stream
    BY <1>2, <1>4 DEF Drain
  <2>2. Snapshots' \subseteq Snapshots /\ \A o \in Order : EventsOf(o)' \subseteq EventsOf(o)
    BY <1>1, <1>2, <2>1 DEF Snapshots, EventsOf
  <2>3. \A p, s : Before(p, s)' <=> Before(p, s)
    BY <1>1 DEF Before, Fits, Lists
  <2>4. {key', polled'} \cap {NoSnapshot} = {} => Before(polled', key')
    BY <1>1, <1>2, <2>1 DEF Ordered, InTurn
  <2>5. \A s \in {key', polled'} \ {NoSnapshot} : \A i \in DOMAIN queue' :
           queue'[i].kind = "orders" => Before(s, queue'[i])
    <3> SUFFICES ASSUME NEW s \in {key', polled'} \ {NoSnapshot}, NEW i \in DOMAIN queue', queue'[i].kind = "orders"
                 PROVE  Before(s, queue'[i])
      OBVIOUS
    <3>1. i + 1 \in DOMAIN queue /\ 1 < i + 1 /\ queue'[i] = queue[i + 1]
      BY <1>2
    <3>2. CASE s = queue[1]
      BY <1>2, <2>1, <3>1, <3>2 DEF Ordered, InTurn
    <3>3. CASE s = polled
      BY <3>1, <3>3 DEF Ordered, InTurn
    <3> QED BY <1>1, <2>1, <3>2, <3>3
  <2>6. \A i, j \in DOMAIN queue' : i < j /\ queue'[i].kind = "orders" /\ queue'[j].kind = "orders"
           => Before(queue'[i], queue'[j])
    <3> SUFFICES ASSUME NEW i \in DOMAIN queue', NEW j \in DOMAIN queue', i < j,
                        queue'[i].kind = "orders", queue'[j].kind = "orders"
                 PROVE  Before(queue'[i], queue'[j])
      OBVIOUS
    <3>1. i + 1 < j + 1 /\ i + 1 \in DOMAIN queue /\ j + 1 \in DOMAIN queue
          /\ queue'[i] = queue[i + 1] /\ queue'[j] = queue[j + 1]
      BY <1>2
    <3> QED BY <3>1 DEF Ordered, InTurn
  <2>7. InTurn'
    BY <2>3, <2>4, <2>5, <2>6 DEF InTurn
  <2> QED BY <1>1, <1>3, <2>2, <2>7, OrderedLess DEF Ordered
<1>5. CASE Head(queue).kind # "orders"
  <2> DEFINE rest == IF Len(stream) = StreamMax THEN Tail(stream) ELSE stream
  <2>1. stream' = Append(rest, Head(queue)) /\ UNCHANGED key
    BY <1>5 DEF Drain
  <2>2. Head(queue) \in OrderFrame /\ Head(queue).kind = "order"
    BY <1>2, <1>5 DEF SnapshotFrame, OrderFrame
  <2>3. rest \in Seq(OrderFrame) /\ ToSet(rest) \subseteq ToSet(stream)
    <3>1. stream \in Seq(OrderFrame)
      BY DEF Types, RedisOK
    <3>2. CASE Len(stream) = StreamMax
      <4>1. stream # <<>>
        BY <3>2, EmptyFacts, Bounds
      <4> QED BY <3>1, <3>2, <4>1, TailFacts
    <3>3. CASE Len(stream) # StreamMax
      BY <3>1, <3>3
    <3> QED BY <3>2, <3>3
  <2> HIDE DEF rest
  <2>4. ToSet(stream') \subseteq ToSet(stream) \cup {Head(queue)}
    <3>1. ToSet(Append(rest, Head(queue))) = ToSet(rest) \cup {Head(queue)}
      BY <2>2, <2>3, AppendFacts
    <3> QED BY <2>1, <2>3, <3>1
  <2>5. Snapshots' \subseteq Snapshots
    BY <1>1, <1>2, <2>1 DEF Snapshots
  <2>6. \A o \in Order : EventsOf(o)' \subseteq EventsOf(o)
    BY <1>2, <2>2, <2>4 DEF EventsOf
  <2>7. InTurn'
    <3>1. \A i \in DOMAIN queue' : i \in Nat /\ i + 1 \in DOMAIN queue /\ queue'[i] = queue[i + 1]
      BY <1>2
    <3>2. polled' \in {polled, NoSnapshot} /\ key' \in {key, NoSnapshot} /\ UNCHANGED <<orders, late>>
      BY <1>1, <2>1
    <3> QED BY <3>1, <3>2, InTurnLess
  <2> QED BY <1>1, <1>3, <2>5, <2>6, <2>7, OrderedLess DEF Ordered
<1> QED BY <1>4, <1>5

\* Frames are lost: the write fails, the engine stops, the key expires, the api
\* forgets; or nothing of the kind changes.
LEMMA LossOrdered ==
  ASSUME Types, Ordered, DrainFails \/ EngineStops \/ KeyExpires \/ EngineStarts \/ ApiRestarts
  PROVE  Ordered'
<1>1. /\ UNCHANGED <<orders, events, late, stream>>
      /\ polled' \in {polled, NoSnapshot} /\ key' \in {key, NoSnapshot}
      /\ \A o \in Order : shown'[o] \in {None, shown[o]}
      /\ queue' = queue \/ queue' = <<>> \/ (queue # <<>> /\ queue' = Tail(queue))
  BY DEF DrainFails, EngineStops, KeyExpires, EngineStarts, ApiRestarts, engine, api
<1>2. queue \in Seq(OrderFrame \cup SnapshotFrame) /\ DOMAIN queue = 1..Len(queue) /\ Len(queue) \in Nat
  BY DEF Types, EngineOK
<1>3. /\ ToSet(queue') \subseteq ToSet(queue)
      /\ \E k \in {0, 1} : \A i \in DOMAIN queue' : i \in Nat /\ i + k \in DOMAIN queue /\ queue'[i] = queue[i + k]
  <2>1. CASE queue' = queue
    <3>1. \A i \in DOMAIN queue : i \in Nat /\ i + 0 = i
      BY <1>2
    <3> QED BY <2>1, <3>1
  <2>2. CASE queue' = <<>>
    BY <2>2, EmptyFacts
  <2>3. CASE queue # <<>> /\ queue' = Tail(queue)
    <3>1. /\ ToSet(queue') \subseteq ToSet(queue)
          /\ \A i \in DOMAIN queue' : i \in Nat /\ i + 1 \in DOMAIN queue /\ queue'[i] = queue[i + 1]
      BY <1>2, <2>3, TailFacts
    <3> QED BY <3>1
  <2> QED BY <1>1, <2>1, <2>2, <2>3
<1>4. Snapshots' \subseteq Snapshots /\ \A o \in Order : EventsOf(o)' \subseteq EventsOf(o)
  BY <1>1, <1>3 DEF Snapshots, EventsOf
<1>5. InTurn'
  <2>1. PICK k \in {0, 1} : \A i \in DOMAIN queue' : i \in Nat /\ i + k \in DOMAIN queue /\ queue'[i] = queue[i + k]
    BY <1>3
  <2> QED BY <1>1, <2>1, InTurnLess
<1>6. \A o \in Order : shown'[o] \in {None, shown[o]} \cup EventsOf(o)
  BY <1>1
<1> QED BY <1>1, <1>4, <1>5, <1>6, OrderedLess DEF Ordered

LEMMA StreamReadOrdered ==
  ASSUME Types, Ordered, StreamRead
  PROVE  Ordered'
<1>1. UNCHANGED <<orders, events, late, queue, stream, key, polled>>
  BY DEF StreamRead, engine
<1>2. PICK f \in ToSet(stream) : \A o \in Order :
        shown'[o] \in {None, shown[o]} \/ (f.order = o /\ shown'[o] = f.row)
  BY StreamReadIs
<1>3. \A o \in Order : shown'[o] \in {None, shown[o]} \cup EventsOf(o)
  BY <1>2 DEF EventsOf
<1>4. Snapshots' \subseteq Snapshots /\ \A o \in Order : EventsOf(o)' \subseteq EventsOf(o)
  BY <1>1 DEF Snapshots, EventsOf
<1>5. InTurn'
  BY <1>1 DEF Ordered, InTurn, Before, Fits, Lists
<1> QED BY <1>1, <1>3, <1>4, <1>5, OrderedLess DEF Ordered

LEMMA PollReadsOrdered ==
  ASSUME Types, Ordered, PollReads
  PROVE  Ordered'
<1>1. UNCHANGED <<orders, events, late, queue, stream, key, shown>> /\ polled' = key /\ key # NoSnapshot
  BY DEF PollReads, engine
<1>2. Snapshots' \subseteq Snapshots /\ \A o \in Order : EventsOf(o)' \subseteq EventsOf(o)
  BY <1>1 DEF Snapshots, EventsOf
<1>3. Before(key, key)
  <2>1. key \in Snapshots
    BY <1>1 DEF Snapshots
  <2> QED BY <2>1, SnapshotsType DEF Before, Fits, Lists
<1>4. \A p, s : Before(p, s)' <=> Before(p, s)
  BY <1>1 DEF Before, Fits, Lists
<1>5. InTurn'
  BY <1>1, <1>3, <1>4 DEF Ordered, InTurn
<1>6. \A o \in Order : shown'[o] \in {None, shown[o]} \cup EventsOf(o)
  BY <1>1
<1> QED BY <1>1, <1>2, <1>5, <1>6, OrderedLess DEF Ordered

\* What the poll shows was in turn before the snapshots that are left.
LEMMA PollAppliesOrdered ==
  ASSUME Types, Ordered, PollApplies
  PROVE  Ordered'
<1>1. UNCHANGED <<orders, events, late, queue, stream, key>> /\ polled' = NoSnapshot
  BY DEF PollApplies, engine
<1>2. polled \in Snapshots /\ polled # NoSnapshot
  BY DEF PollApplies, Snapshots
<1>3. \A o \in Order : shown'[o] \in {None, shown[o]} \/ (Lists(polled, o) /\ shown'[o] = polled.rows[o])
  BY PollAppliesIs DEF Lists
<1>4. Snapshots' \subseteq Snapshots /\ \A o : EventsOf(o)' = EventsOf(o)
  BY <1>1 DEF Snapshots, EventsOf
<1>5. \A s \in Snapshots' : Before(polled, s)
  <2> SUFFICES ASSUME NEW s \in Snapshots' PROVE Before(polled, s)
    OBVIOUS
  <2>1. CASE s = key /\ key # NoSnapshot
    BY <1>2, <2>1 DEF Ordered, InTurn
  <2>2. CASE s \in ToSet(queue) /\ s.kind = "orders"
    <3>1. PICK i \in DOMAIN queue : s = queue[i]
      BY <2>2 DEF ToSet
    <3> QED BY <1>2, <2>2, <3>1 DEF Ordered, InTurn
  <2> QED BY <1>1, <2>1, <2>2 DEF Snapshots
<1>6. \A o \in Order : Current(shown'[o], o) /\ (o \notin late => \A s \in Snapshots' : Fits(shown'[o], s, o))
  <2> SUFFICES ASSUME NEW o \in Order
               PROVE  Current(shown'[o], o) /\ (o \notin late => \A s \in Snapshots' : Fits(shown'[o], s, o))
    OBVIOUS
  <2>1. CASE shown'[o] \in {None, shown[o]}
    BY <1>4, <2>1, OldNews
  <2>2. CASE Lists(polled, o) /\ shown'[o] = polled.rows[o]
    BY <1>2, <1>5, <2>2 DEF Ordered, AllCurrent, Before
  <2> QED BY <1>3, <2>1, <2>2
<1>7. AllCurrent'
  <2>1. \A r, o : Current(r, o)' <=> Current(r, o)
    BY <1>1 DEF Current
  <2>2. \A o \in Order : /\ \A r \in EventsOf(o)' : Current(r, o)
                        /\ \A s \in Snapshots' : Lists(s, o) => Current(s.rows[o], o)
    BY <1>4 DEF Ordered, AllCurrent
  <2> QED BY <1>6, <2>1, <2>2 DEF AllCurrent, Lists
<1>8. Dated'
  BY <1>1, <1>4 DEF Ordered, Dated
<1>9. ShownFits'
  <2>1. \A r, s, o : Fits(r, s, o)' <=> Fits(r, s, o)
    BY <1>1 DEF Fits, Lists
  <2> QED BY <1>1, <1>4, <1>6, <2>1 DEF Ordered, ShownFits
<1>10. InTurn'
  BY <1>1 DEF Ordered, InTurn, Before, Fits, Lists
<1> QED BY <1>7, <1>8, <1>9, <1>10 DEF Ordered

LEMMA OrderedStep == Types /\ Types' /\ Ordered /\ [Next]_vars => Ordered'
<1> SUFFICES ASSUME Types, Types', Ordered, [Next]_vars PROVE Ordered'
  OBVIOUS
<1>1. CASE \E o \in Order : Event(o)
  BY <1>1, EventOrdered
<1>2. CASE \E o \in Order : Repaired(o)
  BY <1>2, RepairedOrdered
<1>3. CASE Snapshot
  BY <1>3, SnapshotOrdered
<1>4. CASE Drain
  BY <1>4, DrainOrdered
<1>5. CASE DrainFails \/ EngineStops \/ KeyExpires \/ EngineStarts \/ ApiRestarts
  BY <1>5, LossOrdered
<1>6. CASE StreamRead
  BY <1>6, StreamReadOrdered
<1>7. CASE PollReads
  BY <1>7, PollReadsOrdered
<1>8. CASE PollApplies
  BY <1>8, PollAppliesOrdered
<1>9. CASE UNCHANGED vars
  <2>1. UNCHANGED <<orders, events, queue, stream, key, polled, shown, late>>
    BY <1>9 DEF vars, engine, api
  <2> QED BY <2>1 DEF Ordered, AllCurrent, Current, Dated, ShownFits, Fits, Lists, InTurn, Before, Snapshots, EventsOf
<1> QED BY <1>1, <1>2, <1>3, <1>4, <1>5, <1>6, <1>7, <1>8, <1>9 DEF Next

LEMMA OrderedAlways == Spec => []Ordered
<1> QED BY OrderedInit, OrderedStep, TypesAlways, PTL DEF Spec

StopsOK == stops \in 0..MaxStops

\* A poll that is applied takes an order back only if it ends it or the engine has
\* gone on.
LEMMA PollTakesNothingBack ==
  ASSUME Types, Ordered, PollApplies, NEW o \in Order \ late
  PROVE  \/ shown'[o].version >= shown[o].version
         \/ /\ shown'[o].status = "none"
            /\ \/ Terminal(shown[o]) \/ orders[o].status # "OPEN"
               \/ orders[o].version > shown[o].version
<1>1. /\ polled \in Snapshots /\ polled \in SnapshotFrame
      /\ shown[o] \in Row /\ orders[o] \in Row /\ polled.ts \in Nat
      /\ Current(shown[o], o) /\ Fits(shown[o], polled, o)
  BY SnapshotsType, PolledType, PollAppliesIs DEF PollApplies, Snapshots, Ordered, AllCurrent, ShownFits
<1>2. Lists(polled, o) => /\ polled.rows[o] \in Row /\ polled.rows[o].ts < polled.ts
                          /\ Current(polled.rows[o], o)
  BY <1>1, SnapshotsType DEF Ordered, AllCurrent, Dated, Lists
<1>3. CASE Lists(polled, o) /\ Taken(o)
  <2>1. shown'[o] = polled.rows[o] \/ (shown'[o] = None /\ Terminal(polled.rows[o]))
    BY <1>3, PollAppliesIs DEF Lists
  <2>2. polled.rows[o].version >= shown[o].version
    BY <1>1, <1>2, <1>3, NoneFacts DEF Fits, Taken
  <2>3. CASE Terminal(polled.rows[o])
    <3>1. orders[o].version > shown[o].version \/ orders[o].status # "OPEN"
      BY <1>1, <1>2, <1>3, <2>2, <2>3, NoneFacts DEF Current, Terminal
    <3> QED BY <2>1, <2>2, <3>1, NoneFacts
  <2> QED BY <2>1, <2>2, <2>3
<1>4. CASE ~(Lists(polled, o) /\ Taken(o)) /\ Absent(o)
  <2>1. shown'[o] = None /\ ~Lists(polled, o) /\ shown[o].ts <= polled.ts
    BY <1>4, PollAppliesIs, NoneFacts DEF Lists, Absent
  <2>2. ~(shown[o] = orders[o] /\ shown[o].status = "OPEN")
    BY <1>1, <2>1, NoneFacts DEF Fits
  <2>3. orders[o].version > shown[o].version \/ orders[o].status # "OPEN"
    BY <1>1, <2>2, NoneFacts DEF Current
  <2> QED BY <2>1, <2>3, NoneFacts
<1>5. CASE ~(Lists(polled, o) /\ Taken(o)) /\ ~Absent(o)
  <2>1. shown'[o] = shown[o] \/ (shown'[o] = None /\ Terminal(shown[o]))
    BY <1>5, PollAppliesIs DEF Lists
  <2> QED BY <1>1, <2>1, NoneFacts
<1> QED BY <1>3, <1>4, <1>5

\* A poll never puts an older state of an order in the place of a newer one that
\* the stream has shown, and drops no order that is open, only because its
\* snapshot was taken before it; whatever happened between the reading of the
\* snapshot and its use, restarts, lost writes and repairs of the cache included
\* (_reconcile_orders).
THEOREM NothingIsTakenBack == Spec => NeverReverts
<1>1. Types /\ Ordered /\ StopsOK /\ [Next]_vars =>
        [\A o \in Order \ late :
          polled # NoSnapshot /\ polled' = NoSnapshot /\ stops' = stops =>
              \/ shown'[o].version >= shown[o].version
              \/ /\ shown'[o].status = "none"
                 /\ \/ Terminal(shown[o]) \/ orders[o].status # "OPEN"
                    \/ orders[o].version > shown[o].version]_vars
  <2> SUFFICES ASSUME Types, Ordered, StopsOK, Next, NEW o \in Order \ late,
                      polled # NoSnapshot, polled' = NoSnapshot, stops' = stops
               PROVE  \/ shown'[o].version >= shown[o].version
                      \/ /\ shown'[o].status = "none"
                         /\ \/ Terminal(shown[o]) \/ orders[o].status # "OPEN"
                            \/ orders[o].version > shown[o].version
    OBVIOUS
  <2>1. CASE PollApplies
    BY <2>1, PollTakesNothingBack
  <2>2. CASE ~PollApplies
    <3>1. CASE DrainFails \/ EngineStops \/ ApiRestarts
      BY <3>1, Bounds DEF StopsOK, DrainFails, EngineStops, ApiRestarts
    <3>2. CASE PollReads
      BY <3>2 DEF PollReads
    <3>3. CASE \E p \in Order : Event(p)
      <4>1. polled' = polled
        BY <3>3, EventIs
      <4> QED BY <4>1
    <3>4. CASE (\E p \in Order : Repaired(p)) \/ Snapshot \/ Drain \/ KeyExpires \/ EngineStarts \/ StreamRead
      BY <3>4 DEF Repaired, Snapshot, Drain, KeyExpires, EngineStarts, StreamRead, api
    <3> QED BY <2>2, <3>1, <3>2, <3>3, <3>4 DEF Next
  <2> QED BY <2>1, <2>2
<1>2. Spec => []StopsOK
  <2>1. Init => StopsOK
    BY Bounds DEF Init, StopsOK
  <2>2. StopsOK /\ [Next]_vars => StopsOK'
    <3> SUFFICES ASSUME StopsOK, [Next]_vars PROVE stops' \in 0..MaxStops
      BY DEF StopsOK
    <3>1. CASE DrainFails \/ EngineStops \/ ApiRestarts
      BY <3>1, Bounds DEF StopsOK, DrainFails, EngineStops, ApiRestarts
    <3>2. CASE UNCHANGED stops
      BY <3>2 DEF StopsOK
    <3>3. (\E o \in Order : Event(o)) => UNCHANGED stops
      BY DEF Event, Happens
    <3>4. (\E o \in Order : Repaired(o)) => UNCHANGED stops
      BY DEF Repaired
    <3> QED BY <3>1, <3>2, <3>3, <3>4
            DEF Next, vars, Snapshot, Drain, KeyExpires, EngineStarts, StreamRead, PollReads, PollApplies
  <2> QED BY <2>1, <2>2, PTL DEF Spec
<1> QED BY <1>1, <1>2, TypesAlways, OrderedAlways, PTL DEF Spec, NeverReverts
=============================================================================
