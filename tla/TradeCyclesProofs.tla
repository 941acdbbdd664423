--------------------------- MODULE TradeCyclesProofs ---------------------------
(***************************************************************************)
(* Proofs about TradeCycles for any number of native events, entry orders, *)
(* faults and restarts.                                                    *)
(***************************************************************************)
EXTENDS TradeCycles, FiniteSetTheorems, WellFoundedInduction, TLAPS

-----------------------------------------------------------------------------
(* One cycle, one id. *)

\* What the uninterrupted fold says of the present position and orders.
FoldSettled == TrueCycle(pos, entries) = truth

\* The gate is closed while the process is down, and nothing is written then.
GateOK ==
    /\ seeded => up
    /\ ~seeded => flights = {}

\* What a seed would resume.
Resumable == ~seeded /\ missed = {} => Recorded = truth

Follows == FoldSettled /\ GateOK /\ Resumable /\ SameCycle

LEMMA FollowsInit == Init => Follows
BY DEF Init, Follows, FoldSettled, GateOK, Resumable, SameCycle, Tracking, TrueCycle

\* A fold that agrees with the true one goes on to agree with it.
LEMMA FollowedIsTrue ==
    ASSUME NEW p, NEW es, active = truth
    PROVE  Followed(p, es) = TrueCycle(p, es)
BY DEF Followed, Emitted, StateOf, Anchor, TrueCycle

LEMMA HappensFollows == Follows /\ Happens => Follows'
<1> SUFFICES ASSUME Follows, Happens
             PROVE  Follows'
    OBVIOUS
<1> USE DEF Follows, GateOK
<1>1. truth' = TrueCycle(pos', entries') /\ UNCHANGED <<up, seeded, crashes>>
    BY DEF Happens, Sees
<1>2. FoldSettled'
    BY <1>1 DEF FoldSettled, TrueCycle
<1>3. missed' = {} =>
          \/ up /\ seeded /\ active' = 0 /\ truth' = 0
          \/ missed = {} /\ (truth' = truth \/ (active' = truth' /\ up /\ seeded))
    BY DEF Happens, Sees
<1>4. CASE Publish(pos', entries', clock')
    <2>1. up /\ seeded /\ active' = Followed(pos', entries')
        BY <1>4 DEF Publish, Folds
    <2>2. SameCycle'
        BY <1>1, <1>3, <2>1, FollowedIsTrue DEF SameCycle, Tracking
    <2> QED  BY <1>1, <1>2, <2>1, <2>2 DEF Resumable
<1>5. CASE PublishRaises(pos', entries')
    <2>1. up /\ seeded /\ (active' = active \/ active' = Followed(pos', entries'))
        BY <1>5 DEF PublishRaises, Folds
    <2>2. SameCycle'
        BY <1>1, <1>3, <2>1, FollowedIsTrue DEF SameCycle, Tracking
    <2> QED  BY <1>1, <1>2, <2>1, <2>2 DEF Resumable
<1>6. CASE NotFolded
    <2>1. ~(up /\ seeded) /\ ~seeded /\ table' = table /\ flights' = flights
        BY <1>6 DEF NotFolded, envelope
    <2>2. SameCycle'
        BY <1>1, <2>1 DEF SameCycle, Tracking
    <2>3. Recorded' = Recorded
        BY <2>1 DEF Recorded, LiveRows, Live
    <2>4. Resumable'
        BY <1>1, <1>3, <2>1, <2>3 DEF Resumable
    <2> QED  BY <1>1, <1>2, <2>1, <2>2, <2>4
<1> QED  BY <1>4, <1>5, <1>6 DEF Happens

\* A fold of what has been folded before.
LEMMA RefoldFollows ==
    ASSUME Follows, up, seeded, UNCHANGED <<pos, entries, up, seeded, truth>>,
           active' = active \/ active' = Followed(pos, entries),
           missed' = IF active' = 0 /\ truth = 0 THEN {} ELSE missed
    PROVE  Follows'
<1>1. FoldSettled'
    BY DEF Follows, FoldSettled, TrueCycle
<1>2. missed' = {} => active' = truth
    BY FollowedIsTrue DEF Follows, FoldSettled, SameCycle, Tracking
<1> QED  BY <1>1, <1>2 DEF Follows, GateOK, Resumable, SameCycle, Tracking

LEMMA FollowsStep == Follows /\ [Next]_vars => Follows'
<1> SUFFICES ASSUME Follows, [Next]_vars
             PROVE  Follows'
    OBVIOUS
<1>1. CASE Native
    BY <1>1, HappensFollows DEF Native, Submitted, Accepted, Ends, Opens, ClosesPosition
<1>2. CASE Tick
    <2>1. up /\ seeded /\ (active' = active \/ active' = Followed(pos, entries))
        BY <1>2 DEF Tick, Publish, PublishRaises, Folds
    <2> QED  BY <1>2, <2>1, RefoldFollows DEF Tick, native
<1>3. CASE GuardReads
    BY <1>3, RefoldFollows DEF GuardReads, Folds, native
<1>4. ASSUME NEW f \in flights, Lands(f) \/ Refused(f) \/ Callback(f)
      PROVE  Follows'
    <2>1. UNCHANGED <<pos, entries, up, seeded, active, truth>> /\ missed' = missed
        BY <1>4 DEF Lands, Refused, Callback, native, fold, history
    <2>2. seeded
        BY <1>4 DEF Follows, GateOK
    <2> QED  BY <2>1, <2>2 DEF Follows, GateOK, FoldSettled, TrueCycle, Resumable, SameCycle, Tracking
<1>5. CASE Crash
    <2>1. ~up' /\ ~seeded' /\ flights' = {} /\ UNCHANGED <<pos, entries, table, truth>>
        BY <1>5 DEF Crash
    <2>2. FoldSettled' /\ Recorded' = Recorded
        BY <2>1 DEF Follows, FoldSettled, TrueCycle, Recorded, LiveRows, Live
    <2>3. missed' = {} => missed = {} /\ (seeded => Recorded = active)
        BY <1>5 DEF Crash
    <2>4. Resumable'
        BY <1>5, <2>1, <2>2, <2>3 DEF Crash, Follows, Resumable, SameCycle, Tracking
    <2> QED  BY <2>1, <2>2, <2>4 DEF Follows, GateOK, SameCycle, Tracking
<1>6. CASE Restart
    BY <1>6 DEF Restart, native, fold, envelope, history, Follows, GateOK, FoldSettled,
        TrueCycle, Resumable, Recorded, LiveRows, Live, SameCycle, Tracking
<1>7. CASE SeedApplies
    <2>1. UNCHANGED <<pos, entries, up, truth, flights>> /\ seeded' /\ up /\ ~seeded
          /\ active' = Recorded /\ (missed' = {} => missed = {})
        BY <1>7 DEF SeedApplies, Resumes, native, envelope
    <2> QED  BY <2>1 DEF Follows, GateOK, FoldSettled, TrueCycle, Resumable, SameCycle, Tracking
<1>8. CASE SeedFails
    <2>1. UNCHANGED <<pos, entries, up, truth, flights>> /\ seeded' /\ up /\ missed' # {}
        BY <1>8 DEF SeedFails, native, envelope
    <2> QED  BY <2>1 DEF Follows, GateOK, FoldSettled, TrueCycle, Resumable, SameCycle, Tracking
<1>9. CASE UNCHANGED vars
    BY <1>9 DEF vars, native, fold, envelope, history, Follows, GateOK, FoldSettled,
        TrueCycle, Resumable, Recorded, LiveRows, Live, SameCycle, Tracking
<1> QED  BY <1>1, <1>2, <1>3, <1>4, <1>5, <1>6, <1>7, <1>8, <1>9 DEF Next

THEOREM FollowsAlways == Spec => []Follows
<1> QED  BY FollowsInit, FollowsStep, PTL DEF Spec

\* A trade keeps one cycle id, across the flats an order bridges, across
\* restarts, and whatever becomes of the writes (_publish_trades, _apply_seed).
THEOREM OneCycleOneId == Spec => []SameCycle
<1>1. Follows => SameCycle  BY DEF Follows
<1> QED  BY <1>1, FollowsAlways, PTL

-----------------------------------------------------------------------------
(* Choices. *)

\* The least of a set of numbers is one of them (_mint_opened_ts).
LEMMA MinIn ==
    ASSUME NEW S, S \subseteq Nat, S # {}
    PROVE  Min(S) \in S
<1>1. PICK x \in S : \A y \in S : ~ (<<y, x>> \in OpToRel(<, Nat))
    BY NatLessThanWellFounded, WFMin
<1>2. \A y \in S : ~ (y < x)
    BY <1>1, Zenon DEF OpToRel
<1>3. \A y \in S : x <= y
    BY <1>2
<1> QED  BY <1>3 DEF Min

\* The last of a set of legs is one of them.
LEMMA MaxIn ==
    ASSUME NEW n \in Nat, NEW S, S \subseteq 1..n, S # {}
    PROVE  Max(S) \in S
<1> DEFINE T == {n - x : x \in S}
<1>1. T \subseteq Nat /\ T # {}
    <2>1. PICK s \in S : TRUE
        OBVIOUS
    <2>2. n - s \in T
        OBVIOUS
    <2> QED  BY <2>2
<1>2. PICK t \in T : \A y \in T : ~ (<<y, t>> \in OpToRel(<, Nat))
    BY <1>1, NatLessThanWellFounded, WFMin
<1>3. PICK x \in S : t = n - x
    OBVIOUS
<1>4. \A y \in S : x >= y
    <2> TAKE y \in S
    <2>1. \A u \in T : ~ (u < t)
        BY <1>1, <1>2, Zenon DEF OpToRel
    <2> HIDE DEF T
    <2>2. n - y \in T
        BY DEF T
    <2> QED  BY <1>3, <2>1, <2>2
<1> QED  BY <1>4 DEF Max

\* Among one number more than there are writes on their way, one is free.
LEMMA AttemptIsFree ==
    ASSUME IsFiniteSet(flights)
    PROVE  Attempt \in Nat \ {0} /\ \A f \in flights : f.attempt # Attempt
<1> DEFINE n == Cardinality(flights) + 1
           used == {f.attempt : f \in flights}
<1>1. n \in Nat \ {0}
    BY FS_CardinalityType
<1>2. IsFiniteSet(used) /\ Cardinality(used) <= Cardinality(flights)
    <2> DEFINE g == [f \in flights |-> f.attempt]
    <2>1. g \in Surjection(flights, used)
        BY DEF Surjection
    <2> QED  BY <2>1, FS_Surjection
<1>3. ~(1..n \subseteq used)
    <2> SUFFICES ASSUME 1..n \subseteq used
                 PROVE  FALSE
        OBVIOUS
    <2>1. Cardinality(1..n) = n
        BY <1>1, FS_Interval
    <2>2. Cardinality(1..n) <= Cardinality(used)
        BY <1>2, FS_Subset
    <2> QED  BY <1>1, <1>2, <2>1, <2>2, FS_CardinalityType
<1>4. \E k \in 1..n : \A f \in flights : f.attempt # k
    BY <1>3
<1> QED  BY <1>1, <1>4 DEF Attempt

-----------------------------------------------------------------------------
(* Types. *)

NativeOK ==
    /\ clock \in 0..MaxClock /\ pos \in 0..clock
    /\ inflight \subseteq 1..clock /\ entries \subseteq 1..clock /\ legs \subseteq 1..clock

FoldOK ==
    /\ up \in BOOLEAN /\ seeded \in BOOLEAN
    /\ active \in 0..clock /\ seen \subseteq legs /\ truth \in 0..clock
    /\ missed \subseteq {"unseen", "unrecorded", "legs", "seed"}

Flight == [id : Id, state : State, ts : 1..MaxClock, attempt : Nat \ {0},
           at : {"sent", "done", "failed"}]

\* A write, and a row, is of a cycle that has begun.
FlightsOK ==
    /\ IsFiniteSet(flights) /\ flights \subseteq Flight
    /\ \A f \in flights : f.id <= f.ts /\ f.ts <= clock

TableOK ==
    /\ table \in [Id -> [state : State \cup {"none"}, ts : 0..MaxClock]]
    /\ \A id \in Id :
          table[id].ts <= clock /\ (table[id].state # "none" => id <= table[id].ts)

EnvelopeOK ==
    /\ written \in [Id -> State \cup {"none"}] /\ pending \in [Id -> Nat]
    /\ FlightsOK /\ TableOK

Types == NativeOK /\ FoldOK /\ EnvelopeOK

LEMMA Bound == MaxClock \in Nat
BY TradeCyclesAssumption

LEMMA TypesInit == Init => Types
BY Bound, FS_EmptySet DEF Init, Types, NativeOK, FoldOK, EnvelopeOK, FlightsOK, TableOK, Id, State

\* What a projection emits is the name of a cycle that has begun.
LEMMA EmittedType ==
    ASSUME NEW n \in Nat, NEW p \in 0..n, NEW es, es \subseteq 1..n,
           active \in 0..n, truth \in 0..n
    PROVE  /\ Emitted(p, es) \in 0..n /\ Followed(p, es) \in 0..n /\ TrueCycle(p, es) \in 0..n
           /\ StateOf(p, es) \in State
<1>1. es # {} => Min(es) \in 1..n
    <2>1. es \subseteq Nat
        OBVIOUS
    <2> QED  BY <2>1, MinIn
<1> QED  BY <1>1 DEF Emitted, Followed, TrueCycle, StateOf, Anchor, State

LEMMA RecordedType ==
    ASSUME NativeOK, TableOK
    PROVE  Recorded \in 0..clock
<1>1. CASE LiveRows = {}
    BY <1>1, Bound DEF Recorded, NativeOK
<1>2. CASE LiveRows # {}
    <2>1. Recorded \in LiveRows
        BY <1>2 DEF Recorded
    <2>2. Recorded \in Id /\ table[Recorded].state # "none"
        BY <2>1 DEF LiveRows, Live
    <2> HIDE DEF Recorded
    <2>3. /\ table[Recorded].ts <= clock /\ Recorded <= table[Recorded].ts
          /\ table[Recorded].ts \in Nat /\ Recorded \in Nat
        BY <2>2, Bound DEF TableOK, Id
    <2> QED  BY <2>3, Bound DEF NativeOK
<1> QED  BY <1>1, <1>2

\* A write is asked for with the cycle's name and the present instant.
LEMMA PersistType ==
    ASSUME EnvelopeOK, clock \in 0..MaxClock, clock' \in clock..MaxClock,
           NEW id \in 0..clock', NEW state \in State, Persist(id, state, clock'), table' = table
    PROVE  EnvelopeOK'
<1>1. Attempt \in Nat \ {0}
    BY AttemptIsFree DEF EnvelopeOK, FlightsOK
<1>2. pending' \in [Id -> Nat] /\ written' \in [Id -> State \cup {"none"}]
    BY <1>1 DEF Persist, EnvelopeOK
<1> DEFINE upsert == [id |-> id, state |-> state, ts |-> clock', attempt |-> Attempt, at |-> "sent"]
<1>3. flights' = flights \/ (id # 0 /\ flights' = flights \cup {upsert})
    BY DEF Persist
<1>4. id # 0 => upsert \in Flight /\ upsert.id <= upsert.ts /\ upsert.ts <= clock'
    BY <1>1, Bound DEF Flight, Id
<1> HIDE DEF upsert
<1>5. IsFiniteSet(flights')
    <2>1. IsFiniteSet(flights) /\ IsFiniteSet(flights \cup {upsert})
        BY FS_AddElement DEF EnvelopeOK, FlightsOK
    <2> QED  BY <1>3, <2>1
<1>6. \A f \in flights : f.ts \in Nat /\ f.ts <= clock'
    BY Bound DEF EnvelopeOK, FlightsOK, Flight
<1>7. FlightsOK'
    BY <1>3, <1>4, <1>5, <1>6 DEF EnvelopeOK, FlightsOK
<1>8. TableOK'
    BY Bound DEF EnvelopeOK, TableOK
<1> QED  BY <1>2, <1>7, <1>8 DEF EnvelopeOK

LEMMA EnvelopeKept ==
    ASSUME EnvelopeOK, clock \in 0..MaxClock, clock' \in clock..MaxClock, UNCHANGED envelope
    PROVE  EnvelopeOK'
BY Bound DEF EnvelopeOK, FlightsOK, TableOK, Flight, envelope

LEMMA PublishType ==
    ASSUME EnvelopeOK, clock \in 0..MaxClock, clock' \in clock..MaxClock,
           active \in 0..clock, truth \in 0..clock,
           NEW p \in 0..clock', NEW es, es \subseteq 1..clock',
           Publish(p, es, clock') \/ PublishRaises(p, es)
    PROVE  EnvelopeOK' /\ active' \in 0..clock'
<1>1. clock' \in Nat /\ active \in 0..clock' /\ truth \in 0..clock'
    BY Bound
<1>2. Emitted(p, es) \in 0..clock' /\ Followed(p, es) \in 0..clock' /\ StateOf(p, es) \in State
    BY <1>1, EmittedType
<1>3. CASE Publish(p, es, clock')
    BY <1>2, <1>3, PersistType DEF Publish, Folds
<1>4. CASE PublishRaises(p, es)
    BY <1>1, <1>2, <1>4, EnvelopeKept DEF PublishRaises, Folds
<1> QED  BY <1>3, <1>4

LEMMA NativeTypes == Types /\ Native => NativeOK' /\ clock' \in clock..MaxClock /\ Happens /\ Remains /\ legs \subseteq legs'
<1> SUFFICES ASSUME Types, Native
             PROVE  NativeOK' /\ clock' \in clock..MaxClock /\ Happens /\ Remains /\ legs \subseteq legs'
    OBVIOUS
<1>1. Happens /\ Remains
    BY DEF Native, Submitted, Accepted, Ends, Opens, ClosesPosition
<1>2. clock' = clock + 1 /\ clock' \in 1..MaxClock
    BY <1>1, Bound DEF Happens, Types, NativeOK
<1>3. legs \subseteq legs'
    BY DEF Native, Submitted, Accepted, Ends, Opens, ClosesPosition
<1> USE Bound DEF Types, NativeOK
<1>4. CASE Submitted
    BY <1>2, <1>4 DEF Submitted
<1>5. ASSUME NEW o \in inflight, Accepted(o)  PROVE NativeOK'
    BY <1>2, <1>5 DEF Accepted
<1>6. ASSUME NEW o \in inflight \cup entries, Ends(o)  PROVE NativeOK'
    BY <1>2, <1>6 DEF Ends
<1>7. ASSUME NEW o \in entries \cup {0}, NEW rest \in SUBSET {o}, Opens(o, rest)  PROVE NativeOK'
    BY <1>2, <1>7 DEF Opens
<1>8. CASE ClosesPosition
    BY <1>2, <1>8 DEF ClosesPosition
<1>9. NativeOK'
    BY <1>4, <1>5, <1>6, <1>7, <1>8 DEF Native
<1> QED  BY <1>1, <1>2, <1>3, <1>9

LEMMA HappensTypes == Types /\ Native => Types'
<1> SUFFICES ASSUME Types, Native
             PROVE  Types'
    OBVIOUS
<1>1. NativeOK' /\ clock' \in clock..MaxClock /\ Happens /\ Remains /\ legs \subseteq legs'
    BY NativeTypes
<1>2. /\ EnvelopeOK /\ clock \in 0..MaxClock /\ active \in 0..clock /\ truth \in 0..clock
      /\ pos' \in 0..clock' /\ entries' \subseteq 1..clock'
    BY <1>1 DEF Types, NativeOK, FoldOK
<1>3. EnvelopeOK' /\ active' \in 0..clock'
    <2>1. CASE Publish(pos', entries', clock') \/ PublishRaises(pos', entries')
        BY <1>1, <1>2, <2>1, PublishType
    <2>2. CASE NotFolded
        BY <1>1, <1>2, <2>2, EnvelopeKept, Bound DEF NotFolded, envelope
    <2> QED  BY <1>1, <2>1, <2>2 DEF Happens
<1>4. truth' \in 0..clock'
    <2>1. clock' \in Nat /\ active \in 0..clock' /\ truth \in 0..clock'
        BY <1>1, <1>2, Bound
    <2> QED  BY <1>1, <1>2, <2>1, EmittedType DEF Happens, Sees
<1>5. seen' \subseteq legs' /\ up' \in BOOLEAN /\ seeded' \in BOOLEAN
    BY <1>1 DEF Types, FoldOK, Remains, Happens
<1>6. missed' \subseteq {"unseen", "unrecorded", "legs", "seed"}
    BY <1>1 DEF Types, FoldOK, Happens, Sees
<1> QED  BY <1>1, <1>3, <1>4, <1>5, <1>6 DEF Types, FoldOK

\* The row an upsert leaves is of a cycle that has begun.
LEMMA StoredType ==
    ASSUME EnvelopeOK, clock \in 0..MaxClock, NEW f \in flights
    PROVE  /\ Stored(f) \in [state : State \cup {"none"}, ts : 0..MaxClock]
           /\ Stored(f).ts <= clock
           /\ Stored(f).state # "none" => f.id <= Stored(f).ts
BY Bound DEF EnvelopeOK, FlightsOK, TableOK, Flight, Stored

LEMMA AnswerType ==
    ASSUME FlightsOK, NEW f \in flights, NEW at \in {"done", "failed"}, Answer(f, at), clock' = clock
    PROVE  FlightsOK'
<1> DEFINE g == [f EXCEPT !.at = at]
<1>1. g \in Flight /\ g.id = f.id /\ g.ts = f.ts
    BY DEF FlightsOK, Flight
<1>2. IsFiniteSet(flights')
    BY FS_RemoveElement, FS_AddElement DEF FlightsOK, Answer
<1> HIDE DEF g
<1>3. flights' = (flights \ {f}) \cup {g}
    BY DEF Answer, g
<1> QED  BY <1>1, <1>2, <1>3 DEF FlightsOK

LEMMA StoreTypes ==
    ASSUME Types, NEW f \in flights, Lands(f) \/ Refused(f) \/ Callback(f)
    PROVE  Types'
<1>1. clock \in 0..MaxClock /\ EnvelopeOK /\ f \in Flight
    BY DEF Types, NativeOK, EnvelopeOK, FlightsOK
<1>2. UNCHANGED <<clock, pos, inflight, entries, legs, up, seeded, active, seen, truth, missed>>
    BY DEF Lands, Refused, Callback, native, fold, history
<1>3. NativeOK' /\ FoldOK'
    BY <1>2 DEF Types, NativeOK, FoldOK
<1>4. CASE Lands(f)
    <2>1. FlightsOK' /\ UNCHANGED <<written, pending>>
        BY <1>1, <1>2, <1>4, AnswerType DEF Lands, EnvelopeOK
    <2>2. table' = [table EXCEPT ![f.id] = Stored(f)]
        BY <1>4 DEF Lands
    <2>3. TableOK'
        BY <1>1, <1>2, <2>2, StoredType DEF EnvelopeOK, TableOK, Flight
    <2> QED  BY <1>1, <1>3, <2>1, <2>3 DEF Types, EnvelopeOK
<1>5. CASE Refused(f)
    <2>1. FlightsOK' /\ UNCHANGED <<written, pending, table>>
        BY <1>1, <1>2, <1>5, AnswerType DEF Refused, EnvelopeOK
    <2> QED  BY <1>1, <1>2, <1>3, <2>1 DEF Types, EnvelopeOK, TableOK
<1>6. CASE Callback(f)
    <2>1. flights' = flights \ {f} /\ table' = table
        BY <1>6 DEF Callback
    <2>2. FlightsOK' /\ TableOK'
        BY <1>1, <1>2, <2>1, FS_RemoveElement DEF EnvelopeOK, FlightsOK, TableOK
    <2>3. pending' \in [Id -> Nat] /\ written' \in [Id -> State \cup {"none"}]
        BY <1>1, <1>6 DEF Callback, Released, EnvelopeOK, Flight
    <2> QED  BY <1>3, <2>2, <2>3 DEF Types, EnvelopeOK
<1> QED  BY <1>3, <1>4, <1>5, <1>6 DEF Types, EnvelopeOK

LEMMA CrashTypes == Types /\ Crash => Types'
<1> SUFFICES ASSUME Types, Crash
             PROVE  Types'
    OBVIOUS
<1>1. NativeOK'
    BY DEF Types, NativeOK, Crash
<1>2. seen' \subseteq legs'
    <2>1. clock \in Nat /\ legs \subseteq 1..clock
        BY Bound DEF Types, NativeOK
    <2>2. legs # {} => Max(legs) \in legs
        BY <2>1, MaxIn, Zenon
    <2>3. legs' = legs /\ ((seen' = {Max(legs)} /\ legs # {}) \/ seen' = {})
        BY DEF Crash
    <2> QED  BY <2>2, <2>3
<1>3. FoldOK'
    <2>1. UNCHANGED <<clock, legs, truth>> /\ active' = 0 /\ ~up' /\ ~seeded'
          /\ up' \in BOOLEAN /\ seeded' \in BOOLEAN
        BY DEF Crash
    <2>2. missed' \subseteq missed \cup {"unrecorded"}
        BY DEF Crash
    <2>3. clock \in Nat
        BY Bound DEF Types, NativeOK
    <2> QED  BY <1>2, <2>1, <2>2, <2>3 DEF Types, FoldOK
<1>4. EnvelopeOK'
    BY FS_EmptySet DEF Types, EnvelopeOK, FlightsOK, TableOK, Crash
<1> QED  BY <1>1, <1>3, <1>4 DEF Types

LEMMA TypesStep == Types /\ [Next]_vars => Types'
<1> SUFFICES ASSUME Types, [Next]_vars
             PROVE  Types'
    OBVIOUS
<1>0. clock \in 0..MaxClock /\ EnvelopeOK
    BY DEF Types, NativeOK
<1>1. CASE Native
    BY <1>1, HappensTypes
<1>2. CASE Tick
    <2>1. UNCHANGED <<clock, pos, inflight, entries, legs, up, seeded, seen, truth>>
          /\ missed' \in {missed, {}}
          /\ (Publish(pos, entries, clock') \/ PublishRaises(pos, entries))
        BY <1>2 DEF Tick, native
    <2>2. clock' \in clock..MaxClock /\ pos \in 0..clock' /\ entries \subseteq 1..clock'
          /\ active \in 0..clock /\ truth \in 0..clock
        BY <2>1, Bound DEF Types, NativeOK, FoldOK
    <2>3. EnvelopeOK' /\ active' \in 0..clock'
        BY <1>0, <2>1, <2>2, PublishType
    <2> QED  BY <2>1, <2>3 DEF Types, NativeOK, FoldOK
<1>3. CASE GuardReads
    <2>1. UNCHANGED <<clock, pos, inflight, entries, legs, up, seeded, seen, truth, envelope>>
          /\ missed' \in {missed, {}} /\ active' = Followed(pos, entries)
        BY <1>3 DEF GuardReads, native, Folds
    <2>2. active' \in 0..clock
        <3>1. clock \in Nat /\ pos \in 0..clock /\ entries \subseteq 1..clock
              /\ active \in 0..clock /\ truth \in 0..clock
            BY Bound DEF Types, NativeOK, FoldOK
        <3>2. Followed(pos, entries) \in 0..clock
            BY <3>1, EmittedType, Zenon
        <3> QED  BY <2>1, <3>2
    <2>3. clock' \in clock..MaxClock
        BY <1>0, <2>1, Bound
    <2> QED  BY <1>0, <2>1, <2>2, <2>3, EnvelopeKept DEF Types, NativeOK, FoldOK
<1>4. ASSUME NEW f \in flights, Lands(f) \/ Refused(f) \/ Callback(f)
      PROVE  Types'
    BY <1>4, StoreTypes
<1>5. CASE Crash
    BY <1>5, CrashTypes
<1>6. CASE Restart
    <2>1. clock' = clock
        BY <1>6 DEF Restart, native
    <2> QED  BY <1>0, <1>6, <2>1, EnvelopeKept, Bound
             DEF Restart, native, fold, history, Types, NativeOK, FoldOK
<1>7. CASE SeedApplies
    <2>1. clock' = clock /\ Recorded \in 0..clock
        BY <1>7, RecordedType DEF SeedApplies, native, Types, EnvelopeOK
    <2>2. UNCHANGED <<clock, pos, inflight, entries, legs, up, truth, envelope>>
          /\ seeded' = TRUE /\ active' = Recorded
        BY <1>7 DEF SeedApplies, Resumes, native
    <2>3. seen' \in {seen, seen \cup legs} /\ missed' \subseteq missed \cup {"legs"}
        BY <1>7 DEF SeedApplies
    <2>4. clock' \in clock..MaxClock
        BY <1>0, <2>1, Bound
    <2>5. EnvelopeOK'
        BY <1>0, <2>2, <2>4, EnvelopeKept
    <2>6. NativeOK' /\ FoldOK'
        BY <2>1, <2>2, <2>3 DEF Types, NativeOK, FoldOK
    <2> QED  BY <2>5, <2>6 DEF Types
<1>8. CASE SeedFails
    <2>1. clock' = clock
        BY <1>8 DEF SeedFails, native
    <2> QED  BY <1>0, <1>8, <2>1, EnvelopeKept, Bound
             DEF SeedFails, native, fold, Types, NativeOK, FoldOK
<1>9. CASE UNCHANGED vars
    <2>1. clock' = clock
        BY <1>9 DEF vars, native
    <2> QED  BY <1>0, <1>9, <2>1, EnvelopeKept, Bound
             DEF vars, native, fold, history, Types, NativeOK, FoldOK
<1> QED  BY <1>1, <1>2, <1>3, <1>4, <1>5, <1>6, <1>7, <1>8, <1>9 DEF Next

THEOREM TypesAlways == Spec => []Types
<1> QED  BY TypesInit, TypesStep, PTL DEF Spec

\* Type correctness: what is followed, written or stored names a cycle that has
\* begun, and no write is dated later than now (_publish_trades, upsert).
THEOREM TypeCorrect == Spec => []TypeOK
<1>1. Types => TypeOK
    BY Bound DEF Types, NativeOK, FoldOK, EnvelopeOK, FlightsOK, TableOK, Flight, TypeOK
<1> QED  BY <1>1, TypesAlways, PTL

-----------------------------------------------------------------------------
(* What becomes of a close. *)

\* An order that is not open yet names nothing.
Named ==
    {active, pos} \cup gone \cup entries \cup {f.id : f \in flights}
        \cup {id \in Id : table[id].state # "none"}

NotNamedYet == inflight \cap Named = {}

\* A cycle that was emitted CLOSED is over: nothing native carries its name, and
\* it is followed again only if its close was dropped.
GoneIsOver ==
    /\ gone \subseteq 1..clock
    /\ gone \cap (entries \cup {pos}) = {}
    /\ active \in gone => active \in dropped

\* CLOSED is written of such a cycle only.
ClosedIsGone ==
    /\ \A f \in flights : f.state = "CLOSED" => f.id \in gone
    /\ \A id \in Id : written[id] = "CLOSED" => id \in gone

\* No two writes share a number, and the write of the followed cycle is waited for.
AttemptsDiffer == \A f, g \in flights : f.attempt = g.attempt => f = g

WaitedFor ==
    \A f \in flights : f.id \notin gone => f.id = active /\ pending[f.id] = f.attempt

\* What is dated now is the present state.
DatedNow ==
    /\ \A f \in flights : f.ts = clock => f.state = StateOf(pos, entries)
    /\ \A id \in Id :
          Live(table[id].state) /\ table[id].ts = clock => table[id].state = StateOf(pos, entries)

\* The close of a cycle is the last write of it, and once answered leaves no
\* live row.
CloseIsLast ==
    \A f \in flights : f.id \in gone \ dropped =>
        /\ f.state = "CLOSED"
        /\ \A g \in flights : g.id = f.id => g = f
        /\ table[f.id].ts <= f.ts
        /\ Live(table[f.id].state) => table[f.id].ts < f.ts /\ f.at = "sent"

Closing ==
    /\ NotNamedYet /\ GoneIsOver /\ ClosedIsGone /\ AttemptsDiffer
    /\ WaitedFor /\ DatedNow /\ CloseIsLast /\ ClosesExplained

LEMMA ClosingInit == Init => Closing
<1> SUFFICES ASSUME Init
             PROVE  Closing
    OBVIOUS
<1>1. flights = {} /\ gone = {} /\ inflight = {} /\ \A id \in Id : written[id] = "none" /\ table[id].state = "none"
    BY DEF Init
<1> QED  BY <1>1 DEF Closing, NotNamedYet, GoneIsOver, ClosedIsGone, AttemptsDiffer, WaitedFor,
             DatedNow, CloseIsLast, ClosesExplained, Live

\* A native event, or none: what has a name already is not given to another.
Moved ==
    /\ \/ clock' = clock + 1
       \/ UNCHANGED <<clock, pos, entries>>
    /\ inflight' \cap (Named \cup {pos'} \cup entries') = {}
    /\ gone \cap (entries' \cup {pos'}) = {}

LEMMA NativeMoves ==
    ASSUME Types, Closing, Native
    PROVE  Moved
<1>1. clock' = clock + 1 /\ clock \in Nat
    BY NativeTypes, Bound DEF Happens, Types, NativeOK
<1>2. Named \subseteq 0..clock
    <2>1. {f.id : f \in flights} \subseteq 0..clock
        BY <1>1 DEF Types, EnvelopeOK, FlightsOK, Flight, Id
    <2>2. {id \in Id : table[id].state # "none"} \subseteq 0..clock
        <3> SUFFICES ASSUME NEW id \in Id, table[id].state # "none"
                     PROVE  id \in 0..clock
            OBVIOUS
        <3>1. table[id].ts <= clock /\ id <= table[id].ts /\ table[id].ts \in Nat /\ id \in Nat
            BY Bound DEF Types, EnvelopeOK, TableOK, Id
        <3> QED  BY <1>1, <3>1
    <2>3. {active, pos} \subseteq 0..clock /\ gone \subseteq 0..clock /\ entries \subseteq 0..clock
        BY <1>1 DEF Types, NativeOK, FoldOK, Closing, GoneIsOver
    <2> QED  BY <2>1, <2>2, <2>3 DEF Named
<1>3. clock + 1 \notin Named /\ clock + 1 \notin inflight
    BY <1>1, <1>2 DEF Types, NativeOK
<1>4. inflight \cap Named = {} /\ gone \cap (entries \cup {pos}) = {} /\ 0 \notin gone
    BY <1>1 DEF Closing, NotNamedYet, GoneIsOver
<1>5. gone \subseteq Named /\ entries \subseteq Named /\ pos \in Named /\ 0 \notin inflight
    BY <1>1 DEF Named, Types, NativeOK
<1>6. inflight' \cap (Named \cup {pos'} \cup entries') = {} /\ gone \cap (entries' \cup {pos'}) = {}
    <2>1. CASE Submitted
        BY <1>3, <1>4, <1>5, <2>1 DEF Submitted
    <2>2. CASE ClosesPosition
        BY <1>3, <1>4, <1>5, <2>2 DEF ClosesPosition
    <2>3. ASSUME NEW o \in inflight, Accepted(o)
          PROVE  inflight' \cap (Named \cup {pos'} \cup entries') = {} /\ gone \cap (entries' \cup {pos'}) = {}
        BY <1>3, <1>4, <1>5, <2>3 DEF Accepted
    <2>4. ASSUME NEW o \in inflight \cup entries, Ends(o)
          PROVE  inflight' \cap (Named \cup {pos'} \cup entries') = {} /\ gone \cap (entries' \cup {pos'}) = {}
        BY <1>3, <1>4, <1>5, <2>4 DEF Ends
    <2>5. ASSUME NEW o \in entries \cup {0}, NEW rest \in SUBSET {o}, Opens(o, rest)
          PROVE  inflight' \cap (Named \cup {pos'} \cup entries') = {} /\ gone \cap (entries' \cup {pos'}) = {}
        BY <1>3, <1>4, <1>5, <2>5 DEF Opens
    <2> QED  BY <2>1, <2>2, <2>3, <2>4, <2>5 DEF Native
<1> QED  BY <1>1, <1>6 DEF Moved

\* What a projection of the present position and orders emits.
LEMMA EmitsNamed ==
    ASSUME Types, Closing, Moved, NativeOK'
    PROVE  LET id == Emitted(pos', entries')
               closed == StateOf(pos', entries') = "CLOSED"
           IN  /\ id \in 0..clock' /\ id \notin inflight'
               /\ id \in gone => id = active /\ id \in dropped
               /\ active # 0 => id = active
               /\ closed => id = active /\ pos' = 0 /\ entries' = {} /\ Followed(pos', entries') = 0
               /\ ~closed => Followed(pos', entries') = id
               /\ Closes(pos', entries') = IF closed /\ active # 0 THEN {active} ELSE {}
<1>1. clock' \in Nat /\ active \in 0..clock' /\ truth \in 0..clock' /\ pos' \in 0..clock' /\ entries' \subseteq 1..clock'
    BY Bound DEF Types, NativeOK, FoldOK, Moved
<1>2. Emitted(pos', entries') \in 0..clock'
    BY <1>1, EmittedType
<1>3. entries' # {} => Min(entries') \in entries'
    <2>1. entries' \subseteq Nat
        BY <1>1
    <2> QED  BY <2>1, MinIn
<1>4. 0 \notin inflight' /\ active \in Named
    BY Bound DEF NativeOK, Named
<1>5. Emitted(pos', entries') \in {0, active, pos'} \cup entries'
    BY <1>3 DEF Emitted, Anchor, StateOf
<1>6. 0 \notin gone
    BY Bound DEF Closing, GoneIsOver, Types, NativeOK
<1> QED  BY <1>2, <1>3, <1>4, <1>5, <1>6 DEF Moved, Closing, GoneIsOver, Emitted, Followed, StateOf, Closes

LEMMA StoreBounds ==
    ASSUME Types
    PROVE  /\ \A f \in flights : f.id \in Id /\ f.ts \in Nat /\ f.ts <= clock /\ f.attempt \in Nat \ {0}
           /\ \A i \in Id : table[i].ts \in Nat /\ table[i].ts <= clock
           /\ 0 \notin Id /\ active \in 0..clock
<1>1. \A f \in flights : f.id \in Id /\ f.ts \in Nat /\ f.ts <= clock /\ f.attempt \in Nat \ {0}
    BY DEF Types, EnvelopeOK, FlightsOK, Flight
<1>2. \A i \in Id : table[i].ts \in Nat /\ table[i].ts <= clock
    BY Bound DEF Types, EnvelopeOK, TableOK
<1>3. 0 \notin Id /\ active \in 0..clock
    BY Bound DEF Types, FoldOK, Id
<1> QED  BY <1>1, <1>2, <1>3

\* A projection that hands its row to the store.
LEMMA PublishCloses ==
    ASSUME Types, Types', Closing, Moved, Publish(pos', entries', clock')
    PROVE  Closing'
<1> DEFINE id == Emitted(pos', entries')
           state == StateOf(pos', entries')
           closes == Closes(pos', entries')
           writes == id # 0 /\ ~Suppressed(id, state)
           upsert == [id |-> id, state |-> state, ts |-> clock', attempt |-> Attempt, at |-> "sent"]
<1>1. /\ id \in 0..clock' /\ id \notin inflight'
      /\ id \in gone => id = active /\ id \in dropped
      /\ active # 0 => id = active
      /\ state = "CLOSED" => id = active /\ pos' = 0 /\ entries' = {} /\ active' = 0
      /\ state # "CLOSED" => active' = id
      /\ closes = IF state = "CLOSED" /\ active # 0 THEN {active} ELSE {}
    BY EmitsNamed DEF Types, Publish, Folds
<1>2. /\ gone' = gone \cup closes /\ table' = table
      /\ dropped' = dropped \cup {i \in closes : pending[i] # 0}
      /\ flights' = IF writes THEN flights \cup {upsert} ELSE flights
      /\ pending' = [i \in Id |-> IF i # id THEN 0 ELSE IF writes THEN Attempt ELSE pending[i]]
      /\ written' = [i \in Id |-> IF i = id THEN written[i] ELSE "none"]
    BY DEF Publish, Folds, Persist
<1>3. Attempt \in Nat \ {0} /\ \A f \in flights : f.attempt # Attempt
    BY AttemptIsFree DEF Types, EnvelopeOK, FlightsOK
<1>4. /\ clock \in Nat /\ clock' \in Nat /\ clock' \in 0..MaxClock /\ clock <= clock'
      /\ clock' = clock => UNCHANGED <<pos, entries>>
    BY Bound DEF Types, NativeOK, Moved
<1>5. /\ \A f \in flights : f.id \in Id /\ f.ts \in Nat /\ f.ts <= clock /\ f.attempt \in Nat \ {0}
      /\ \A i \in Id : table[i].ts \in Nat /\ table[i].ts <= clock
      /\ 0 \notin Id /\ active \in 0..clock
    BY StoreBounds
<1>6. upsert.id = id /\ upsert.state = state /\ upsert.ts = clock' /\ upsert.attempt = Attempt /\ upsert.at = "sent"
    OBVIOUS
<1>7. id # 0 => id \in Id
    BY <1>1, <1>4, Bound DEF Id
<1>8. /\ 0 \notin inflight' /\ active \notin inflight' /\ 0 \notin gone
    BY <1>4 DEF Types, NativeOK, Closing, GoneIsOver, Moved, Named
<1> HIDE DEF id, state, closes, upsert
\* Nothing else of the followed cycle is on its way when its close is written.
<1>9. \A f \in flights : active \notin gone /\ f.id = active => pending[active] # 0 /\ pending[active] = f.attempt
    BY <1>5 DEF Closing, WaitedFor
<1>10. NotNamedYet'
    <2>1. active' \notin inflight' /\ pos' \notin inflight' /\ entries' \cap inflight' = {}
        BY <1>1, <1>8 DEF Moved
    <2>2. gone' \cap inflight' = {}
        BY <1>1, <1>2, <1>8 DEF Moved, Named
    <2>3. {f.id : f \in flights'} \subseteq {f.id : f \in flights} \cup {id}
        BY <1>2, <1>6
    <2>4. {f.id : f \in flights} \cap inflight' = {} /\ {i \in Id : table[i].state # "none"} \cap inflight' = {}
        BY DEF Moved, Named
    <2> QED  BY <1>1, <1>2, <2>1, <2>2, <2>3, <2>4 DEF NotNamedYet, Named
<1>11. GoneIsOver'
    BY <1>1, <1>2, <1>4, <1>5, <1>8 DEF GoneIsOver, Closing, Moved
<1>12. ClosedIsGone'
    BY <1>1, <1>2, <1>6 DEF ClosedIsGone, Closing, writes
<1>13. AttemptsDiffer'
    BY <1>2, <1>3, <1>6 DEF AttemptsDiffer, Closing
<1>14. WaitedFor'
    <2> SUFFICES ASSUME NEW f \in flights', f.id \notin gone'
                 PROVE  f.id = active' /\ pending'[f.id] = f.attempt
        BY DEF WaitedFor
    <2>1. CASE f \in flights
        <3>1. f.id = active /\ pending[active] = f.attempt /\ active # 0 /\ active \notin gone'
            BY <1>2, <1>5, <2>1 DEF Closing, WaitedFor
        <3>2. id = active /\ state # "CLOSED" /\ active' = id
            BY <1>1, <1>2, <3>1
        <3>3. ~writes
            BY <1>5, <2>1, <3>1, <3>2 DEF Suppressed
        <3> QED  BY <1>2, <1>7, <3>1, <3>2, <3>3
    <2>2. CASE f = upsert /\ writes
        <3>1. f.id = id /\ f.attempt = Attempt /\ id # 0
            BY <1>6, <2>2
        <3>2. state # "CLOSED"
            BY <1>1, <1>2, <3>1
        <3> QED  BY <1>1, <1>2, <1>7, <2>2, <3>1, <3>2
    <2> QED  BY <1>2, <2>1, <2>2
<1>15. DatedNow'
    <2>1. StateOf(pos', entries') = state
        BY DEF state
    <2>2. clock' = clock => StateOf(pos, entries) = state
        BY <1>4, <2>1
    <2> QED  BY <1>2, <1>4, <1>5, <1>6, <2>1, <2>2 DEF DatedNow, Closing
<1>16. CloseIsLast'
    <2> SUFFICES ASSUME NEW f \in flights', f.id \in gone', f.id \notin dropped'
                 PROVE  /\ f.state = "CLOSED"
                        /\ \A g \in flights' : g.id = f.id => g = f
                        /\ table[f.id].ts <= f.ts
                        /\ Live(table[f.id].state) => table[f.id].ts < f.ts /\ f.at = "sent"
        BY <1>2 DEF CloseIsLast, Live
    <2>1. CASE f.id \in gone
        <3>1. f.id # id
            BY <1>1, <1>2, <2>1
        <3>2. f \in flights /\ \A g \in flights' : g.id = f.id => g \in flights
            BY <1>2, <1>6, <3>1
        <3> QED  BY <1>2, <2>1, <3>2 DEF CloseIsLast, Closing
    <2>2. CASE f.id \notin gone
        <3>1. f.id = active /\ active # 0 /\ state = "CLOSED" /\ id = active /\ pending[active] = 0
            BY <1>1, <1>2, <2>2
        <3>2. \A g \in flights : g.id # active
            BY <1>9, <2>2, <3>1
        <3>3. f = upsert /\ \A g \in flights' : g.id = f.id => g = f
            BY <1>2, <3>1, <3>2
        <3>4. f.state = "CLOSED" /\ f.ts = clock' /\ f.at = "sent" /\ f.id \in Id
            BY <1>6, <1>7, <3>1, <3>3
        <3>5. table[f.id].ts <= clock' /\ table[f.id].ts \in Nat
            BY <1>4, <1>5, <3>4
        <3>6. Live(table[f.id].state) => table[f.id].ts # clock'
            <4> SUFFICES ASSUME Live(table[f.id].state), table[f.id].ts = clock'
                         PROVE  FALSE
                OBVIOUS
            <4>1. clock' = clock
                BY <1>4, <1>5, <3>4
            <4>2. table[f.id].state = state
                BY <1>4, <3>4, <4>1 DEF Closing, DatedNow, state
            <4> QED  BY <3>1, <4>2 DEF Live
        <3> QED  BY <1>4, <3>3, <3>4, <3>5, <3>6
    <2> QED  BY <2>1, <2>2
<1>17. ClosesExplained'
    <2> SUFFICES ASSUME NEW i \in gone' \ dropped', Live(table[i].state)
                 PROVE  \E f \in flights' : f.id = i /\ f.state = "CLOSED"
        BY <1>2 DEF ClosesExplained, Live
    <2>1. CASE i \in gone
        BY <1>2, <2>1 DEF ClosesExplained, Closing
    <2>2. CASE i \notin gone
        <3>1. i = active /\ active # 0 /\ state = "CLOSED" /\ id = active /\ pending[active] = 0
            BY <1>1, <1>2, <2>2
        <3>2. written[active] # "CLOSED"
            BY <1>7, <2>2, <3>1 DEF Closing, ClosedIsGone
        <3>3. upsert \in flights'
            BY <1>2, <3>1, <3>2 DEF Suppressed
        <3> QED  BY <1>6, <3>1, <3>3
    <2> QED  BY <2>1, <2>2
<1> QED  BY <1>10, <1>11, <1>12, <1>13, <1>14, <1>15, <1>16, <1>17 DEF Closing

\* A projection that hands on nothing (current_cycle_for, a quarantined tick),
\* and none at all.
LEMMA FoldCloses ==
    ASSUME Types, Types', Closing, Moved, UNCHANGED envelope,
           \/ UNCHANGED <<active, gone, dropped>>
           \/ Folds(pos', entries') /\ dropped' = dropped \cup Closes(pos', entries')
    PROVE  Closing'
<1> DEFINE id == Emitted(pos', entries')
           closes == Closes(pos', entries')
<1>1. \/ UNCHANGED <<active, gone, dropped>>
      \/ /\ active # 0 /\ active' = 0 /\ pos' = 0 /\ entries' = {}
         /\ gone' = gone \cup {active} /\ dropped' = dropped \cup {active}
      \/ /\ active' = id /\ UNCHANGED <<gone, dropped>> /\ active' \notin inflight'
         /\ (active # 0 => active' = active) /\ (active' \in gone => active' \in dropped)
    <2>1. CASE Folds(pos', entries') /\ dropped' = dropped \cup Closes(pos', entries')
        BY <2>1, EmitsNamed DEF Types, Folds
    <2> QED  BY <2>1
<1>2. /\ clock \in Nat /\ clock' \in Nat /\ clock <= clock'
      /\ clock' = clock => UNCHANGED <<pos, entries>>
    BY Bound DEF Types, NativeOK, Moved
<1>3. /\ \A f \in flights : f.id \in Id /\ f.ts \in Nat /\ f.ts <= clock
      /\ \A i \in Id : table[i].ts \in Nat /\ table[i].ts <= clock
      /\ 0 \notin Id /\ active \in 0..clock
    BY StoreBounds
<1>4. UNCHANGED <<written, pending, flights, table>>
    BY DEF envelope
<1>5. 0 \notin inflight' /\ active \notin inflight' /\ 0 \notin gone
    BY <1>2 DEF Types, NativeOK, Closing, GoneIsOver, Moved, Named
<1>6. gone \subseteq gone' /\ gone' \ dropped' \subseteq gone \ dropped
    BY <1>1
<1>7. NotNamedYet'
    <2>1. Named' \subseteq Named \cup {pos', active'} \cup entries'
        BY <1>1, <1>4 DEF Named
    <2>2. active' \notin inflight'
        BY <1>1, <1>5
    <2> QED  BY <2>1, <2>2 DEF NotNamedYet, Moved
<1>8. GoneIsOver'
    BY <1>1, <1>2, <1>3, <1>5 DEF GoneIsOver, Closing, Moved
<1>9. ClosedIsGone' /\ AttemptsDiffer'
    BY <1>4, <1>6 DEF ClosedIsGone, AttemptsDiffer, Closing
<1>10. WaitedFor'
    BY <1>1, <1>3, <1>4 DEF WaitedFor, Closing
<1>11. DatedNow'
    BY <1>2, <1>3, <1>4 DEF DatedNow, Closing
<1>12. CloseIsLast' /\ ClosesExplained'
    BY <1>4, <1>6 DEF CloseIsLast, ClosesExplained, Closing, Live
<1> QED  BY <1>7, <1>8, <1>9, <1>10, <1>11, <1>12 DEF Closing

\* The store answers, or the answer reaches the engine.
LEMMA StoreCloses ==
    ASSUME Types, Types', Closing, NEW f \in flights, Lands(f) \/ Refused(f) \/ Callback(f)
    PROVE  Closing'
<1>1. UNCHANGED <<pos, entries, inflight, clock, active, gone>> /\ dropped \subseteq dropped'
    BY DEF Lands, Refused, Callback, native, fold, history
<1>2. /\ \A g \in flights : g.id \in Id /\ g.ts \in Nat /\ g.ts <= clock /\ g.attempt \in Nat \ {0}
      /\ \A i \in Id : table[i].ts \in Nat /\ table[i].ts <= clock
    BY StoreBounds
<1>3. f \in Flight /\ table \in [Id -> [state : State \cup {"none"}, ts : 0..MaxClock]]
    BY DEF Types, EnvelopeOK, FlightsOK, TableOK
<1>4. GoneIsOver'
    BY <1>1 DEF GoneIsOver, Closing
<1>5. CASE Lands(f) \/ Refused(f)
    <2>0. PICK at \in {"done", "failed"} : Answer(f, at)
        BY <1>5 DEF Lands, Refused
    <2> DEFINE h == [f EXCEPT !.at = at]
    <2>1. flights' = (flights \ {f}) \cup {h} /\ UNCHANGED <<written, pending>> /\ f.at = "sent"
        BY <1>5, <2>0 DEF Lands, Refused, Answer
    <2>2. h.id = f.id /\ h.state = f.state /\ h.ts = f.ts /\ h.attempt = f.attempt /\ h.at # "sent"
        BY <1>3 DEF Flight
    <2> HIDE DEF h
    <2>3. NotNamedYet'
        <3>1. {g.id : g \in flights'} \subseteq {g.id : g \in flights}
            BY <2>1, <2>2
        <3>2. \A i \in Id : table'[i].state # "none" => i = f.id \/ table[i].state # "none"
            BY <1>3, <1>5 DEF Lands, Refused
        <3>3. f.id \in Named
            BY DEF Named
        <3>4. Named' \subseteq Named
            BY <1>1, <3>1, <3>2, <3>3 DEF Named
        <3> QED  BY <1>1, <3>4 DEF NotNamedYet, Closing
    <2>4. ClosedIsGone' /\ AttemptsDiffer' /\ WaitedFor'
        BY <1>1, <2>1, <2>2 DEF ClosedIsGone, AttemptsDiffer, WaitedFor, Closing
    <2>5. CASE Refused(f)
        <3>1. table' = table /\ dropped' = dropped \cup (IF f.state = "CLOSED" THEN {f.id} ELSE {})
            BY <2>5 DEF Refused
        <3>2. DatedNow'
            BY <1>1, <2>1, <2>2, <3>1 DEF DatedNow, Closing
        <3>3. \A i \in gone' \ dropped' : i # f.id
            BY <1>1, <3>1 DEF Closing, CloseIsLast
        <3>4. CloseIsLast'
            BY <1>1, <2>1, <2>2, <3>1, <3>3 DEF CloseIsLast, Closing, Live
        <3>5. ClosesExplained'
            BY <1>1, <2>1, <3>1, <3>3 DEF ClosesExplained, Closing, Live
        <3> QED  BY <1>4, <2>3, <2>4, <3>2, <3>4, <3>5 DEF Closing
    <2>6. CASE Lands(f)
        <3>1. UNCHANGED dropped /\ table' = [table EXCEPT ![f.id] = Stored(f)]
            BY <2>6 DEF Lands, history
        <3>2. table'[f.id] = Stored(f) /\ \A i \in Id : i # f.id => table'[i] = table[i]
            BY <1>2, <1>3, <3>1
        <3>3. \/ Stored(f) = table[f.id] /\ ~(table[f.id].ts < f.ts)
              \/ Stored(f).state = f.state /\ Stored(f).ts = f.ts
            BY DEF Stored
        <3>4. DatedNow'
            BY <1>1, <1>2, <2>1, <2>2, <3>2, <3>3 DEF DatedNow, Closing
        <3>5. f.id \in gone \ dropped => ~Live(table'[f.id].state) /\ table'[f.id].ts <= f.ts
            BY <1>2, <3>2, <3>3 DEF Closing, CloseIsLast, Live
        <3>6. CloseIsLast'
            <4> SUFFICES ASSUME NEW g \in flights', g.id \in gone, g.id \notin dropped
                         PROVE  /\ g.state = "CLOSED"
                                /\ \A k \in flights' : k.id = g.id => k = g
                                /\ table'[g.id].ts <= g.ts
                                /\ Live(table'[g.id].state) => table'[g.id].ts < g.ts /\ g.at = "sent"
                BY <1>1, <3>1 DEF CloseIsLast, Live
            <4>1. CASE g.id = f.id
                BY <2>1, <2>2, <3>5, <4>1 DEF Closing, CloseIsLast
            <4>2. CASE g.id # f.id
                BY <1>2, <2>1, <2>2, <3>2, <4>2 DEF Closing, CloseIsLast
            <4> QED  BY <4>1, <4>2
        <3>7. ClosesExplained'
            <4> SUFFICES ASSUME NEW i \in gone \ dropped, Live(table'[i].state)
                         PROVE  \E g \in flights' : g.id = i /\ g.state = "CLOSED"
                BY <1>1, <3>1 DEF ClosesExplained, Live
            <4>1. i # f.id /\ i \in Id
                BY <3>5, Bound DEF Closing, GoneIsOver, Types, NativeOK, Id
            <4> QED  BY <2>1, <3>2, <4>1 DEF Closing, ClosesExplained
        <3> QED  BY <1>4, <2>3, <2>4, <3>4, <3>6, <3>7 DEF Closing
    <2> QED  BY <1>5, <2>5, <2>6
<1>6. CASE Callback(f)
    <2>1. /\ flights' = flights \ {f} /\ UNCHANGED <<table, dropped>> /\ f.at # "sent"
          /\ \A i \in Id : i # f.id => pending'[i] = pending[i]
          /\ \A i \in Id : written'[i] = written[i] \/ (i = f.id /\ written'[i] = f.state)
        BY <1>6 DEF Callback, Released, history, Types, EnvelopeOK
    <2>2. NotNamedYet'
        BY <1>1, <2>1 DEF NotNamedYet, Named, Closing
    <2>3. ClosedIsGone' /\ AttemptsDiffer' /\ DatedNow' /\ CloseIsLast'
        BY <1>1, <2>1 DEF ClosedIsGone, AttemptsDiffer, DatedNow, CloseIsLast, Closing, Live
    <2>4. WaitedFor'
        BY <1>1, <1>2, <2>1 DEF WaitedFor, AttemptsDiffer, Closing
    <2>5. ClosesExplained'
        BY <1>1, <2>1 DEF ClosesExplained, CloseIsLast, Closing, Live
    <2> QED  BY <1>4, <2>2, <2>3, <2>4, <2>5 DEF Closing
<1> QED  BY <1>5, <1>6

\* A write that had not landed is lost; one that had leaves no live row.
LEMMA CrashCloses ==
    ASSUME Types, Closing, Crash
    PROVE  Closing'
<1>1. /\ UNCHANGED <<clock, pos, entries, table, gone>> /\ active' = 0 /\ flights' = {} /\ inflight' = {}
      /\ dropped \subseteq dropped'
      /\ \A f \in flights : f.state = "CLOSED" /\ f.at = "sent" => f.id \in dropped'
      /\ \A id \in Id : written'[id] = "none"
    BY DEF Crash
<1>2. 0 \notin gone
    BY Bound DEF Closing, GoneIsOver, Types, NativeOK
<1>3. ClosesExplained'
    BY <1>1 DEF Closing, ClosesExplained, CloseIsLast, Live
<1> QED  BY <1>1, <1>2, <1>3 DEF Closing, NotNamedYet, GoneIsOver, ClosedIsGone, AttemptsDiffer,
             WaitedFor, DatedNow, CloseIsLast, Live

\* The seed resumes a live row, which no close is on its way to.
LEMMA SeedCloses ==
    ASSUME GateOK, Types, Closing, SeedApplies \/ SeedFails
    PROVE  Closing'
<1>1. /\ UNCHANGED <<clock, pos, entries, inflight, written, pending, flights, table, gone>>
      /\ flights = {} /\ dropped \subseteq dropped'
      /\ active' = active \/ active' = Recorded
    BY DEF SeedApplies, SeedFails, Resumes, native, fold, envelope, GateOK
<1>2. Recorded = 0 \/ Recorded \in LiveRows
    BY DEF Recorded
<1>3. 0 \notin gone /\ 0 \notin inflight
    BY Bound DEF Closing, GoneIsOver, Types, NativeOK
<1>4. LiveRows \subseteq Named /\ LiveRows \cap gone \subseteq dropped
    BY <1>1 DEF LiveRows, Live, Named, Closing, ClosesExplained
<1>5. NotNamedYet'
    <2>1. Named' \subseteq Named \cup {active'}
        BY <1>1 DEF Named
    <2>2. active' \notin inflight
        BY <1>1, <1>2, <1>3, <1>4 DEF Closing, NotNamedYet, Named
    <2> QED  BY <1>1, <2>1, <2>2 DEF Closing, NotNamedYet
<1>6. GoneIsOver'
    BY <1>1, <1>2, <1>3, <1>4 DEF Closing, GoneIsOver
<1> QED  BY <1>1, <1>5, <1>6 DEF Closing, ClosedIsGone, AttemptsDiffer, WaitedFor, DatedNow,
             CloseIsLast, ClosesExplained, Live

LEMMA ClosingSame ==
    ASSUME Closing, UNCHANGED <<native, fold, envelope, gone, dropped>>
    PROVE  Closing'
<1>1. UNCHANGED <<clock, pos, entries, inflight, active, written, pending, flights, table, gone, dropped>>
    BY DEF native, fold, envelope
<1>2. StateOf(pos, entries)' = StateOf(pos, entries)
    BY <1>1 DEF StateOf
<1>3. NotNamedYet' /\ GoneIsOver' /\ ClosedIsGone' /\ AttemptsDiffer' /\ WaitedFor'
    BY <1>1 DEF Closing, NotNamedYet, Named, GoneIsOver, ClosedIsGone, AttemptsDiffer, WaitedFor
<1>4. DatedNow' /\ CloseIsLast' /\ ClosesExplained'
    BY <1>1, <1>2 DEF Closing, DatedNow, CloseIsLast, ClosesExplained, Live
<1> QED  BY <1>3, <1>4 DEF Closing

LEMMA ClosingStep ==
    ASSUME GateOK, Types, Types', Closing, [Next]_vars
    PROVE  Closing'
<1>1. CASE Native
    <2>1. Moved /\ Happens
        BY <1>1, NativeMoves, NativeTypes
    <2>2. CASE Publish(pos', entries', clock')
        BY <2>1, <2>2, PublishCloses
    <2>3. CASE PublishRaises(pos', entries')
        BY <2>1, <2>3, FoldCloses DEF PublishRaises
    <2>4. CASE NotFolded
        BY <2>1, <2>4, FoldCloses DEF NotFolded
    <2> QED  BY <2>1, <2>2, <2>3, <2>4 DEF Happens
<1>2. CASE Tick \/ GuardReads
    <2>1. UNCHANGED <<clock, pos, entries, inflight>>
        BY <1>2 DEF Tick, GuardReads, native
    <2>2. Moved
        BY <2>1 DEF Moved, Closing, NotNamedYet, GoneIsOver, Named
    <2>3. CASE Publish(pos, entries, clock)
        BY <2>1, <2>2, <2>3, PublishCloses
    <2>4. CASE GuardReads \/ PublishRaises(pos, entries)
        BY <2>1, <2>2, <2>4, FoldCloses DEF GuardReads, PublishRaises
    <2> QED  BY <1>2, <2>3, <2>4 DEF Tick
<1>3. ASSUME NEW f \in flights, Lands(f) \/ Refused(f) \/ Callback(f)
      PROVE  Closing'
    BY <1>3, StoreCloses
<1>4. CASE Crash \/ SeedApplies \/ SeedFails
    BY <1>4, CrashCloses, SeedCloses
<1>5. CASE Restart \/ UNCHANGED vars
    <2>1. UNCHANGED <<native, fold, envelope, gone, dropped>>
        BY <1>5 DEF Restart, vars, history
    <2> QED  BY <2>1, ClosingSame
<1> QED  BY <1>1, <1>2, <1>3, <1>4, <1>5 DEF Next

\* A cycle emitted CLOSED keeps a live row, which a restart would resume, only
\* while its write is on the way or when that write was dropped (_publish_trades,
\* _on_envelope_write, upsert).
THEOREM ClosesAreExplained == Spec => []ClosesExplained
<1>1. Follows /\ Types => GateOK
    BY DEF Follows
<1>2. GateOK /\ Types /\ Types' /\ Closing /\ [Next]_vars => Closing'
    BY ClosingStep
<1>3. Closing => ClosesExplained
    BY DEF Closing
<1> QED  BY <1>1, <1>2, <1>3, ClosingInit, FollowsAlways, TypesAlways, PTL DEF Spec

-----------------------------------------------------------------------------
(* The legs of a cycle. *)

\* The legs of the true cycle are closed or the open one, not older than its
\* anchor, and every other leg is not younger than the last end.  The fold knows
\* them while it is tracking.
LegsKnown ==
    /\ ended \in Nat
    /\ truth = 0 => own = {}
    /\ pos # 0 => pos \in own
    /\ pos \notin legs
    /\ own \subseteq legs \cup {pos}
    /\ \A l \in own : l >= truth
    /\ \A l \in legs \ own : l <= ended
    /\ Tracking => own \subseteq seen \cup {pos}

LEMMA LegsInit == Init => LegsKnown
<1> SUFFICES ASSUME Init
             PROVE  LegsKnown
    OBVIOUS
<1> QED  BY DEF Init, LegsKnown

LEMMA NativeLegs ==
    ASSUME Follows, Types, Types', LegsKnown, Native
    PROVE  LegsKnown'
<1>1. /\ clock' = clock + 1 /\ clock \in Nat /\ pos \in 0..clock /\ legs \subseteq 1..clock
      /\ truth \in 0..clock /\ truth' \in 0..clock' /\ Happens /\ Remains
    BY NativeTypes, Bound DEF Happens, Types, NativeOK, FoldOK
<1>2. \/ legs' = legs /\ (pos' = pos \/ (pos = 0 /\ pos' = clock + 1))
      \/ pos # 0 /\ pos' = 0 /\ legs' = legs \cup {pos}
    BY DEF Native, Submitted, Accepted, Ends, Opens, ClosesPosition
<1>3. /\ truth' = TrueCycle(pos', entries')
      /\ own' = IF truth' = 0 THEN {} ELSE own \cup ({pos'} \ {0})
      /\ ended' = IF truth # 0 /\ truth' = 0 THEN clock' ELSE ended
      /\ UNCHANGED <<up, seeded>> /\ seen' = seen \cup (legs' \ legs)
    BY <1>1 DEF Happens, Sees, Remains
<1>4. /\ pos' # 0 => truth' # 0
      /\ truth # 0 => truth' \in {0, truth}
      /\ truth = 0 /\ pos' # 0 => truth' = pos'
    BY <1>3 DEF TrueCycle
<1>5. \A l \in own : l \in 1..clock /\ l # 0
    BY <1>1 DEF LegsKnown
<1>6. ended' \in Nat /\ (truth' = 0 => own' = {}) /\ (pos' # 0 => pos' \in own') /\ pos' \notin legs'
    BY <1>1, <1>2, <1>3, <1>4 DEF LegsKnown
<1>7. own' \subseteq legs' \cup {pos'}
    BY <1>2, <1>3, <1>5 DEF LegsKnown
<1>8. \A l \in own' : l >= truth'
    <2> SUFFICES ASSUME NEW l \in own', truth' # 0
                 PROVE  l >= truth'
        BY <1>3
    <2>1. l \in own \/ (l = pos' /\ l # 0)
        BY <1>3
    <2>2. CASE truth # 0
        <3>1. truth' = truth /\ truth \in Nat /\ truth <= clock
            BY <1>1, <1>4, <2>2
        <3>2. CASE l \in own
            BY <3>1, <3>2 DEF LegsKnown
        <3>3. CASE l = clock + 1
            BY <1>1, <3>1, <3>3
        <3>4. l \in own \/ l = clock + 1
            BY <1>2, <2>1 DEF LegsKnown
        <3> QED  BY <3>2, <3>3, <3>4
    <2>3. CASE truth = 0
        <3>1. own = {}
            BY <2>3 DEF LegsKnown
        <3>2. l = truth'
            BY <1>4, <2>1, <2>3, <3>1
        <3> QED  BY <1>1, <3>2
    <2> QED  BY <2>2, <2>3
<1>9. \A l \in legs' \ own' : l <= ended'
    <2>0. legs' \subseteq 1..clock
        <3>1. pos # 0 => pos \in 1..clock
            BY <1>1
        <3>2. legs' = legs \/ (pos # 0 /\ legs' = legs \cup {pos})
            BY <1>2
        <3> QED  BY <1>1, <3>1, <3>2, Zenon
    <2>1. CASE truth # 0 /\ truth' = 0
        <3>1. ended' = clock + 1
            BY <1>1, <1>3, <2>1
        <3> QED  BY <1>1, <2>0, <3>1
    <2>2. CASE truth = 0 /\ truth' = 0
        BY <1>2, <1>3, <2>2 DEF LegsKnown
    <2>3. CASE truth' # 0
        BY <1>2, <1>3, <2>3 DEF LegsKnown
    <2> QED  BY <2>1, <2>2, <2>3
<1>10. Tracking' => own' \subseteq seen' \cup {pos'}
    <2>1. missed' = {} => missed = {} \/ truth' = 0
        BY <1>1 DEF Happens, Sees
    <2>2. Tracking' => Tracking \/ own' = {}
        BY <1>3, <2>1 DEF Tracking
    <2>3. ASSUME Tracking
          PROVE  own' \subseteq seen' \cup {pos'}
        <3>1. \A l \in own : l \in seen \/ l = pos
            BY <2>3 DEF LegsKnown
        <3>2. \A l \in own : l \in seen' \/ l = pos'
            BY <1>2, <1>3, <1>5, <3>1 DEF LegsKnown
        <3> QED  BY <1>3, <3>2
    <2> QED  BY <2>2, <2>3
<1> QED  BY <1>6, <1>7, <1>8, <1>9, <1>10 DEF LegsKnown

LEMMA LegsStep ==
    ASSUME Follows, Types, Types', LegsKnown, [Next]_vars
    PROVE  LegsKnown'
<1>1. CASE Native
    BY <1>1, NativeLegs
<1>2. CASE ~Native
    <2>1. UNCHANGED <<pos, legs, truth, own, ended>>
        BY <1>2 DEF Next, Tick, GuardReads, Lands, Refused, Callback, Crash, Restart, SeedApplies,
            SeedFails, native, history, vars
    <2>2. \/ Tracking' => (Tracking /\ seen' = seen) \/ own = {}
          \/ seen' = seen \cup legs
        <3>1. CASE Tick \/ GuardReads
            BY <3>1 DEF Tick, GuardReads, Publish, PublishRaises, Tracking, LegsKnown
        <3>2. CASE SeedApplies \/ SeedFails
            BY <3>2 DEF SeedApplies, SeedFails, Tracking
        <3>3. CASE Crash \/ Restart
            BY <3>3 DEF Crash, Restart, Tracking, Follows, GateOK
        <3>4. CASE \/ UNCHANGED vars
                   \/ \E f \in flights : Lands(f) \/ Refused(f) \/ Callback(f)
            BY <3>4 DEF Lands, Refused, Callback, fold, history, vars, Tracking
        <3> QED  BY <1>2, <3>1, <3>2, <3>3, <3>4 DEF Next
    <2> QED  BY <2>1, <2>2 DEF LegsKnown
<1> QED  BY <1>1, <1>2

\* The legs a cycle's profit is summed over are its own: a restart loses none and
\* none of another cycle is counted, unless the order that armed this one is older
\* than its end (_cycle_legs, _apply_seed).
THEOREM LegsAreCounted == Spec => []CountsItsLegs
<1>1. Follows /\ Types /\ Types' /\ LegsKnown /\ [Next]_vars => LegsKnown'
    BY LegsStep
<1>2. Follows /\ Types /\ LegsKnown => CountsItsLegs
    <2> SUFFICES ASSUME Follows, Types, LegsKnown, Tracking, active # 0
                 PROVE  own \subseteq CycleLegs(active) /\ (active > ended => CycleLegs(active) = own)
        BY DEF CountsItsLegs
    <2>1. active = truth /\ truth \in Nat \ {0} /\ legs \subseteq Nat \ {0} /\ seen \subseteq legs /\ pos \in Nat
        BY Bound DEF Follows, SameCycle, Types, FoldOK, NativeOK
    <2>2. own \subseteq Nat \ {0} /\ own \subseteq seen \cup {pos} /\ \A l \in own : l >= active
        BY <2>1 DEF LegsKnown
    <2>3. own \subseteq CycleLegs(active)
        BY <2>2 DEF CycleLegs
    <2>4. ASSUME active > ended, NEW l \in CycleLegs(active)
          PROVE  l \in own
        <3>1. (l \in seen \/ (l = pos /\ pos # 0)) /\ l >= active
            BY DEF CycleLegs
        <3>2. CASE l = pos /\ pos # 0
            BY <3>2 DEF LegsKnown
        <3>3. CASE l \in seen
            <4>1. l \in legs /\ l \in Nat /\ ended \in Nat /\ ~(l <= ended)
                BY <2>1, <2>4, <3>1, <3>3 DEF LegsKnown
            <4> QED  BY <4>1 DEF LegsKnown
        <3> QED  BY <3>1, <3>2, <3>3
    <2> QED  BY <2>3, <2>4
<1> QED  BY <1>1, <1>2, LegsInit, FollowsAlways, TypesAlways, PTL DEF Spec
=============================================================================
