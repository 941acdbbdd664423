--------------------------- MODULE ManagersProofs ---------------------------
(***************************************************************************)
(* Proofs about Managers for any number of dispatch passes, rows, attach   *)
(* and OFF commands, crashes and faults, with or without a durable cache.  *)
(***************************************************************************)
EXTENDS Managers, FiniteSetTheorems, TLAPS

LEMMA TailKind ==
  ASSUME NEW q \in Seq(Kind), q # <<>>
  PROVE  Head(q) \in Kind /\ Tail(q) \in Seq(Kind)
  OBVIOUS

-----------------------------------------------------------------------------
(* Frames: a part of TypeOK is kept by a step that leaves its variables     *)
(* alone, because rows are never removed.                                   *)

Grows == Existing \subseteq Existing'

LEMMA FrameRows ==
  ASSUME RowsOK, UNCHANGED rows
  PROVE  RowsOK' /\ Existing' = Existing
  BY DEF RowsOK, rows, Existing, Exists

LEMMA FrameVenue ==
  ASSUME VenueOK, Grows, UNCHANGED venue
  PROVE  VenueOK'
  BY DEF VenueOK, venue, Grows

LEMMA FrameMarket ==
  ASSUME MarketOK, UNCHANGED market
  PROVE  MarketOK'
  BY DEF MarketOK, market

LEMMA FramePasses ==
  ASSUME PassesOK, Grows, UNCHANGED passes
  PROVE  PassesOK'
  BY DEF PassesOK, passes, Grows

LEMMA FrameStartup ==
  ASSUME StartupOK, Grows, UNCHANGED startup
  PROVE  StartupOK'
<1>1. rleft' \in Seq(Kind)
  BY DEF StartupOK, startup
<1> QED BY <1>1 DEF StartupOK, startup, Grows

LEMMA FrameHistory ==
  ASSUME HistoryOK, Grows, UNCHANGED <<req, history>>
  PROVE  HistoryOK'
  BY DEF HistoryOK, history, Grows

\* Writing the state of an existing row to something else than "none".
LEMMA StateWrite ==
  ASSUME RowsOK, NEW r \in Existing, NEW s \in State \ {"none"},
         st' = [st EXCEPT ![r] = s], UNCHANGED <<mgr, off>>,
         intent' = intent \/ intent' = intent \cup {r}
  PROVE  RowsOK' /\ Existing' = Existing /\ Grows
<1>1. Existing' = Existing /\ st' \in [Row -> State]
  BY DEF RowsOK, Existing, Exists, State
<1>3. intent' \subseteq Existing'
  BY <1>1 DEF RowsOK
<1> QED BY <1>1, <1>3 DEF RowsOK, Grows

\* The reducer never makes a row "none".
LEMMA ReducerType ==
  ASSUME NEW s \in State \ {"none"}, NEW e \in {"INTENT_RECORDED", "APPLIED", "FAILED"}
  PROVE  NextState(s, e) \in State \ {"none"}
  BY DEF NextState, State

LEMMA ReadType ==
  ASSUME RowsOK, NEW r \in Existing, NEW e \in {"INTENT_RECORDED", "APPLIED", "FAILED"}
  PROVE  NextState(st[r], e) \in State \ {"none"}
<1>1. st[r] \in State \ {"none"}
  BY DEF RowsOK, Existing, Exists
<1> QED BY <1>1, ReducerType

\* Attaching a row.
LEMMA AttachWrite ==
  ASSUME RowsOK, NEW r \in Row, NEW m \in MgrType, AttachRow(r, m),
         m.kind \in Kind, m.parent \in Existing \cup {NoRow},
         UNCHANGED <<off, intent>>
  PROVE  /\ RowsOK' /\ Grows
         /\ Existing' = Existing \cup {r} /\ r \notin Existing
<1>1. r \notin Existing
  BY DEF AttachRow, Fresh, Existing
<1>2. Existing' = Existing \cup {r}
  BY DEF AttachRow, RowsOK, Existing, Exists
<1>3. mgr' \in [Row -> MgrType] /\ st' \in [Row -> State]
  BY DEF AttachRow, RowsOK, State
<1>4. \A q \in Existing' :
        mgr'[q].kind \in Kind /\ mgr'[q].parent \in (Existing' \ {q}) \cup {NoRow}
  <2> SUFFICES ASSUME NEW q \in Existing'
               PROVE  mgr'[q].kind \in Kind /\ mgr'[q].parent \in (Existing' \ {q}) \cup {NoRow}
    OBVIOUS
  <2>0. mgr \in [Row -> MgrType] /\ Existing \subseteq Row
    BY DEF RowsOK, Existing
  <2>1. CASE q = r
    BY <2>0, <2>1, <1>1, <1>2 DEF AttachRow
  <2>2. CASE q # r
    <3>1. q \in Existing /\ mgr'[q] = mgr[q]
      BY <2>0, <2>2, <1>2 DEF AttachRow
    <3> QED BY <3>1, <1>2 DEF RowsOK
  <2> QED BY <2>1, <2>2
<1> QED BY <1>1, <1>2, <1>3, <1>4 DEF RowsOK, Grows

-----------------------------------------------------------------------------
(* Types. *)

\* TypeOK but for DownOK, which has a lemma of its own.
Typed ==
    /\ RowsOK /\ VenueOK /\ MarketOK /\ PassesOK /\ StartupOK /\ HistoryOK
    /\ up \in BOOLEAN /\ seeded \in BOOLEAN

LEMMA TypeInit == Init => TypeOK
<1> SUFFICES ASSUME Init PROVE TypeOK
  OBVIOUS
<1>1. Existing = {}
  BY DEF Init, Existing, Exists
<1>2. RowsOK
  BY <1>1 DEF Init, RowsOK, MgrType, NoMgr, State
<1>3. VenueOK /\ MarketOK /\ HistoryOK
  BY <1>1 DEF Init, VenueOK, MarketOK, HistoryOK, NoReq
<1>4. PassesOK
  BY <1>1 DEF Init, PassesOK, Stage, Busy, State
<1>5. StartupOK
  <2>1. <<>> \in Seq(Kind)
    OBVIOUS
  <2> QED BY <2>1, <1>1 DEF Init, StartupOK, State
<1> QED BY <1>2, <1>3, <1>4, <1>5 DEF TypeOK, DownOK, Init

LEMMA OfKindType == ASSUME NEW k, NEW s PROVE OfKind(k, s) \subseteq Existing
  BY DEF OfKind

\* Nothing but the supervisor acts while the engine is down.
LEMMA DownStep ==
  ASSUME TypeOK, [Next]_vars
  PROVE  DownOK'
<1>1. CASE ~up
  <2>1. rpc = "done" /\ \A d \in Dispatcher : pc[d] = "idle" /\ todo[d] = {}
    BY <1>1 DEF Typed, TypeOK, DownOK
  <2>2. ~Operator /\ ~Reconcile /\ ~Crash /\ ~SeedLands
    BY <1>1, <2>1 DEF Operator, Attach, OffBegins, OffCommits, OffFails, Crash, SeedLands,
       Reconcile, ReconcileKind, ReconcileLook, ReconcileReads, ReconcileRecords,
       ReconcileReverts, ReconcileFails, ReconcileEnds
  <2>3. \A d \in Dispatcher : ~Sweep(d)
    BY <1>1, <2>1 DEF Sweep, Tick, PassOver, Claim
  <2>4. \A d \in Dispatcher : ~Work(d)
    BY <2>1 DEF Work, ReadForIntent, ReadForOutcome, ReadsState, RecordIntent, IntentFails,
       RecordOutcome, OutcomeFails, ApplyWatch,
       RearmDeclines, RearmSubmits, FlattenDeclines, FlattenReleases, FlattenSubmits,
       CheckOff, HandOffFails, HandOff, Applies
  <2>5. CASE Restart
    BY <2>5 DEF Restart, DownOK
  <2>6. CASE Venue \/ UNCHANGED vars
    <3>1. UNCHANGED <<up, rpc, pc, todo>>
      BY <2>6 DEF Venue, PositionCloses, ReentryFills, FlattenFills, Expires, vars, passes, startup
    <3> QED BY <2>1, <3>1 DEF DownOK
  <2> QED BY <2>2, <2>3, <2>4, <2>5, <2>6 DEF Next
<1>2. CASE up
  <2>1. CASE Crash
    BY <2>1 DEF Crash, DownOK
  <2>2. CASE ~Crash
    <3>1. up'
      BY <1>2, <2>2 DEF Next, vars, Operator, Attach, OffBegins, OffCommits, OffFails,
         Venue, PositionCloses, ReentryFills, FlattenFills, Expires,
         Sweep, Tick, PassOver, Claim,
         Work, ReadForIntent, ReadForOutcome, ReadsState, RecordIntent, IntentFails,
         RecordOutcome, OutcomeFails, ApplyWatch, Decides,
         RearmDeclines, RearmSubmits, FlattenDeclines, FlattenReleases, FlattenSubmits,
         CheckOff, HandOffFails, HandOff, Restart, SeedLands,
         Reconcile, ReconcileKind, ReconcileLook, ReconcileReads, ReconcileRecords,
         ReconcileReverts, ReconcileFails, ReconcileEnds
    <3> QED BY <3>1 DEF DownOK
  <2> QED BY <2>1, <2>2
<1> QED BY <1>1, <1>2 DEF Typed, TypeOK

LEMMA TypeOperator ==
  ASSUME TypeOK, Operator
  PROVE  Typed' /\ Grows
<1>1. ASSUME NEW r \in Row, NEW k \in Kind, NEW o \in Owner, Attach(r, k, o)
      PROVE  Typed' /\ Grows
  <2> DEFINE m == [kind |-> k, owner |-> o, cycle |-> cycle, count |-> 0, parent |-> NoRow]
  <2>1. m \in MgrType /\ m.kind = k /\ m.parent = NoRow
    BY DEF MgrType, Typed, TypeOK, MarketOK
  <2>2. AttachRow(r, m) /\ UNCHANGED <<off, intent>>
    BY <1>1 DEF Attach
  <2> HIDE DEF m
  <2>3. RowsOK' /\ Grows
    BY <2>1, <2>2, AttachWrite DEF Typed, TypeOK
  <2>4. VenueOK' /\ MarketOK' /\ PassesOK'
    BY <2>3, <1>1, FrameVenue, FrameMarket, FramePasses DEF Typed, TypeOK, Attach
  <2>5. StartupOK' /\ HistoryOK'
    BY <2>3, <1>1, FrameStartup, FrameHistory DEF Typed, TypeOK, Attach
  <2> QED BY <1>1, <2>3, <2>4, <2>5 DEF Typed, TypeOK, Attach
<1>2. ASSUME NEW r \in Row, OffBegins(r) PROVE Typed' /\ Grows
  <2>1. RowsOK' /\ Existing' = Existing /\ Grows
    BY <1>2, FrameRows DEF Typed, TypeOK, OffBegins, Grows
  <2>2. VenueOK' /\ MarketOK' /\ PassesOK' /\ StartupOK'
    BY <2>1, <1>2, FrameVenue, FrameMarket, FramePasses, FrameStartup DEF Typed, TypeOK, OffBegins
  <2>3. HistoryOK'
    <3>1. Existing \subseteq Row /\ r \in Existing
      BY <1>2 DEF Existing, OffBegins
    <3> QED BY <3>1, <2>1, <1>2 DEF Typed, TypeOK, HistoryOK, OffBegins, history
  <2> QED BY <1>2, <2>1, <2>2, <2>3 DEF Typed, TypeOK, OffBegins
<1>3. CASE OffCommits
  <2>1. Existing' = Existing /\ st' \in [Row -> State]
    BY <1>3 DEF OffCommits, Existing, Exists, Typed, TypeOK, RowsOK, State, Chain
  <2>2. off' \subseteq Existing
    BY <1>3 DEF OffCommits, Typed, TypeOK, RowsOK, Chain
  <2>3. RowsOK' /\ Grows
    BY <1>3, <2>1, <2>2 DEF OffCommits, Typed, TypeOK, RowsOK, Grows
  <2>4. VenueOK' /\ MarketOK' /\ PassesOK' /\ StartupOK'
    BY <2>3, <1>3, FrameVenue, FrameMarket, FramePasses, FrameStartup DEF Typed, TypeOK, OffCommits
  <2>5. late' \subseteq Existing
    BY <1>3 DEF OffCommits, Typed, TypeOK, HistoryOK, Chain
  <2>6. NoReq \in [row : Row \cup {NoRow}, seen : SUBSET Row] /\ NoReq.row = NoRow /\ NoReq.seen = {}
    BY DEF NoReq
  <2>7. HistoryOK'
    BY <2>1, <2>5, <2>6, <1>3 DEF OffCommits, Typed, TypeOK, HistoryOK
  <2> QED BY <1>3, <2>3, <2>4, <2>7 DEF Typed, TypeOK, OffCommits
<1>4. CASE OffFails
  <2>1. RowsOK' /\ Existing' = Existing /\ Grows
    BY <1>4, FrameRows DEF Typed, TypeOK, OffFails, Grows
  <2>2. VenueOK' /\ MarketOK' /\ PassesOK' /\ StartupOK'
    BY <2>1, <1>4, FrameVenue, FrameMarket, FramePasses, FrameStartup DEF Typed, TypeOK, OffFails
  <2>3. HistoryOK'
    <3>1. NoReq \in [row : Row \cup {NoRow}, seen : SUBSET Row] /\ NoReq.row = NoRow /\ NoReq.seen = {}
      BY DEF NoReq
    <3> QED BY <3>1, <2>1, <1>4 DEF Typed, TypeOK, HistoryOK, OffFails, history
  <2> QED BY <1>4, <2>1, <2>2, <2>3 DEF Typed, TypeOK, OffFails
<1> QED BY <1>1, <1>2, <1>3, <1>4 DEF Operator

LEMMA TypeVenue ==
  ASSUME TypeOK, Venue
  PROVE  Typed' /\ Grows
<1>1. UNCHANGED rows /\ UNCHANGED <<passes, startup, req, history, up, seeded>>
  BY DEF Venue, PositionCloses, ReentryFills, FlattenFills, Expires
<1>2. RowsOK' /\ Existing' = Existing /\ Grows
  BY <1>1, FrameRows DEF Typed, TypeOK, Grows
<1>3. PassesOK' /\ StartupOK' /\ HistoryOK'
  BY <1>1, <1>2, FramePasses, FrameStartup, FrameHistory DEF Typed, TypeOK
<1>4. VenueOK'
  BY <1>2 DEF Typed, TypeOK, VenueOK, Venue, PositionCloses, ReentryFills, FlattenFills, Expires,
     venue
<1>5. ASSUME NEW how \in {"stop", "other"}, Closes(how), cycle' = cycle PROVE MarketOK'
  BY <1>5 DEF Typed, TypeOK, MarketOK, Closes
<1>6. ASSUME NEW r \in Row, ReentryFills(r) PROVE MarketOK'
  BY <1>6 DEF Typed, TypeOK, MarketOK, ReentryFills
<1>7. ASSUME NEW r \in Row, Expires(r) PROVE MarketOK'
  BY <1>7, FrameMarket DEF Typed, TypeOK, Expires
<1>8. MarketOK'
  BY <1>5, <1>6, <1>7 DEF Venue, PositionCloses, FlattenFills
<1> QED BY <1>1, <1>2, <1>3, <1>4, <1>8 DEF Typed, TypeOK

LEMMA TypeSweep ==
  ASSUME TypeOK, NEW d \in Dispatcher, Sweep(d)
  PROVE  Typed' /\ Grows
<1>1. ASSUME NEW k \in Kind, Tick(d, k) PROVE Typed' /\ Grows
  <2>1. RowsOK' /\ Existing' = Existing /\ Grows
    BY <1>1, FrameRows DEF Typed, TypeOK, Tick, Grows
  <2>2. VenueOK' /\ MarketOK' /\ StartupOK' /\ HistoryOK'
    BY <2>1, <1>1, FrameVenue, FrameMarket, FrameStartup, FrameHistory DEF Typed, TypeOK, Tick
  <2>3. OfKind(k, "ARMED") \subseteq Existing /\ Existing \subseteq Row
    BY OfKindType DEF Existing
  <2>4. PassesOK'
    BY <2>1, <2>3, <1>1 DEF Typed, TypeOK, PassesOK, Tick
  <2> QED BY <1>1, <2>1, <2>2, <2>4 DEF Typed, TypeOK, Tick
<1>2. ASSUME NEW r \in Row, PassOver(d, r) PROVE Typed' /\ Grows
  <2>1. RowsOK' /\ Existing' = Existing /\ Grows
    BY <1>2, FrameRows DEF Typed, TypeOK, PassOver, Grows
  <2>2. VenueOK' /\ MarketOK' /\ StartupOK' /\ HistoryOK'
    BY <2>1, <1>2, FrameVenue, FrameMarket, FrameStartup, FrameHistory DEF Typed, TypeOK, PassOver
  <2>3. PassesOK'
    BY <2>1, <1>2 DEF Typed, TypeOK, PassesOK, PassOver
  <2> QED BY <1>2, <2>1, <2>2, <2>3 DEF Typed, TypeOK, PassOver
<1>3. ASSUME NEW r \in Row, Claim(d, r) PROVE Typed' /\ Grows
  <2>1. r \in Existing
    BY <1>3 DEF Claim, Typed, TypeOK, PassesOK
  <2>2. RowsOK' /\ Existing' = Existing /\ Grows
    <3>1. "APPLYING" \in State \ {"none"} /\ st' = [st EXCEPT ![r] = "APPLYING"]
          /\ UNCHANGED <<mgr, off>> /\ intent' = intent
      BY <1>3 DEF Claim, State
    <3> QED BY <2>1, <3>1, StateWrite DEF Typed, TypeOK
  <2>3. VenueOK' /\ MarketOK' /\ StartupOK'
    BY <2>2, <1>3, FrameVenue, FrameMarket, FrameStartup DEF Typed, TypeOK, Claim
  <2>4. PassesOK'
    BY <2>1, <2>2, <1>3 DEF Typed, TypeOK, PassesOK, Claim, Go, Stage, Busy
  <2>5. HistoryOK'
    BY <2>1, <2>2, <1>3 DEF Typed, TypeOK, HistoryOK, Claim
  <2> QED BY <1>3, <2>2, <2>3, <2>4, <2>5 DEF Typed, TypeOK, Claim
<1> QED BY <1>1, <1>2, <1>3 DEF Sweep

\* A pass at work holds an existing row.
LEMMA AtWork ==
  ASSUME TypeOK, NEW d \in Dispatcher, pc[d] # "idle"
  PROVE  pc[d] \in Busy /\ cur[d] \in Existing /\ cur[d] \in Row
  BY DEF Typed, TypeOK, PassesOK, Busy, Existing

\* The stages at which a pass holds the state it is about to write.
Noted == {"intent", "outcome"}

LEMMA PassesGo ==
  ASSUME PassesOK, NEW d \in Dispatcher, pc[d] \in Busy, Grows, UNCHANGED todo,
         \/ /\ \E l \in Busy \ Noted : Go(d, l)
            /\ UNCHANGED cur
            /\ (UNCHANGED got /\ pc[d] \notin Noted) \/ got' = [got EXCEPT ![d] = "none"]
         \/ /\ \E l \in Noted : Go(d, l)
            /\ UNCHANGED cur
            /\ \E s \in State \ {"none"} : got' = [got EXCEPT ![d] = s]
         \/ Release(d)
  PROVE  PassesOK'
<1>0. Noted \subseteq Busy /\ Busy \subseteq Stage /\ "idle" \in Stage \ Busy /\ "none" \in State
  BY DEF Noted, Busy, Stage, State
<1>1. pc' \in [Dispatcher -> Stage] /\ cur' \in [Dispatcher -> Row \cup {NoRow}]
      /\ got' \in [Dispatcher -> State] /\ todo' \in [Dispatcher -> SUBSET Row]
  BY <1>0 DEF PassesOK, Go, Release
<1>2. \A e \in Dispatcher : todo'[e] \subseteq Existing'
  BY DEF PassesOK, Grows
<1>3. \A e \in Dispatcher : IF pc'[e] \in Busy THEN cur'[e] \in Existing' ELSE cur'[e] = NoRow
  BY <1>0 DEF PassesOK, Go, Release, Grows
<1>4. \A e \in Dispatcher : got'[e] # "none" <=> pc'[e] \in Noted
  BY <1>0 DEF PassesOK, Go, Release, Noted
<1> QED BY <1>1, <1>2, <1>3, <1>4 DEF PassesOK, Noted

\* A step of a pass that touches neither the rows nor the order book.
LEMMA TypeDecides ==
  ASSUME TypeOK, NEW d \in Dispatcher, pc[d] \in Busy \ Noted,
         NEW l \in Busy \ Noted, Decides(d, l)
  PROVE  Typed' /\ Grows
<1>1. RowsOK' /\ Existing' = Existing /\ Grows
  BY FrameRows DEF Typed, TypeOK, Decides, Grows
<1>2. VenueOK' /\ MarketOK' /\ StartupOK' /\ HistoryOK'
  BY <1>1, FrameVenue, FrameMarket, FrameStartup, FrameHistory DEF Typed, TypeOK, Decides
<1>3. PassesOK'
  BY <1>1, PassesGo DEF Typed, TypeOK, Decides
<1> QED BY <1>1, <1>2, <1>3 DEF Typed, TypeOK, Decides

LEMMA TypeSubmits ==
  ASSUME TypeOK, NEW d \in Dispatcher, pc[d] \in Busy \ Noted, NEW l \in Busy \ Noted,
         Submit(cur[d]), Go(d, l),
         UNCHANGED <<rows, market, up, seeded, cur, got, todo, startup, req, history>>
  PROVE  Typed' /\ Grows
<1>1. RowsOK' /\ Existing' = Existing /\ Grows
  BY FrameRows DEF Typed, TypeOK, Grows
<1>2. MarketOK' /\ StartupOK' /\ HistoryOK'
  BY <1>1, FrameMarket, FrameStartup, FrameHistory DEF Typed, TypeOK
<1>3. PassesOK'
  BY <1>1, PassesGo DEF Typed, TypeOK
<1>4. VenueOK'
  BY <1>1, AtWork DEF Typed, TypeOK, VenueOK, Submit, Busy
<1> QED BY <1>1, <1>2, <1>3, <1>4 DEF Typed, TypeOK

LEMMA TypeWork ==
  ASSUME TypeOK, NEW d \in Dispatcher, Work(d)
  PROVE  Typed' /\ Grows
<1>0. pc[d] \in Busy /\ cur[d] \in Existing /\ cur[d] \in Row
  <2>1. pc[d] # "idle"
    BY DEF Work, ReadForIntent, ReadForOutcome, ReadsState, RecordIntent, IntentFails,
       RecordOutcome, OutcomeFails, ApplyWatch,
           RearmDeclines, RearmSubmits, FlattenDeclines, FlattenReleases, FlattenSubmits,
           CheckOff, HandOffFails, HandOff, Applies
  <2> QED BY <2>1, AtWork
<1>1. CASE RecordIntent(d)
  <2>1. got[d] \in State \ {"none"} /\ st' = [st EXCEPT ![cur[d]] = got[d]]
        /\ UNCHANGED <<mgr, off>> /\ intent' = intent \cup {cur[d]}
    BY <1>1 DEF RecordIntent, WriteState, Typed, TypeOK, PassesOK
  <2>2. RowsOK' /\ Existing' = Existing /\ Grows
    BY <2>1, <1>0, StateWrite DEF Typed, TypeOK
  <2>3. VenueOK' /\ MarketOK' /\ StartupOK' /\ HistoryOK'
    BY <2>2, <1>1, FrameVenue, FrameMarket, FrameStartup, FrameHistory DEF Typed, TypeOK,
       RecordIntent
  <2>4. PassesOK'
    <3>1. "apply" \in Busy \ Noted
      BY DEF Busy, Stage, Noted
    <3> QED BY <3>1, <2>2, <1>0, <1>1, PassesGo DEF Typed, TypeOK, RecordIntent
  <2> QED BY <1>1, <2>2, <2>3, <2>4 DEF Typed, TypeOK, RecordIntent
<1>2. CASE IntentFails(d) \/ OutcomeFails(d)
  <2>1. RowsOK' /\ Existing' = Existing /\ Grows
    BY <1>2, FrameRows DEF Typed, TypeOK, IntentFails, OutcomeFails, Grows
  <2>2. VenueOK' /\ MarketOK' /\ StartupOK' /\ HistoryOK'
    BY <2>1, <1>2, FrameVenue, FrameMarket, FrameStartup, FrameHistory
       DEF Typed, TypeOK, IntentFails, OutcomeFails
  <2>3. PassesOK'
    BY <2>1, <1>0, <1>2, PassesGo DEF Typed, TypeOK, IntentFails, OutcomeFails
  <2> QED BY <1>2, <2>1, <2>2, <2>3 DEF Typed, TypeOK, IntentFails, OutcomeFails
<1>3. CASE RecordOutcome(d)
  <2>1. got[d] \in State \ {"none"} /\ st' = [st EXCEPT ![cur[d]] = got[d]]
        /\ UNCHANGED <<mgr, off>> /\ intent' = intent
    BY <1>3 DEF RecordOutcome, WriteState, Typed, TypeOK, PassesOK
  <2>2. RowsOK' /\ Existing' = Existing /\ Grows
    BY <2>1, <1>0, StateWrite DEF Typed, TypeOK
  <2>3. VenueOK' /\ MarketOK' /\ StartupOK' /\ HistoryOK'
    BY <2>2, <1>3, FrameVenue, FrameMarket, FrameStartup, FrameHistory DEF Typed, TypeOK,
       RecordOutcome
  <2>4. PassesOK'
    BY <2>2, <1>0, <1>3, PassesGo DEF Typed, TypeOK, RecordOutcome
  <2> QED BY <1>3, <2>2, <2>3, <2>4 DEF Typed, TypeOK, RecordOutcome
<1>4. CASE \/ ApplyWatch(d) \/ RearmDeclines(d) \/ FlattenDeclines(d)
           \/ FlattenReleases(d) \/ CheckOff(d)
  <2>1. pc[d] \in Busy \ Noted /\ \E l \in Busy \ Noted : Decides(d, l)
    BY <1>4 DEF ApplyWatch, RearmDeclines, FlattenDeclines, FlattenReleases, CheckOff, Applies,
                Busy, Stage, Noted
  <2> QED BY <2>1, <1>0, TypeDecides
<1>5. CASE RearmSubmits(d) \/ FlattenSubmits(d)
  <2>1. PICK l \in Busy \ Noted : Go(d, l)
    BY <1>5 DEF RearmSubmits, FlattenSubmits, Busy, Stage, Noted
  <2>2. Submit(cur[d]) /\ pc[d] \in Busy \ Noted
        /\ UNCHANGED <<rows, market, up, seeded, cur, got, todo, startup, req, history>>
    BY <1>5 DEF RearmSubmits, FlattenSubmits, Applies, Busy, Stage, Noted
  <2> QED BY <2>1, <2>2, <1>0, TypeSubmits
<1>6. CASE HandOffFails(d)
  <2>1. RowsOK' /\ Existing' = Existing /\ Grows
    BY <1>6, FrameRows DEF Typed, TypeOK, HandOffFails, Grows
  <2>2. VenueOK' /\ MarketOK' /\ StartupOK' /\ HistoryOK'
    BY <2>1, <1>6, FrameVenue, FrameMarket, FrameStartup, FrameHistory DEF Typed, TypeOK,
       HandOffFails
  <2>3. PassesOK'
    <3>1. "failed" \in Busy \ Noted /\ pc[d] \notin Noted
      BY <1>6 DEF HandOffFails, Busy, Stage, Noted
    <3> QED BY <3>1, <2>1, <1>0, <1>6, PassesGo DEF Typed, TypeOK, HandOffFails
  <2> QED BY <1>6, <2>1, <2>2, <2>3 DEF Typed, TypeOK, HandOffFails
<1>7. ASSUME NEW r \in Row, HandOff(d, r) PROVE Typed' /\ Grows
  <2> DEFINE m == Successor(cur[d])
  <2>1. m \in MgrType /\ m.kind \in Kind /\ m.parent = cur[d]
    <3> DEFINE o == mgr[cur[d]]
    <3>1. o \in MgrType /\ o.kind \in Kind
      BY <1>0 DEF Typed, TypeOK, RowsOK
    <3>2. o.owner \in Owner \cup {"none"} /\ o.cycle \in Nat /\ o.count \in Nat
      BY <3>1 DEF MgrType
    <3>3. o.count + 1 \in Nat
      BY <3>2
    <3> QED BY <3>2, <3>3, <1>0 DEF Successor, MgrType, Kind
  <2>2. AttachRow(r, m) /\ UNCHANGED <<off, intent>>
    BY <1>7 DEF HandOff
  <2> HIDE DEF m
  <2>3. RowsOK' /\ Grows
    BY <2>1, <2>2, <1>0, AttachWrite DEF Typed, TypeOK
  <2>4. VenueOK' /\ MarketOK' /\ StartupOK' /\ HistoryOK'
    BY <2>3, <1>7, FrameVenue, FrameMarket, FrameStartup, FrameHistory DEF Typed, TypeOK, HandOff
  <2>5. PassesOK'
    <3>1. "applied" \in Busy \ Noted /\ pc[d] \notin Noted
      BY <1>7 DEF HandOff, Busy, Stage, Noted
    <3> QED BY <3>1, <2>3, <1>0, <1>7, PassesGo DEF Typed, TypeOK, HandOff
  <2> QED BY <1>7, <2>3, <2>4, <2>5 DEF Typed, TypeOK, HandOff
<1>8. CASE ReadForIntent(d) \/ ReadForOutcome(d)
  <2>1. PICK e \in {"INTENT_RECORDED", "APPLIED", "FAILED"}, l \in Noted : ReadsState(d, e, l)
    BY <1>8 DEF ReadForIntent, ReadForOutcome, Noted
  <2>2. RowsOK' /\ Existing' = Existing /\ Grows
    BY <2>1, FrameRows DEF Typed, TypeOK, ReadsState, Grows
  <2>3. VenueOK' /\ MarketOK' /\ StartupOK' /\ HistoryOK'
    BY <2>1, <2>2, FrameVenue, FrameMarket, FrameStartup, FrameHistory DEF Typed, TypeOK, ReadsState
  <2>4. NextState(st[cur[d]], e) \in State \ {"none"}
    BY <1>0, ReadType DEF Typed, TypeOK
  <2>5. PassesOK'
    BY <2>1, <2>2, <2>4, <1>0, PassesGo DEF Typed, TypeOK, ReadsState
  <2> QED BY <2>1, <2>2, <2>3, <2>5 DEF Typed, TypeOK, ReadsState
<1> QED BY <1>1, <1>2, <1>3, <1>4, <1>5, <1>6, <1>7, <1>8 DEF Work

LEMMA TypeEngine ==
  ASSUME TypeOK, Crash \/ Restart \/ SeedLands
  PROVE  Typed' /\ Grows
<1>0. RowsOK' /\ Existing' = Existing /\ Grows
  BY FrameRows DEF Typed, TypeOK, Crash, Restart, SeedLands, Grows
<1>00. MarketOK'
  BY FrameMarket DEF Typed, TypeOK, Crash, Restart, SeedLands
<1>1. CASE Crash
  <2>1. VenueOK'
    BY <1>1, <1>0, FrameVenue DEF Typed, TypeOK, Crash
  <2>2. PassesOK'
    BY <1>1, <1>0 DEF Typed, TypeOK, PassesOK, Crash, Stage, Busy, State
  <2>3. StartupOK'
    <3>1. <<>> \in Seq(Kind)
      OBVIOUS
    <3> QED BY <3>1, <1>1, <1>0 DEF Typed, TypeOK, StartupOK, Crash, State
  <2>4. HistoryOK'
    BY <1>1, <1>0 DEF Typed, TypeOK, HistoryOK, Crash, NoReq
  <2> QED BY <1>1, <1>0, <1>00, <2>1, <2>2, <2>3, <2>4 DEF Typed, TypeOK, Crash
<1>2. CASE Restart
  <2>1. VenueOK'
    BY <1>2, <1>0 DEF Typed, TypeOK, VenueOK, Restart
  <2>2. PassesOK' /\ HistoryOK'
    BY <1>2, <1>0, FramePasses, FrameHistory DEF Typed, TypeOK, Restart
  <2>3. StartupOK'
    <3>1. KindOrder \in Seq(Kind)
      BY DEF KindOrder, Kind
    <3>2. rcur' = NoRow
      <4>1. rpc = "done" /\ rcur' = rcur
        BY <1>2 DEF TypeOK, DownOK, Restart
      <4>2. rpc \notin {"write", "record"} => rcur = NoRow
        BY DEF Typed, TypeOK, StartupOK
      <4> QED BY <1>2, <4>1, <4>2
    <3>3. rpc = "done"
      BY <1>2 DEF TypeOK, DownOK, Restart
    <3> QED BY <3>1, <3>2, <3>3, <1>2, <1>0 DEF Typed, TypeOK, StartupOK, Restart
  <2> QED BY <1>2, <1>0, <1>00, <2>1, <2>2, <2>3 DEF Typed, TypeOK, Restart
<1>3. CASE SeedLands
  <2>1. VenueOK' /\ PassesOK' /\ HistoryOK' /\ StartupOK'
    BY <1>3, <1>0, FrameVenue, FramePasses, FrameHistory, FrameStartup DEF Typed, TypeOK, SeedLands
  <2> QED BY <1>3, <1>0, <1>00, <2>1 DEF Typed, TypeOK, SeedLands
<1> QED BY <1>1, <1>2, <1>3

LEMMA TypeReconcile ==
  ASSUME TypeOK, Reconcile
  PROVE  Typed' /\ Grows
<1>0. Grows => /\ VenueOK' /\ MarketOK' /\ PassesOK'
               /\ up' \in BOOLEAN /\ seeded' \in BOOLEAN
  <2>1. UNCHANGED venue /\ UNCHANGED market /\ UNCHANGED passes /\ UNCHANGED <<up, seeded>>
    BY DEF Reconcile, ReconcileKind, ReconcileLook, ReconcileReads, ReconcileRecords,
       ReconcileReverts, ReconcileFails, ReconcileEnds
  <2> QED BY <2>1, FrameVenue, FrameMarket, FramePasses DEF Typed, TypeOK
<1>1. CASE ReconcileKind
  <2>1. RowsOK' /\ Existing' = Existing /\ Grows
    BY <1>1, FrameRows DEF Typed, TypeOK, ReconcileKind, Grows
  <2>2. Reconcilable(Head(rleft)) \subseteq Existing
    BY OfKindType DEF Reconcilable
  <2>3. rtodo' \subseteq Existing
    BY <2>2, <1>1 DEF ReconcileKind, Typed, TypeOK, StartupOK
  <2>4. rleft' \in Seq(Kind)
    BY <1>1, TailKind DEF ReconcileKind, Typed, TypeOK, StartupOK
  <2>5. StartupOK'
    BY <2>1, <2>3, <2>4, <1>1 DEF ReconcileKind, Typed, TypeOK, StartupOK
  <2>6. HistoryOK'
    BY <2>1, <1>1, FrameHistory DEF ReconcileKind, Typed, TypeOK
  <2> QED BY <1>0, <2>1, <2>5, <2>6 DEF Typed, TypeOK
<1>2. ASSUME NEW r \in Row, ReconcileLook(r) PROVE Typed' /\ Grows
  <2>1. RowsOK' /\ Existing' = Existing /\ Grows
    BY <1>2, FrameRows DEF Typed, TypeOK, ReconcileLook, Grows
  <2>2. rleft' \in Seq(Kind)
    BY <1>2 DEF ReconcileLook, Typed, TypeOK, StartupOK
  <2>3. rseen' \in BOOLEAN
    BY <1>2, Zenon DEF ReconcileLook
  <2>4. StartupOK'
    BY <2>1, <2>2, <2>3, <1>2 DEF ReconcileLook, Typed, TypeOK, StartupOK
  <2>5. HistoryOK'
    BY <2>1, <1>2, FrameHistory DEF ReconcileLook, Typed, TypeOK
  <2> QED BY <1>0, <2>1, <2>4, <2>5 DEF Typed, TypeOK
<1>3. CASE ReconcileReads
  <2>1. RowsOK' /\ Existing' = Existing /\ Grows
    BY <1>3, FrameRows DEF Typed, TypeOK, ReconcileReads, Grows
  <2>2. rleft' \in Seq(Kind)
    BY <1>3 DEF ReconcileReads, Typed, TypeOK, StartupOK
  <2>3. rgot' \in State \ {"none"}
    BY <1>3, ReadType DEF ReconcileReads, Typed, TypeOK, StartupOK
  <2>4. StartupOK'
    BY <2>1, <2>2, <2>3, <1>3 DEF ReconcileReads, Typed, TypeOK, StartupOK
  <2>5. HistoryOK'
    BY <2>1, <1>3, FrameHistory DEF ReconcileReads, Typed, TypeOK
  <2> QED BY <1>0, <2>1, <2>4, <2>5 DEF Typed, TypeOK
<1>5. CASE ReconcileRecords \/ ReconcileReverts
  <2>0. rcur \in Existing /\ rcur \in Row
    BY <1>5 DEF ReconcileRecords, ReconcileReverts, Typed, TypeOK, StartupOK, Existing
  <2>1. RowsOK' /\ Existing' = Existing /\ Grows
    <3>1. UNCHANGED <<mgr, off, intent>>
      BY <1>5 DEF ReconcileRecords, ReconcileReverts
    <3>2. \E s \in State \ {"none"} : st' = [st EXCEPT ![rcur] = s]
      BY <1>5 DEF ReconcileRecords, ReconcileReverts, WriteState, State, Typed, TypeOK, StartupOK
    <3> QED BY <3>1, <3>2, <2>0, StateWrite DEF Typed, TypeOK
  <2>2. rleft' \in Seq(Kind)
    BY <1>5 DEF ReconcileRecords, ReconcileReverts, Typed, TypeOK, StartupOK
  <2>3. StartupOK'
    BY <2>1, <2>2, <1>5 DEF ReconcileRecords, ReconcileReverts, Typed, TypeOK, StartupOK, State
  <2>4. HistoryOK'
    BY <2>0, <2>1, <1>5 DEF ReconcileRecords, ReconcileReverts, Typed, TypeOK, HistoryOK
  <2> QED BY <1>0, <2>1, <2>3, <2>4 DEF Typed, TypeOK
<1>4. CASE ReconcileFails \/ ReconcileEnds
  <2>1. RowsOK' /\ Existing' = Existing /\ Grows
    BY <1>4, FrameRows DEF Typed, TypeOK, ReconcileFails, ReconcileEnds, Grows
  <2>2. rleft' \in Seq(Kind)
    BY <1>4 DEF ReconcileFails, ReconcileEnds, Typed, TypeOK, StartupOK
  <2>3. StartupOK'
    <3>1. rpc \in {"read", "write", "record", "done"}
          /\ (rpc \notin {"write", "record"} => rcur = NoRow)
      BY DEF Typed, TypeOK, StartupOK
    <3>2. rcur' = NoRow
      BY <3>1, <1>4 DEF ReconcileFails, ReconcileEnds
    <3> QED BY <2>1, <2>2, <3>2, <1>4 DEF ReconcileFails, ReconcileEnds, Typed, TypeOK, StartupOK, State
  <2>4. HistoryOK'
    BY <2>1, <1>4 DEF ReconcileFails, ReconcileEnds, Typed, TypeOK, HistoryOK, history
  <2> QED BY <1>0, <2>1, <2>3, <2>4 DEF Typed, TypeOK
<1> QED BY <1>1, <1>2, <1>3, <1>4, <1>5 DEF Reconcile

LEMMA TypeStep ==
  ASSUME TypeOK, [Next]_vars
  PROVE  TypeOK' /\ Grows
<1>1. ASSUME UNCHANGED vars PROVE Typed' /\ Grows
  <2>1. RowsOK' /\ Existing' = Existing /\ Grows
    BY <1>1, FrameRows DEF TypeOK, vars, rows, Grows
  <2>2. VenueOK' /\ MarketOK' /\ PassesOK'
    BY <1>1, <2>1, FrameVenue, FrameMarket, FramePasses
       DEF TypeOK, vars, venue, market, passes
  <2>3. StartupOK' /\ HistoryOK'
    BY <1>1, <2>1, FrameStartup, FrameHistory DEF TypeOK, vars, startup, history
  <2> QED BY <1>1, <2>1, <2>2, <2>3 DEF TypeOK, Typed, vars
<1>2. Typed' /\ Grows
  BY <1>1, TypeOperator, TypeVenue, TypeSweep, TypeWork, TypeEngine, TypeReconcile DEF Next
<1> QED BY <1>2, DownStep DEF TypeOK, Typed

\* Every state is well typed, a pass works on a row exactly while it has
\* claimed one, and nothing refers to a row not yet attached.
THEOREM TypeCorrect == Spec => []TypeOK
<1>1. TypeOK /\ [Next]_vars => TypeOK'
  BY TypeStep
<1> QED BY TypeInit, <1>1, PTL DEF Spec

-----------------------------------------------------------------------------
(* Safety: who holds a row, and how often its order goes out.               *)

(* The inductive invariant. *)

\* The states of a row that neither a claim nor an OFF may take.
Taken == {"APPLYING", "APPLIED", "FAILED"}

\* A pass at work holds a row no one else can take: it is APPLYING, unless
\* the reconciliation gave it its outcome.
Held == \A d \in Dispatcher :
          pc[d] # "idle" /\ cur[d] \notin yanked =>
             /\ st[cur[d]] \in {"APPLYING", "APPLIED"}
             /\ cur[d] \notin twice => st[cur[d]] = "APPLYING"

\* What a pass is about to write is what the row was when the pass read it.
Noting == \A d \in Dispatcher :
            cur[d] \notin yanked =>
               /\ pc[d] = "intent" =>
                    /\ got[d] \in {"APPLYING", "APPLIED"}
                    /\ cur[d] \notin twice => got[d] = "APPLYING"
               /\ pc[d] = "outcome" => got[d] \in {"APPLIED", "FAILED"}

\* While the startup reconciles, every pass at work belongs to this process.
MineCovers == rpc # "done" => \A d \in Dispatcher : pc[d] # "idle" => cur[d] \in mine

\* The rows the reconciliation has read and not yet written.
Pending == {r \in Row : r \in rtodo \/ (rpc \in {"write", "record"} /\ r = rcur)}

\* No one else writes them: what it read is still so, unless this process
\* claimed the row, and then the row is still no one's to take.  It holds
\* back an outcome to write only from a row that has none, or has this one.
Untouched ==
    /\ \A r \in Pending \ mine : st[r] = "APPLYING"
    /\ \A r \in Pending \ yanked : st[r] \in Taken
    /\ rpc \in {"write", "record"} => rcur \notin rtodo
    /\ rpc = "done" => rtodo = {}
    /\ rpc = "record" /\ rcur \notin yanked =>
         rgot = "APPLIED" \/ (rgot = "FAILED" /\ st[rcur] = "FAILED")

Owned == TypeOK /\ Held /\ Noting /\ MineCovers /\ Untouched /\ ApplyExclusive

\* Past the write of the intent the intent is in the log.
Unlogged == {"idle", "claimed", "intent"}
Intended == \A d \in Dispatcher : pc[d] \notin Unlogged => cur[d] \in intent

\* A durable cache holds the order of every row that sent one.
Remembered == Durable => \A r \in Row : placed[r] > 0 => r \in orders

\* Without one no row returns to ARMED, so a row sends before it is left.
BeforeSending == {"claimed", "intent", "apply", "release"}
Forgotten ==
    ~Durable =>
        /\ reverted = {} /\ rtodo = {} /\ rpc \in {"read", "done"}
        /\ \A r \in Row : st[r] \in {"none", "ARMED"} => placed[r] = 0
        /\ \A d \in Dispatcher : pc[d] \in BeforeSending => placed[cur[d]] = 0

Sending == Owned /\ Intended /\ IntentFirst /\ Remembered /\ Forgotten /\ EffectOnce

-----------------------------------------------------------------------------
(* Who holds a row. *)

\* Two passes at work on one row, said of each of them.
LEMMA ExclusiveAlike ==
  ASSUME TypeOK
  PROVE  ApplyExclusive <=>
           \A d, e \in Dispatcher :
             d # e /\ pc[d] # "idle" /\ pc[e] # "idle" /\ cur[d] = cur[e] => cur[d] \in yanked
<1>1. \A d \in Dispatcher : pc[d] # "idle" <=> pc[d] \in Busy
  BY DEF TypeOK, PassesOK, Busy
<1>2. \A d \in Dispatcher : IF pc[d] \in Busy THEN cur[d] # NoRow ELSE cur[d] = NoRow
  BY DEF TypeOK, PassesOK, Existing, Row, NoRow
<1> QED BY <1>1, <1>2 DEF ApplyExclusive

\* The same of the next state, in the direction a step needs.
LEMMA ExclusiveNext ==
  ASSUME TypeOK',
         \A d, e \in Dispatcher :
           d # e /\ pc'[d] # "idle" /\ pc'[e] # "idle" /\ cur'[d] = cur'[e] => cur'[d] \in yanked'
  PROVE  ApplyExclusive'
<1>1. \A d \in Dispatcher : pc'[d] # "idle" <=> pc'[d] \in Busy
  BY DEF TypeOK, PassesOK, Busy
<1>2. \A d \in Dispatcher : IF pc'[d] \in Busy THEN cur'[d] # NoRow ELSE cur'[d] = NoRow
  BY DEF TypeOK, PassesOK, Existing, Row, NoRow
<1> QED BY <1>1, <1>2 DEF ApplyExclusive

LEMMA OwnedInit == Init => Owned
<1> SUFFICES ASSUME Init PROVE Owned
  OBVIOUS
<1>1. TypeOK
  BY TypeInit
<1>2. Held /\ Noting /\ MineCovers /\ Untouched
  BY DEF Init, Held, Noting, MineCovers, Untouched, Pending
<1>3. ApplyExclusive
  BY <1>1, ExclusiveAlike DEF Init
<1> QED BY <1>1, <1>2, <1>3 DEF Owned

\* Steps after which each pass is idle or still holds its row and what it is
\* about to write, and no row that is taken changes: most steps of the passes,
\* the operator and the venue.
LEMMA OwnedMoves ==
  ASSUME Owned, TypeOK',
         \A r \in Row : st'[r] = st[r] \/ st[r] \notin Taken,
         \A d \in Dispatcher : pc'[d] = "idle" \/ (pc[d] # "idle" /\ cur'[d] = cur[d]),
         \A d \in Dispatcher : pc'[d] \in Noted => pc'[d] = pc[d] /\ got'[d] = got[d],
         UNCHANGED <<rpc, rcur, rtodo, rgot, mine, yanked, twice>>
  PROVE  Owned'
<1>1. \A d \in Dispatcher : pc[d] # "idle" => cur[d] \in Row
  BY AtWork DEF Owned
<1>2. Held'
  BY <1>1 DEF Owned, Held, Taken
<1>3. MineCovers'
  BY DEF Owned, MineCovers
<1>4. Noting'
  BY DEF Owned, Noting, Noted
<1>5. Untouched'
  <2>1. Pending' = Pending /\ Pending \subseteq Row
    BY DEF Pending
  <2>2. \A r \in Pending \ mine : st'[r] = "APPLYING"
    BY <2>1 DEF Owned, Untouched, Taken
  <2>3. \A r \in Pending \ yanked : st'[r] \in Taken
    BY <2>1 DEF Owned, Untouched
  <2>4. rpc = "record" /\ rcur \notin yanked =>
          rgot = "APPLIED" \/ (rgot = "FAILED" /\ st'[rcur] = "FAILED")
    BY DEF Owned, Untouched, Taken, TypeOK, StartupOK, Existing
  <2> QED BY <2>1, <2>2, <2>3, <2>4 DEF Owned, Untouched
<1>6. ApplyExclusive'
  BY ExclusiveAlike, ExclusiveNext DEF Owned
<1> QED BY <1>2, <1>3, <1>4, <1>5, <1>6 DEF Owned

\* A claim: the row was ARMED, so no pass held it and the reconciliation had
\* not read it, unless it has been yanked.
LEMMA OwnedClaim ==
  ASSUME Owned, TypeOK', NEW d \in Dispatcher, NEW r \in Row, Claim(d, r)
  PROVE  Owned'
<1>1. st[r] = "ARMED" /\ st' = [st EXCEPT ![r] = "APPLYING"] /\ st \in [Row -> State]
  BY DEF Claim, Claimable, Owned, TypeOK, RowsOK
<1>2. /\ pc' = [pc EXCEPT ![d] = "claimed"] /\ cur' = [cur EXCEPT ![d] = r]
      /\ DOMAIN pc = Dispatcher /\ DOMAIN cur = Dispatcher
      /\ mine \subseteq mine' /\ (rpc # "done" => mine' = mine \cup {r})
      /\ UNCHANGED <<rpc, rcur, rtodo, rgot, got, yanked, twice>>
  BY DEF Claim, Go, startup, Owned, TypeOK, PassesOK
<1>3. \A e \in Dispatcher : pc[e] # "idle" => cur[e] \in Row /\ (cur[e] = r => r \in yanked)
  BY <1>1, AtWork DEF Owned, Held
<1>4. Held' /\ Noting'
  BY <1>1, <1>2, <1>3 DEF Owned, Held, Noting
<1>5. MineCovers'
  BY <1>2 DEF Owned, MineCovers
<1>6. Untouched'
  <2>1. Pending' = Pending /\ Pending \subseteq Row
    BY <1>2 DEF Pending
  <2>2. r \in Pending => r \in yanked
    BY <1>1 DEF Owned, Untouched, Taken
  <2>3. rpc # "done" => r \in mine'
    BY <1>2
  <2>4. rpc = "done" => Pending = {}
    BY DEF Pending, Owned, Untouched
  <2>5. \A q \in Pending \ mine' : st'[q] = "APPLYING"
    BY <1>1, <1>2, <2>1, <2>3, <2>4 DEF Owned, Untouched
  <2>6. \A q \in Pending \ yanked : st'[q] \in Taken
    BY <1>1, <2>1, <2>2 DEF Owned, Untouched
  <2>7. rpc = "record" /\ rcur \notin yanked =>
          rgot = "APPLIED" \/ (rgot = "FAILED" /\ st'[rcur] = "FAILED")
    BY <1>1 DEF Owned, Untouched, TypeOK, StartupOK, Existing
  <2> QED BY <1>2, <2>1, <2>5, <2>6, <2>7 DEF Owned, Untouched
<1>7. ApplyExclusive'
  BY <1>2, <1>3, ExclusiveAlike, ExclusiveNext DEF Owned
<1> QED BY <1>4, <1>5, <1>6, <1>7 DEF Owned

\* A pass reads the row it holds, to record an event of it.
LEMMA OwnedReads ==
  ASSUME Owned, TypeOK', NEW d \in Dispatcher, ReadForIntent(d) \/ ReadForOutcome(d)
  PROVE  Owned'
<1>1. /\ pc[d] # "idle" /\ DOMAIN pc = Dispatcher /\ got \in [Dispatcher -> State]
      /\ UNCHANGED <<st, cur, rpc, rcur, rtodo, rgot, mine, yanked, twice>>
  BY DEF ReadForIntent, ReadForOutcome, ReadsState, rows, startup, history, Owned, TypeOK, PassesOK
<1>2. \/ Go(d, "intent") /\ got' = [got EXCEPT ![d] = NextState(st[cur[d]], "INTENT_RECORDED")]
      \/ /\ Go(d, "outcome")
         /\ \E ev \in {"APPLIED", "FAILED"} : got' = [got EXCEPT ![d] = NextState(st[cur[d]], ev)]
  BY DEF ReadForIntent, ReadForOutcome, ReadsState
<1>3. \A e \in Dispatcher : e # d => pc'[e] = pc[e] /\ got'[e] = got[e]
  BY <1>1, <1>2 DEF Go
<1>4. \A e \in Dispatcher : pc'[e] = "idle" \/ pc[e] # "idle"
  BY <1>1, <1>3
<1>5. Held' /\ MineCovers'
  BY <1>1, <1>4 DEF Owned, Held, MineCovers
<1>6. Noting'
  <2>1. cur[d] \notin yanked =>
          /\ pc'[d] = "intent" =>
               /\ got'[d] \in {"APPLYING", "APPLIED"}
               /\ cur[d] \notin twice => got'[d] = "APPLYING"
          /\ pc'[d] = "outcome" => got'[d] \in {"APPLIED", "FAILED"}
    BY <1>1, <1>2 DEF Owned, Held, NextState, Go
  <2> QED BY <1>1, <1>3, <2>1 DEF Owned, Noting
<1>7. Untouched'
  BY <1>1 DEF Owned, Untouched, Pending
<1>8. ApplyExclusive'
  BY <1>1, <1>4, ExclusiveAlike, ExclusiveNext DEF Owned
<1> QED BY <1>5, <1>6, <1>7, <1>8 DEF Owned

\* What a pass writes, and the row it writes to.
LEMMA PassWrites ==
  ASSUME Owned, NEW d \in Dispatcher, RecordIntent(d) \/ RecordOutcome(d)
  PROVE  /\ pc[d] \in Noted /\ cur[d] \in Row /\ cur[d] \in Existing
         /\ st' = [st EXCEPT ![cur[d]] = got[d]] /\ got[d] \in State \ {"none"}
         /\ cur[d] \notin yanked => got[d] \in Taken /\ st[cur[d]] \in {"APPLYING", "APPLIED"}
         /\ cur[d] \notin yanked /\ cur[d] \notin twice => st[cur[d]] = "APPLYING"
<1>1. pc[d] \in Noted /\ pc[d] # "idle" /\ st' = [st EXCEPT ![cur[d]] = got[d]]
  BY DEF RecordIntent, RecordOutcome, WriteState, Noted
<1>2. cur[d] \in Row /\ cur[d] \in Existing
  BY <1>1, AtWork DEF Owned
<1>3. got[d] \in State \ {"none"}
  BY <1>1 DEF Owned, TypeOK, PassesOK, Noted
<1> QED BY <1>1, <1>2, <1>3 DEF Owned, Held, Noting, Noted, Taken

\* A pass records an event of the row it holds.
LEMMA OwnedRecords ==
  ASSUME Owned, TypeOK', NEW d \in Dispatcher, RecordIntent(d) \/ RecordOutcome(d)
  PROVE  Owned'
<1> DEFINE c == cur[d]
<1>0. /\ pc[d] \in Noted /\ pc[d] # "idle" /\ c \in Row
      /\ st' = [st EXCEPT ![c] = got[d]]
      /\ c \notin yanked => got[d] \in Taken /\ st[c] \in {"APPLYING", "APPLIED"}
  BY PassWrites DEF Noted
<1>1. /\ DOMAIN pc = Dispatcher /\ DOMAIN cur = Dispatcher /\ DOMAIN got = Dispatcher
      /\ st \in [Row -> State]
      /\ UNCHANGED <<rpc, rcur, rtodo, rgot, mine, yanked, twice>>
      /\ \A e \in Dispatcher : pc[e] # "idle" => cur[e] \in Row
  BY AtWork DEF Owned, TypeOK, PassesOK, RowsOK, RecordIntent, RecordOutcome, startup, history
<1>2. \A r \in Row : st'[r] = IF r = c THEN got[d] ELSE st[r]
  BY <1>0, <1>1
<1>3. \A e \in Dispatcher : pc'[e] = "idle" \/ (pc[e] # "idle" /\ cur'[e] = cur[e])
  BY <1>0, <1>1 DEF Go, Release, RecordIntent, RecordOutcome
<1>4. \A e \in Dispatcher : e # d => pc'[e] = pc[e] /\ cur'[e] = cur[e] /\ got'[e] = got[e]
  BY <1>1 DEF Go, Release, RecordIntent, RecordOutcome
<1>5. pc'[d] = "idle" \/ (pc[d] = "intent" /\ pc'[d] = "apply")
  BY <1>1 DEF Go, Release, RecordIntent, RecordOutcome
<1>6. \A e \in Dispatcher : pc'[e] # "idle" /\ cur[e] = c /\ c \notin yanked => e = d
  BY <1>0, <1>4, ExclusiveAlike DEF Owned
<1>7. Held'
  <2>1. pc[d] = "intent" /\ c \notin yanked =>
          got[d] \in {"APPLYING", "APPLIED"} /\ (c \notin twice => got[d] = "APPLYING")
    BY DEF Owned, Noting
  <2>2. ASSUME NEW e \in Dispatcher, pc'[e] # "idle", cur'[e] \notin yanked
        PROVE  /\ st'[cur'[e]] \in {"APPLYING", "APPLIED"}
               /\ cur'[e] \notin twice => st'[cur'[e]] = "APPLYING"
    <3>1. CASE cur[e] = c
      BY <2>1, <2>2, <3>1, <1>0, <1>2, <1>3, <1>5, <1>6
    <3>2. CASE cur[e] # c
      BY <2>2, <3>2, <1>1, <1>2, <1>3 DEF Owned, Held
    <3> QED BY <3>1, <3>2
  <2> QED BY <2>2, <1>1 DEF Held
<1>8. MineCovers'
  BY <1>1, <1>3 DEF Owned, MineCovers
<1>9. Noting'
  BY <1>1, <1>4, <1>5 DEF Owned, Noting
<1>10. Untouched'
  <2>1. Pending' = Pending /\ Pending \subseteq Row
    BY <1>1 DEF Pending
  <2>2. c \in Pending => c \in mine
    BY <1>0 DEF Owned, Untouched, Pending, MineCovers
  <2>3. \A r \in Pending \ mine : st'[r] = "APPLYING"
    BY <2>1, <2>2, <1>2 DEF Owned, Untouched
  <2>4. \A r \in Pending \ yanked : st'[r] \in Taken
    BY <2>1, <1>0, <1>2 DEF Owned, Untouched
  <2>5. rpc = "record" /\ rcur \notin yanked =>
          rgot = "APPLIED" \/ (rgot = "FAILED" /\ st'[rcur] = "FAILED")
    BY <1>0, <1>2 DEF Owned, Untouched, TypeOK, StartupOK, Existing
  <2> QED BY <1>1, <2>1, <2>3, <2>4, <2>5 DEF Owned, Untouched
<1>11. ApplyExclusive'
  BY <1>1, <1>3, ExclusiveAlike, ExclusiveNext DEF Owned
<1> QED BY <1>7, <1>8, <1>9, <1>10, <1>11 DEF Owned

\* A crash leaves no pass at work, a restart begins with none.
LEMMA OwnedRestart ==
  ASSUME Owned, TypeOK', Crash \/ Restart
  PROVE  Owned'
<1>1. \A d \in Dispatcher : pc'[d] = "idle"
  BY DEF Crash, Restart, passes, Owned, TypeOK, DownOK
<1>2. rtodo' = {} /\ rpc' \in {"read", "done"}
  BY DEF Crash, Restart, Owned, TypeOK, DownOK, Untouched
<1>3. Held' /\ Noting' /\ MineCovers' /\ Untouched'
  BY <1>1, <1>2 DEF Held, Noting, MineCovers, Untouched, Pending
<1>4. ApplyExclusive'
  BY <1>1, ExclusiveNext
<1> QED BY <1>3, <1>4 DEF Owned

\* What the reconciliation writes, and the row it writes to.
LEMMA ReconcileWrites ==
  ASSUME Owned, ReconcileRecords \/ ReconcileReverts
  PROVE  /\ rpc \in {"write", "record"} /\ rcur \in Row /\ rcur \in Existing /\ rcur \notin rtodo
         /\ rcur \notin mine => st[rcur] = "APPLYING"
         /\ ReconcileRecords => /\ st' = [st EXCEPT ![rcur] = rgot] /\ rgot \in State \ {"none"}
                                /\ rcur \notin yanked => rgot \in Taken
         /\ ReconcileReverts => st' = [st EXCEPT ![rcur] = "ARMED"]
<1>1. rpc \in {"write", "record"} /\ (ReconcileRecords => rpc = "record")
  BY DEF ReconcileRecords, ReconcileReverts
<1>2. rcur \in Row /\ rcur \in Existing
  BY <1>1 DEF Owned, TypeOK, StartupOK, Existing
<1>3. rcur \notin mine => st[rcur] = "APPLYING"
  BY <1>1, <1>2 DEF Owned, Untouched, Pending
<1> QED BY <1>1, <1>2, <1>3
        DEF ReconcileRecords, ReconcileReverts, WriteState, Owned, Untouched, TypeOK, StartupOK,
           Taken

\* The reconciliation: what it has read stays so until it writes, unless this
\* process claimed the row, and then the row counts as yanked or as given an
\* outcome twice.
LEMMA OwnedReconcile ==
  ASSUME Owned, TypeOK', Reconcile
  PROVE  Owned'
<1>0. UNCHANGED <<pc, cur, got>> /\ yanked \subseteq yanked' /\ twice \subseteq twice'
  BY DEF Reconcile, ReconcileKind, ReconcileLook, ReconcileReads, ReconcileRecords,
         ReconcileReverts, ReconcileFails, ReconcileEnds, passes, history
<1>1. ApplyExclusive' /\ Noting'
  <2>1. ApplyExclusive'
    BY <1>0, ExclusiveAlike, ExclusiveNext DEF Owned
  <2>2. Noting'
    BY <1>0 DEF Owned, Noting
  <2> QED BY <2>1, <2>2
<1>2. ASSUME UNCHANGED <<st, mine, yanked, twice>> PROVE Held'
  BY <1>0, <1>2 DEF Owned, Held
<1>3. CASE ReconcileKind
  <2>1. UNCHANGED <<st, rpc, rcur, mine, yanked, twice>> /\ rpc = "read" /\ rtodo = {}
        /\ (rtodo' = rtodo \/ rtodo' = Reconcilable(Head(rleft)))
    BY <1>3 DEF ReconcileKind, rows, history
  <2>2. \A r \in rtodo' : st[r] = "APPLYING"
    BY <2>1 DEF Reconcilable, OfKind
  <2>3. MineCovers' /\ Untouched'
    BY <1>0, <2>1, <2>2 DEF Owned, MineCovers, Untouched, Pending, Taken
  <2> QED BY <1>1, <1>2, <2>1, <2>3 DEF Owned
<1>4. ASSUME NEW r \in Row, ReconcileLook(r) PROVE Owned'
  <2>1. UNCHANGED <<st, mine, yanked, twice>> /\ rpc = "read" /\ rpc' = "write" /\ r \in rtodo
        /\ rtodo' = rtodo \ {r} /\ rcur' = r
    BY <1>4 DEF ReconcileLook, rows, history
  <2>2. MineCovers' /\ Untouched'
    BY <1>0, <2>1 DEF Owned, MineCovers, Untouched, Pending
  <2> QED BY <1>1, <1>2, <2>1, <2>2 DEF Owned
<1>5. CASE ReconcileReads
  <2>1. UNCHANGED <<st, mine, yanked, twice, rtodo, rcur>> /\ rpc = "write" /\ rpc' = "record"
        /\ rgot' = NextState(st[rcur], "APPLIED") /\ rcur \in Row
    BY <1>5 DEF ReconcileReads, rows, history, Owned, TypeOK, StartupOK, Existing
  <2>2. rcur \notin yanked => rgot' = "APPLIED" \/ (rgot' = "FAILED" /\ st[rcur] = "FAILED")
    <3>1. rcur \notin yanked => st[rcur] \in Taken
      BY <2>1 DEF Owned, Untouched, Pending
    <3> QED BY <2>1, <3>1 DEF NextState, Taken
  <2>3. Pending' = Pending
    BY <2>1 DEF Pending
  <2>4. MineCovers' /\ Untouched'
    BY <1>0, <2>1, <2>2, <2>3 DEF Owned, MineCovers, Untouched
  <2> QED BY <1>1, <1>2, <2>1, <2>4 DEF Owned
<1>6. CASE ReconcileRecords \/ ReconcileReverts
  <2>1. /\ rpc \in {"write", "record"} /\ rpc' = "read" /\ rcur \in Row /\ rcur \notin rtodo
        /\ UNCHANGED <<mine, rtodo>> /\ st \in [Row -> State]
    BY <1>6, ReconcileWrites DEF ReconcileRecords, ReconcileReverts, Owned, TypeOK, RowsOK
  <2>2. \A r \in Row : r # rcur => st'[r] = st[r]
    BY <1>6, <2>1, ReconcileWrites
  <2>3. \A d \in Dispatcher : pc[d] # "idle" => cur[d] \in mine /\ cur[d] \in Row
    BY <2>1, AtWork DEF Owned, MineCovers
  <2>4. Held'
    <3>1. CASE ReconcileRecords
      <4>1. st'[rcur] = rgot /\ rpc = "record"
            /\ twice' = twice \cup (mine \cap {rcur}) /\ yanked' = yanked
        BY <2>1, <3>1, ReconcileWrites DEF ReconcileRecords
      <4>2. ASSUME NEW d \in Dispatcher, pc[d] # "idle", cur[d] = rcur, rcur \notin yanked
            PROVE  st'[rcur] \in {"APPLYING", "APPLIED"} /\ rcur \in twice'
        BY <4>1, <4>2, <2>3 DEF Owned, Held, Untouched
      <4> QED BY <4>1, <4>2, <1>0, <2>2, <2>3 DEF Owned, Held
    <3>2. CASE ReconcileReverts
      <4>1. yanked' = yanked \cup (mine \cap {rcur}) /\ twice' = twice
        BY <3>2 DEF ReconcileReverts
      <4> QED BY <4>1, <1>0, <2>2, <2>3 DEF Owned, Held
    <3> QED BY <1>6, <3>1, <3>2
  <2>5. Pending' = rtodo /\ rtodo \subseteq Pending /\ rcur \notin Pending'
    <3>1. rtodo \subseteq Row
      BY DEF Owned, TypeOK, StartupOK, Existing
    <3> QED BY <2>1, <3>1 DEF Pending
  <2>6. MineCovers' /\ Untouched'
    BY <1>0, <2>1, <2>2, <2>5 DEF Owned, MineCovers, Untouched, Pending
  <2> QED BY <1>1, <2>4, <2>6 DEF Owned
<1>7. CASE ReconcileFails \/ ReconcileEnds
  <2>1. UNCHANGED <<st, yanked, twice>> /\ rtodo' = {} /\ rpc' \in {"read", "done"}
        /\ (rpc' # "done" => rpc # "done" /\ mine' = mine)
    BY <1>7 DEF ReconcileFails, ReconcileEnds, rows, history
  <2>2. MineCovers' /\ Untouched' /\ Held'
    BY <1>0, <2>1 DEF Owned, MineCovers, Untouched, Pending, Held
  <2> QED BY <1>1, <2>2 DEF Owned
<1> QED BY <1>3, <1>4, <1>5, <1>6, <1>7 DEF Reconcile

\* Attaching a row and turning a chain off change no row that is APPLYING.
LEMMA ArmedOnly ==
  ASSUME TypeOK, \/ \E r \in Row, m \in MgrType : AttachRow(r, m)
                 \/ OffCommits
  PROVE  \A r \in Row : st'[r] = st[r] \/ st[r] \notin Taken
<1>0. st \in [Row -> State]
  BY DEF TypeOK, RowsOK
<1>1. CASE \E r \in Row, m \in MgrType : AttachRow(r, m)
  BY <1>0, <1>1 DEF AttachRow, Fresh, Exists, Taken
<1>2. CASE OffCommits
  BY <1>0, <1>2 DEF OffCommits, Cancelable, Taken
<1> QED BY <1>1, <1>2

\* Every step of a pass at work but those that record an event.
LEMMA WorkMoves ==
  ASSUME TypeOK, NEW d \in Dispatcher, Work(d), ~RecordIntent(d), ~RecordOutcome(d),
         ~ReadForIntent(d), ~ReadForOutcome(d)
  PROVE  /\ \A r \in Row : st'[r] = st[r] \/ st[r] \notin Taken
         /\ \A e \in Dispatcher : pc'[e] = "idle" \/ (pc[e] # "idle" /\ cur'[e] = cur[e])
         /\ \A e \in Dispatcher : pc'[e] \in Noted => pc'[e] = pc[e] /\ got'[e] = got[e]
         /\ UNCHANGED <<rpc, rcur, rtodo, rgot, mine, yanked, twice>>
<1>0. DOMAIN pc = Dispatcher /\ DOMAIN cur = Dispatcher /\ DOMAIN got = Dispatcher
  BY DEF TypeOK, PassesOK
<1>1. pc[d] # "idle" /\ UNCHANGED <<rpc, rcur, rtodo, rgot, mine, yanked, twice>>
  BY DEF Work, IntentFails, OutcomeFails, ApplyWatch, RearmDeclines, RearmSubmits,
         FlattenDeclines, FlattenReleases, FlattenSubmits, CheckOff, HandOffFails, HandOff,
         Decides, Applies, startup, history
<1>2. Release(d) \/ \E l \in Busy \ Noted : Go(d, l) /\ UNCHANGED <<cur, got>>
  BY DEF Work, IntentFails, OutcomeFails, ApplyWatch, RearmDeclines, RearmSubmits,
         FlattenDeclines, FlattenReleases, FlattenSubmits, CheckOff, HandOffFails, HandOff,
         Decides, Busy, Stage, Noted
<1>3. /\ \A e \in Dispatcher : pc'[e] = "idle" \/ (pc[e] # "idle" /\ cur'[e] = cur[e])
      /\ \A e \in Dispatcher : pc'[e] \in Noted => pc'[e] = pc[e] /\ got'[e] = got[e]
  BY <1>0, <1>1, <1>2 DEF Release, Go, Noted
<1>4. CASE \E r \in Row : HandOff(d, r)
  <2>1. PICK r \in Row : AttachRow(r, Successor(cur[d]))
    BY <1>4 DEF HandOff
  <2>2. st[r] = "none" /\ st' = [st EXCEPT ![r] = "ARMED"] /\ st \in [Row -> State]
    BY <2>1 DEF AttachRow, Fresh, Exists, TypeOK, RowsOK
  <2>3. \A q \in Row : st'[q] = st[q] \/ st[q] \notin Taken
    BY <2>2 DEF Taken
  <2> QED BY <2>3, <1>1, <1>3
<1>5. CASE ~\E r \in Row : HandOff(d, r)
  <2>1. st' = st
    BY <1>5 DEF Work, IntentFails, OutcomeFails, ApplyWatch, RearmDeclines, RearmSubmits,
           FlattenDeclines, FlattenReleases, FlattenSubmits, CheckOff, HandOffFails,
           Decides, rows
  <2> QED BY <2>1, <1>1, <1>3
<1> QED BY <1>4, <1>5

LEMMA OwnedStep ==
  ASSUME Owned, [Next]_vars
  PROVE  Owned'
<1>0. TypeOK /\ TypeOK'
  BY TypeStep DEF Owned
<1>1. CASE Operator
  <2>1. /\ UNCHANGED <<pc, cur, got, rpc, rcur, rtodo, rgot, mine, yanked, twice>>
        /\ \A r \in Row : st'[r] = st[r] \/ st[r] \notin Taken
    <3>1. UNCHANGED <<pc, cur, got, rpc, rcur, rtodo, rgot, mine, yanked, twice>>
      BY <1>1 DEF Operator, Attach, OffBegins, OffCommits, OffFails, passes, startup, history
    <3>2. ASSUME NEW r \in Row, NEW k \in Kind, NEW o \in Owner, Attach(r, k, o)
          PROVE  \A q \in Row : st'[q] = st[q] \/ st[q] \notin Taken
      <4> DEFINE m == [kind |-> k, owner |-> o, cycle |-> cycle, count |-> 0, parent |-> NoRow]
      <4>1. m \in MgrType
        BY <1>0 DEF MgrType, TypeOK, MarketOK
      <4>2. AttachRow(r, m)
        BY <3>2 DEF Attach
      <4> HIDE DEF m
      <4> QED BY <4>1, <4>2, <1>0, ArmedOnly
    <3>3. CASE (\E r \in Row : OffBegins(r)) \/ OffFails
      BY <3>1, <3>3 DEF OffBegins, OffFails, rows
    <3>4. CASE OffCommits
      BY <3>1, <3>4, <1>0, ArmedOnly
    <3>5. (\E r \in Row : OffBegins(r)) \/ OffFails \/ OffCommits
          \/ \E r \in Row, k \in Kind, o \in Owner : Attach(r, k, o)
      BY <1>1 DEF Operator
    <3> QED BY <3>1, <3>2, <3>3, <3>4, <3>5
  <2>2. \A d \in Dispatcher : pc'[d] = "idle" \/ (pc[d] # "idle" /\ cur'[d] = cur[d])
    BY <2>1
  <2> QED BY <2>1, <2>2, <1>0, OwnedMoves
<1>2. CASE Venue \/ SeedLands \/ UNCHANGED vars
  <2>1. UNCHANGED <<st, pc, cur, got, rpc, rcur, rtodo, rgot, mine, yanked, twice>>
    BY <1>2 DEF Venue, PositionCloses, ReentryFills, FlattenFills, Expires, SeedLands, vars,
       rows, passes, startup, history
  <2> QED BY <2>1, <1>0, OwnedMoves
<1>3. ASSUME NEW d \in Dispatcher, Sweep(d) PROVE Owned'
  <2>1. ASSUME NEW k \in Kind, Tick(d, k) PROVE Owned'
    <3>1. UNCHANGED <<st, pc, cur, got, rpc, rcur, rtodo, rgot, mine, yanked, twice>>
      BY <2>1 DEF Tick, rows, startup, history
    <3> QED BY <3>1, <1>0, OwnedMoves
  <2>2. ASSUME NEW r \in Row, PassOver(d, r) PROVE Owned'
    <3>1. UNCHANGED <<st, pc, cur, got, rpc, rcur, rtodo, rgot, mine, yanked, twice>>
      BY <2>2 DEF PassOver, rows, startup, history
    <3> QED BY <3>1, <1>0, OwnedMoves
  <2> QED BY <2>1, <2>2, <1>0, <1>3, OwnedClaim DEF Sweep
<1>4. ASSUME NEW d \in Dispatcher, Work(d) PROVE Owned'
  <2>1. CASE RecordIntent(d) \/ RecordOutcome(d)
    BY <2>1, <1>0, OwnedRecords
  <2>2. CASE ReadForIntent(d) \/ ReadForOutcome(d)
    BY <2>2, <1>0, OwnedReads
  <2> QED BY <2>1, <2>2, <1>0, <1>4, WorkMoves, OwnedMoves
<1> QED BY <1>0, <1>1, <1>2, <1>3, <1>4, OwnedRestart, OwnedReconcile DEF Next

\* Two passes never apply one row, whatever their number and however they
\* interleave with OFF, faults, crashes and the startup, unless the startup
\* reconciliation took the row back from the pass that held it (managers.claim).
THEOREM OnePassPerRow == Spec => []ApplyExclusive
<1>1. Owned /\ [Next]_vars => Owned'
  BY OwnedStep
<1>2. Owned => ApplyExclusive
  BY DEF Owned
<1> QED BY OwnedInit, <1>1, <1>2, PTL DEF Spec

-----------------------------------------------------------------------------
(* Outcomes. *)

\* A row that has an outcome keeps it, unless it was yanked, or given one
\* by the reconciliation while a pass held it.
LEMMA OutcomeStep ==
  ASSUME Owned, [Next]_vars, NEW r \in Row,
         st[r] \in {"APPLIED", "FAILED", "CANCELLED"}, r \notin yanked' \cup twice'
  PROVE  st'[r] = st[r]
<1>0. TypeOK /\ st \in [Row -> State]
  BY DEF Owned, TypeOK, RowsOK
<1>3. ASSUME NEW q \in Row, NEW m, AttachRow(q, m) PROVE st'[r] = st[r]
  BY <1>0, <1>3 DEF AttachRow, Fresh, Exists
<1>4. CASE Operator
  <2>1. CASE OffCommits
    BY <2>1, <1>0 DEF OffCommits, Cancelable
  <2> QED BY <2>1, <1>3, <1>4 DEF Operator, Attach, OffBegins, OffFails, rows
<1>5. CASE Venue \/ SeedLands \/ Crash \/ Restart \/ UNCHANGED vars
  BY <1>5 DEF Venue, PositionCloses, ReentryFills, FlattenFills, Expires, SeedLands, Crash,
     Restart, vars, rows
<1>6. ASSUME NEW d \in Dispatcher, Sweep(d) PROVE st'[r] = st[r]
  <2>1. ASSUME NEW q \in Row, Claim(d, q) PROVE st'[r] = st[r]
    BY <2>1, <1>0 DEF Claim, Claimable
  <2> QED BY <2>1, <1>6 DEF Sweep, Tick, PassOver, rows
<1>7. ASSUME NEW d \in Dispatcher, Work(d) PROVE st'[r] = st[r]
  <2>1. CASE RecordIntent(d) \/ RecordOutcome(d)
    <3>1. UNCHANGED <<yanked, twice>>
      BY <2>1 DEF RecordIntent, RecordOutcome, history
    <3> QED BY <3>1, <2>1, <1>0, PassWrites
  <2>2. CASE \E q \in Row : HandOff(d, q)
    BY <2>2, <1>3 DEF HandOff
  <2> QED BY <2>1, <2>2, <1>7
      DEF Work, ReadForIntent, ReadForOutcome, ReadsState, IntentFails, OutcomeFails, ApplyWatch,
         RearmDeclines, RearmSubmits,
          FlattenDeclines, FlattenReleases, FlattenSubmits, CheckOff, HandOffFails, Decides, rows
<1>8. CASE Reconcile
  <2>1. CASE ReconcileRecords \/ ReconcileReverts
    <3>1. rcur \in mine => rcur \in yanked' \cup twice'
      BY <2>1 DEF ReconcileRecords, ReconcileReverts
    <3> QED BY <3>1, <2>1, <1>0, ReconcileWrites
  <2> QED BY <2>1, <1>8 DEF Reconcile, ReconcileKind, ReconcileLook, ReconcileReads,
          ReconcileFails, ReconcileEnds, rows
<1> QED BY <1>4, <1>5, <1>6, <1>7, <1>8 DEF Next

\* An outcome is final: no claim, OFF, event or reconciliation moves a row
\* out of it (next_state).  The exceptions are the rows the reconciliation took
\* back from the pass that held them, and those it gave an outcome while a pass
\* held them: record_event writes what it read, not what it finds.
THEOREM OutcomesAreFinal == Spec => TerminalStays
<1>1. Owned /\ [Next]_vars => Owned'
  BY OwnedStep
<1>2. Owned /\ [Next]_vars =>
        [\A r \in Row : st[r] \in {"APPLIED", "FAILED", "CANCELLED"} /\ r \notin yanked' \cup twice'
            => st'[r] = st[r]]_vars
  BY OutcomeStep
<1> QED BY OwnedInit, <1>1, <1>2, PTL DEF Spec, TerminalStays

-----------------------------------------------------------------------------
(* What is sent. *)

LEMMA SendingInit == Init => Sending
<1> SUFFICES ASSUME Init PROVE Sending
  OBVIOUS
<1>1. Owned
  BY OwnedInit
<1>2. Intended /\ IntentFirst /\ Remembered /\ EffectOnce
  BY DEF Init, Intended, IntentFirst, Remembered, EffectOnce, Unlogged
<1>3. Forgotten
  BY DEF Init, Forgotten, BeforeSending
<1> QED BY <1>1, <1>2, <1>3 DEF Sending

\* What every step that sends nothing does: the log and a durable cache keep
\* what they have, and without one nothing is reverted, no row gets back to
\* ARMED and a pass is before its sending only with a row it held, or that
\* was ARMED.
SendsNothing ==
    /\ placed' = placed /\ intent \subseteq intent'
    /\ Durable => orders \subseteq orders'
    /\ \A d \in Dispatcher : pc'[d] \notin Unlogged =>
         cur'[d] \in intent' \/ (pc[d] \notin Unlogged /\ cur'[d] = cur[d])
    /\ ~Durable =>
         /\ reverted' = {} /\ rtodo' = {} /\ rpc' \in {"read", "done"}
         /\ \A r \in Row : st'[r] \in {"none", "ARMED"} => st[r] \in {"none", "ARMED"}
         /\ \A d \in Dispatcher : pc'[d] \in BeforeSending =>
              \/ pc[d] \in BeforeSending /\ cur'[d] = cur[d]
              \/ cur'[d] \in Row /\ st[cur'[d]] = "ARMED"

LEMMA SendingKept ==
  ASSUME Sending, Owned', SendsNothing
  PROVE  Sending'
<1>1. Intended'
  BY DEF Sending, Intended, SendsNothing
<1>2. IntentFirst' /\ EffectOnce'
  BY DEF Sending, IntentFirst, EffectOnce, SendsNothing
<1>3. Remembered'
  BY DEF Sending, Remembered, SendsNothing
<1>4. Forgotten'
  BY DEF Sending, Forgotten, SendsNothing
<1> QED BY <1>1, <1>2, <1>3, <1>4 DEF Sending

\* A submit sends the first order of its row: with a durable cache the order
\* id would collide, without one the row has never been taken back.
LEMMA SendingSubmits ==
  ASSUME Sending, Owned', NEW d \in Dispatcher, pc[d] \in {"apply", "release"},
         NEW l \in {"check", "applied"}, Submit(cur[d]), Go(d, l),
         UNCHANGED <<st, intent, cur, reverted, rtodo, rpc>>
  PROVE  Sending'
<1> DEFINE c == cur[d]
<1>0. /\ TypeOK /\ placed \in [Row -> Nat] /\ DOMAIN pc = Dispatcher
      /\ c \in Row /\ c \in intent /\ yanked \subseteq reverted
  BY AtWork DEF Sending, Owned, TypeOK, VenueOK, PassesOK, HistoryOK, Intended, Unlogged
<1>1. /\ orders' = orders \cup {c} /\ c \notin orders
      /\ \A r \in Row : placed'[r] = IF r = c THEN placed[c] + 1 ELSE placed[r]
  BY <1>0 DEF Submit
<1>2. placed[c] = 0
  <2>1. CASE Durable
    BY <2>1, <1>0, <1>1 DEF Sending, Remembered
  <2>2. CASE ~Durable
    BY <2>2 DEF Sending, Forgotten, BeforeSending
  <2> QED BY <2>1, <2>2
<1>3. Intended' /\ IntentFirst'
  BY <1>0, <1>1 DEF Sending, Intended, IntentFirst, Go, Unlogged
<1>4. Remembered' /\ EffectOnce'
  BY <1>0, <1>1, <1>2 DEF Sending, Remembered, EffectOnce
<1>5. ASSUME ~Durable PROVE Forgotten'
  <2>1. yanked = {} /\ st[c] \in {"APPLYING", "APPLIED"}
    BY <1>0, <1>5 DEF Sending, Forgotten, Owned, Held
  <2>2. \A e \in Dispatcher : e # d /\ pc[e] # "idle" => cur[e] # c
    BY <2>1, <1>0, ExclusiveAlike DEF Sending, Owned
  <2>3. \A e \in Dispatcher : pc'[e] \in BeforeSending =>
          e # d /\ pc'[e] = pc[e] /\ pc[e] # "idle" /\ cur[e] \in Row
    BY <1>0, AtWork DEF Go, BeforeSending
  <2> QED BY <1>1, <1>5, <2>1, <2>2, <2>3 DEF Sending, Forgotten
<1> QED BY <1>3, <1>4, <1>5 DEF Sending, Forgotten

\* A step that leaves the log, the orders, the passes at work and the
\* reconciliation alone, and takes no row to ARMED that was not new.
LEMMA SendsNothingQuietly ==
  ASSUME Sending, UNCHANGED <<placed, intent, orders, pc, cur, reverted, rtodo, rpc>>,
         \A r \in Row : st'[r] \in {"none", "ARMED"} => st[r] \in {"none", "ARMED"}
  PROVE  SendsNothing
<1>1. UNCHANGED <<placed, intent, orders, reverted, rtodo, rpc>> /\ pc' = pc /\ cur' = cur
  OBVIOUS
<1>2. ~Durable => reverted = {} /\ rtodo = {} /\ rpc \in {"read", "done"}
  BY DEF Sending, Forgotten
<1> QED BY <1>1, <1>2 DEF SendsNothing

\* Without a durable cache a pass takes no row to ARMED: none was yanked.
LEMMA RecordNotArmed ==
  ASSUME Sending, NEW d \in Dispatcher, RecordIntent(d) \/ RecordOutcome(d), ~Durable
  PROVE  \A r \in Row : st'[r] \in {"none", "ARMED"} => st[r] \in {"none", "ARMED"}
<1>1. cur[d] \notin yanked /\ st \in [Row -> State]
  BY DEF Sending, Forgotten, Owned, TypeOK, HistoryOK, RowsOK
<1> QED BY <1>1, PassWrites DEF Sending, Taken

LEMMA AttachNotArmed ==
  ASSUME TypeOK, NEW q \in Row, NEW m, AttachRow(q, m)
  PROVE  \A r \in Row : st'[r] \in {"none", "ARMED"} => st[r] \in {"none", "ARMED"}
  BY DEF AttachRow, Fresh, Exists, TypeOK, RowsOK

LEMMA OperatorSendsNothing ==
  ASSUME Sending, Operator
  PROVE  SendsNothing
<1>0. TypeOK /\ st \in [Row -> State]
  BY DEF Sending, Owned, TypeOK, RowsOK
<1>1. UNCHANGED <<placed, intent, orders, pc, cur, reverted, rtodo, rpc>>
  BY DEF Operator, Attach, OffBegins, OffCommits, OffFails, rows, venue, passes, startup, history
<1>2. \A r \in Row : st'[r] \in {"none", "ARMED"} => st[r] \in {"none", "ARMED"}
  <2>1. ASSUME NEW r \in Row, NEW k \in Kind, NEW o \in Owner, Attach(r, k, o)
        PROVE  \A q \in Row : st'[q] \in {"none", "ARMED"} => st[q] \in {"none", "ARMED"}
    <3> DEFINE m == [kind |-> k, owner |-> o, cycle |-> cycle, count |-> 0, parent |-> NoRow]
    <3>1. AttachRow(r, m)
      BY <2>1 DEF Attach
    <3> HIDE DEF m
    <3> QED BY <3>1, <1>0, AttachNotArmed
  <2>2. CASE (\E r \in Row : OffBegins(r)) \/ OffFails
    BY <2>2 DEF OffBegins, OffFails, rows
  <2>3. CASE OffCommits
    BY <2>3, <1>0 DEF OffCommits, Cancelable
  <2> QED BY <2>1, <2>2, <2>3 DEF Operator
<1> QED BY <1>1, <1>2, SendsNothingQuietly

LEMMA SweepSendsNothing ==
  ASSUME Sending, NEW d \in Dispatcher, Sweep(d)
  PROVE  SendsNothing
<1>1. ASSUME NEW r \in Row, Claim(d, r) PROVE SendsNothing
  <2>1. /\ UNCHANGED <<placed, intent, orders, reverted, rtodo, rpc>> /\ st[r] = "ARMED"
        /\ "claimed" \in Unlogged
        /\ DOMAIN pc = Dispatcher /\ DOMAIN cur = Dispatcher /\ st \in [Row -> State]
        /\ pc' = [pc EXCEPT ![d] = "claimed"] /\ cur' = [cur EXCEPT ![d] = r]
        /\ st' = [st EXCEPT ![r] = "APPLYING"]
    BY <1>1 DEF Claim, Claimable, Go, startup, venue, Sending, Owned, TypeOK, PassesOK, RowsOK,
       Unlogged
  <2>2. ~Durable => reverted = {} /\ rtodo = {} /\ rpc \in {"read", "done"}
    BY DEF Sending, Forgotten
  <2>3. \A e \in Dispatcher : e # d => pc'[e] = pc[e] /\ cur'[e] = cur[e]
    BY <2>1
  <2>4. pc'[d] = "claimed" /\ cur'[d] = r
    BY <2>1
  <2>5. \A q \in Row : st'[q] \in {"none", "ARMED"} => st[q] \in {"none", "ARMED"}
    BY <2>1
  <2> QED BY <2>1, <2>2, <2>3, <2>4, <2>5 DEF SendsNothing
<1>2. ASSUME NEW k \in Kind, Tick(d, k) PROVE SendsNothing
  <2>1. UNCHANGED <<st, placed, intent, orders, pc, cur, reverted, rtodo, rpc>>
    BY <1>2 DEF Tick, rows, venue, startup, history
  <2> QED BY <2>1, SendsNothingQuietly
<1>3. ASSUME NEW r \in Row, PassOver(d, r) PROVE SendsNothing
  <2>1. UNCHANGED <<st, placed, intent, orders, pc, cur, reverted, rtodo, rpc>>
    BY <1>3 DEF PassOver, rows, venue, startup, history
  <2> QED BY <2>1, SendsNothingQuietly
<1> QED BY <1>1, <1>2, <1>3 DEF Sweep

\* A step of a pass at work other than a submit.
LEMMA PassSendsNothing ==
  ASSUME Sending, NEW d \in Dispatcher, pc[d] # "idle",
         UNCHANGED <<placed, orders, reverted, rtodo, rpc>>, intent \subseteq intent',
         ~Durable => \A r \in Row : st'[r] \in {"none", "ARMED"} => st[r] \in {"none", "ARMED"},
         \/ Release(d)
         \/ Go(d, "apply") /\ UNCHANGED cur /\ cur[d] \in intent' /\ pc[d] = "intent"
         \/ Go(d, "intent") /\ UNCHANGED cur /\ pc[d] = "claimed"
         \/ pc[d] \notin Unlogged /\ UNCHANGED cur
            /\ \E l \in Stage : Go(d, l) /\ (l \in BeforeSending => pc[d] \in BeforeSending)
  PROVE  SendsNothing
<1>0. DOMAIN pc = Dispatcher /\ DOMAIN cur = Dispatcher
  BY DEF Sending, Owned, TypeOK, PassesOK
<1>1. ~Durable => reverted = {} /\ rtodo = {} /\ rpc \in {"read", "done"}
  BY DEF Sending, Forgotten
<1>2. \A e \in Dispatcher : e # d => pc'[e] = pc[e] /\ cur'[e] = cur[e]
  BY <1>0 DEF Release, Go
<1>3. pc'[d] \notin Unlogged =>
        cur'[d] \in intent' \/ (pc[d] \notin Unlogged /\ cur'[d] = cur[d])
  BY <1>0 DEF Release, Go, Unlogged
<1>4. pc'[d] \in BeforeSending => pc[d] \in BeforeSending /\ cur'[d] = cur[d]
  BY <1>0 DEF Release, Go, BeforeSending
<1> QED BY <1>1, <1>2, <1>3, <1>4 DEF SendsNothing

LEMMA WorkSends ==
  ASSUME Sending, Owned', NEW d \in Dispatcher, Work(d)
  PROVE  Sending'
<1>0. TypeOK /\ st \in [Row -> State]
  BY DEF Sending, Owned, TypeOK, RowsOK
<1>1. CASE RearmSubmits(d) \/ FlattenSubmits(d)
  <2>1. /\ pc[d] \in {"apply", "release"} /\ Submit(cur[d])
        /\ \E l \in {"check", "applied"} : Go(d, l)
        /\ UNCHANGED <<st, intent, cur, reverted, rtodo, rpc>>
    BY <1>1 DEF RearmSubmits, FlattenSubmits, Applies, rows, startup, history
  <2> QED BY <2>1, SendingSubmits
<1>2. CASE RecordIntent(d) \/ RecordOutcome(d)
  <2>1. /\ pc[d] # "idle" /\ intent \subseteq intent'
        /\ UNCHANGED <<placed, orders, reverted, rtodo, rpc>>
        /\ \/ Release(d)
           \/ Go(d, "apply") /\ UNCHANGED cur /\ cur[d] \in intent' /\ pc[d] = "intent"
    BY <1>2 DEF RecordIntent, RecordOutcome, venue, startup, history
  <2>2. ~Durable => \A r \in Row : st'[r] \in {"none", "ARMED"} => st[r] \in {"none", "ARMED"}
    BY <1>2, RecordNotArmed
  <2> QED BY <2>1, <2>2, PassSendsNothing, SendingKept
<1>3. CASE ReadForIntent(d) \/ ReadForOutcome(d)
  <2>1. /\ pc[d] # "idle" /\ UNCHANGED cur
        /\ UNCHANGED <<st, intent, placed, orders, reverted, rtodo, rpc>>
        /\ \/ Go(d, "intent") /\ pc[d] = "claimed"
           \/ Go(d, "outcome") /\ pc[d] \notin Unlogged
    BY <1>3 DEF ReadForIntent, ReadForOutcome, ReadsState, rows, venue, startup, history, Unlogged
  <2>2. "outcome" \in Stage \ BeforeSending
    BY DEF Stage, BeforeSending
  <2> QED BY <2>1, <2>2, PassSendsNothing, SendingKept
<1>4. CASE IntentFails(d) \/ OutcomeFails(d)
  <2>1. /\ pc[d] # "idle" /\ Release(d)
        /\ UNCHANGED <<st, intent, placed, orders, reverted, rtodo, rpc>>
    BY <1>4 DEF IntentFails, OutcomeFails, rows, venue, startup, history
  <2> QED BY <2>1, PassSendsNothing, SendingKept
<1>5. CASE \/ ApplyWatch(d) \/ RearmDeclines(d) \/ FlattenDeclines(d)
           \/ FlattenReleases(d) \/ CheckOff(d) \/ HandOffFails(d)
  <2>1. /\ pc[d] # "idle" /\ pc[d] \notin Unlogged /\ UNCHANGED cur
        /\ \E l \in Stage : Go(d, l) /\ (l \in BeforeSending => pc[d] \in BeforeSending)
        /\ UNCHANGED <<st, intent, placed, orders, reverted, rtodo, rpc>>
    <3>1. UNCHANGED <<cur, st, intent, placed, orders, reverted, rtodo, rpc>>
          /\ pc[d] # "idle" /\ pc[d] \notin Unlogged
      BY <1>5 DEF ApplyWatch, RearmDeclines, FlattenDeclines, FlattenReleases, CheckOff,
         HandOffFails, Applies, Decides, rows, venue, startup, history, Unlogged
    <3>2. \E l \in Stage : Go(d, l) /\ (l \in BeforeSending => pc[d] \in BeforeSending)
      BY <1>5 DEF ApplyWatch, RearmDeclines, FlattenDeclines, FlattenReleases, CheckOff,
         HandOffFails, Applies, Decides, Stage, BeforeSending
    <3> QED BY <3>1, <3>2
  <2> QED BY <2>1, PassSendsNothing, SendingKept
<1>6. ASSUME NEW q \in Row, HandOff(d, q) PROVE Sending'
  <2>1. /\ pc[d] = "attach" /\ AttachRow(q, Successor(cur[d])) /\ Go(d, "applied") /\ UNCHANGED cur
        /\ UNCHANGED <<intent, placed, orders, reverted, rtodo, rpc>>
    BY <1>6 DEF HandOff, venue, startup, history
  <2>2. \A r \in Row : st'[r] \in {"none", "ARMED"} => st[r] \in {"none", "ARMED"}
    BY <2>1, <1>0, AttachNotArmed
  <2>3. "applied" \in Stage /\ "applied" \notin BeforeSending /\ "attach" \notin Unlogged
    BY DEF Stage, BeforeSending, Unlogged
  <2> QED BY <2>1, <2>2, <2>3, PassSendsNothing, SendingKept
<1> QED BY <1>1, <1>2, <1>3, <1>4, <1>5, <1>6 DEF Work

LEMMA EngineSendsNothing ==
  ASSUME Sending, Crash \/ Restart
  PROVE  SendsNothing
<1>1. /\ \A d \in Dispatcher : pc'[d] = "idle"
      /\ rtodo' = {} /\ rpc' \in {"read", "done"}
  BY DEF Crash, Restart, passes, Sending, Owned, TypeOK, DownOK, Untouched
<1>2. UNCHANGED <<st, placed, intent, reverted>> /\ (Durable => orders' = orders)
  BY DEF Crash, Restart, rows, venue, history
<1>3. ~Durable => reverted = {}
  BY DEF Sending, Forgotten
<1>4. \A d \in Dispatcher : pc'[d] \notin BeforeSending /\ pc'[d] \in Unlogged
  BY <1>1 DEF BeforeSending, Unlogged
<1> QED BY <1>1, <1>2, <1>3, <1>4 DEF SendsNothing

LEMMA ReconcileSendsNothing ==
  ASSUME Sending, Reconcile
  PROVE  SendsNothing
<1>1. UNCHANGED <<placed, intent, orders, pc, cur>>
  BY DEF Reconcile, ReconcileKind, ReconcileLook, ReconcileReads, ReconcileRecords,
     ReconcileReverts, ReconcileFails, ReconcileEnds,
         rows, venue, passes
<1>2. ASSUME ~Durable
      PROVE  /\ reverted' = {} /\ rtodo' = {} /\ rpc' \in {"read", "done"}
             /\ st' = st
  <2>1. reverted = {} /\ rtodo = {} /\ rpc \in {"read", "done"}
    BY <1>2 DEF Sending, Forgotten
  <2>2. \A k : Reconcilable(k) = {}
    BY <1>2 DEF Reconcilable, Trusted
  <2> QED BY <2>1, <2>2 DEF Reconcile, ReconcileKind, ReconcileLook, ReconcileReads,
     ReconcileRecords, ReconcileReverts,
             ReconcileFails, ReconcileEnds, rows, history
<1> QED BY <1>1, <1>2 DEF SendsNothing

LEMMA SendingStep ==
  ASSUME Sending, [Next]_vars
  PROVE  Sending'
<1>0. Owned'
  BY OwnedStep DEF Sending
<1>1. CASE Venue \/ SeedLands \/ UNCHANGED vars
  <2>1. UNCHANGED <<st, placed, intent, orders, pc, cur, reverted, rtodo, rpc>>
    BY <1>1 DEF Venue, PositionCloses, ReentryFills, FlattenFills, Expires, SeedLands, vars,
       rows, venue, passes, startup, history
  <2> QED BY <2>1, <1>0, SendsNothingQuietly, SendingKept
<1>2. CASE Operator
  BY <1>2, <1>0, OperatorSendsNothing, SendingKept
<1>3. ASSUME NEW d \in Dispatcher, Sweep(d) PROVE Sending'
  BY <1>3, <1>0, SweepSendsNothing, SendingKept
<1>4. CASE Crash \/ Restart
  BY <1>4, <1>0, EngineSendsNothing, SendingKept
<1>5. CASE Reconcile
  BY <1>5, <1>0, ReconcileSendsNothing, SendingKept
<1> QED BY <1>0, <1>1, <1>2, <1>3, <1>4, <1>5, WorkSends DEF Next

\* The order of a row reaches the venue at most once, however many passes,
\* crashes, faults and reconciliations the row goes through, with a durable
\* cache or without one (client_order_id_for, claim, _reconcile_stuck_managers).
THEOREM SentOnce == Spec => []EffectOnce
<1>1. Sending /\ [Next]_vars => Sending'
  BY SendingStep
<1>2. Sending => EffectOnce
  BY DEF Sending
<1> QED BY SendingInit, <1>1, <1>2, PTL DEF Spec

\* No order goes out for a row whose intent is not in the event log
\* (INTENT-BEFORE-EFFECT, _dispatch_managers_of_kind).
THEOREM IntentComesFirst == Spec => []IntentFirst
<1>1. Sending /\ [Next]_vars => Sending'
  BY SendingStep
<1>2. Sending => IntentFirst
  BY DEF Sending
<1> QED BY SendingInit, <1>1, <1>2, PTL DEF Spec

-----------------------------------------------------------------------------
(* Turned off. *)

\* Attaching a row gives a successor to its parent only.
LEMMA AttachChildren ==
  ASSUME TypeOK, NEW q \in Row, NEW m \in MgrType, AttachRow(q, m), NEW r \in Row, m.parent # r
  PROVE  Children(r)' = Children(r)
<1>1. /\ mgr' = [mgr EXCEPT ![q] = m] /\ st' = [st EXCEPT ![q] = "ARMED"]
      /\ mgr \in [Row -> MgrType] /\ st \in [Row -> State] /\ st[q] = "none"
  BY DEF AttachRow, Fresh, Exists, TypeOK, RowsOK
<1>2. \A p \in Row : p # q => (st'[p] # "none" /\ mgr'[p].parent = r
                                 <=> st[p] # "none" /\ mgr[p].parent = r)
  BY <1>1
<1>3. ~(st'[q] # "none" /\ mgr'[q].parent = r) /\ ~(st[q] # "none" /\ mgr[q].parent = r)
  BY <1>1
<1> QED BY <1>2, <1>3 DEF Children, Existing, Exists

LEMMA SameChildren ==
  ASSUME TypeOK, UNCHANGED mgr, NEW r \in Row,
         \A p \in Row : st'[p] = "none" <=> st[p] = "none"
  PROVE  Children(r)' = Children(r)
  BY DEF Children, Existing, Exists

\* No pass at work holds a cancelled row.
LEMMA CancelledPlacesNothing ==
  ASSUME Owned, [Next]_vars, NEW r \in Row, st[r] = "CANCELLED", r \notin yanked
  PROVE  placed'[r] = placed[r]
<1>0. TypeOK /\ st \in [Row -> State] /\ placed \in [Row -> Nat] /\ r # NoRow
  BY DEF Owned, TypeOK, RowsOK, VenueOK, Row, NoRow
<1>1. \A d \in Dispatcher : pc[d] # "idle" => cur[d] # r
  BY DEF Owned, Held
<1>2. ASSUME NEW d \in Dispatcher, Work(d) PROVE placed'[r] = placed[r]
  <2>1. CASE RearmSubmits(d) \/ FlattenSubmits(d)
    <3>1. pc[d] # "idle" /\ Submit(cur[d])
      BY <2>1 DEF RearmSubmits, FlattenSubmits, Applies
    <3> QED BY <3>1, <1>0, <1>1, AtWork DEF Submit
  <2> QED BY <2>1, <1>2 DEF Work, ReadForIntent, ReadForOutcome, ReadsState, RecordIntent,
     IntentFails, RecordOutcome, OutcomeFails,
          ApplyWatch, RearmDeclines, FlattenDeclines, FlattenReleases, CheckOff,
          HandOffFails, HandOff, Decides, venue
<1>3. CASE Operator
  BY <1>3 DEF Operator, Attach, OffBegins, OffCommits, OffFails, venue
<1>4. CASE Venue
  BY <1>4 DEF Venue, PositionCloses, ReentryFills, FlattenFills, Expires, venue
<1>5. ASSUME NEW d \in Dispatcher, Sweep(d) PROVE placed'[r] = placed[r]
  BY <1>5 DEF Sweep, Tick, PassOver, Claim, venue
<1>6. CASE Crash \/ Restart \/ SeedLands \/ UNCHANGED vars
  BY <1>6 DEF Crash, Restart, SeedLands, vars, venue
<1>7. CASE Reconcile
  BY <1>7 DEF Reconcile, ReconcileKind, ReconcileLook, ReconcileReads, ReconcileRecords,
     ReconcileReverts, ReconcileFails,
     ReconcileEnds, venue
<1> QED BY <1>2, <1>3, <1>4, <1>5, <1>6, <1>7 DEF Next

\* Only a hand-off from the row gives it a successor.
LEMMA OnlyHandOffAttaches ==
  ASSUME Owned, [Next]_vars, NEW r \in Row,
         \A d \in Dispatcher : cur[d] = r => ~\E q \in Row : HandOff(d, q)
  PROVE  Children(r)' = Children(r)
<1>0. TypeOK /\ st \in [Row -> State] /\ r # NoRow
  BY DEF Owned, TypeOK, RowsOK, Row, NoRow
<1>2. ASSUME UNCHANGED rows PROVE Children(r)' = Children(r)
  BY <1>2, <1>0, SameChildren DEF rows
<1>3. ASSUME NEW q \in Existing, NEW s \in State \ {"none"},
             st' = [st EXCEPT ![q] = s], UNCHANGED mgr
      PROVE  Children(r)' = Children(r)
  <2>1. \A p \in Row : st'[p] = "none" <=> st[p] = "none"
    BY <1>0, <1>3 DEF Existing, Exists
  <2> QED BY <2>1, <1>0, <1>3, SameChildren
<1>4. CASE Operator
  <2>1. ASSUME NEW q \in Row, NEW k \in Kind, NEW o \in Owner, Attach(q, k, o)
        PROVE  Children(r)' = Children(r)
    <3> DEFINE m == [kind |-> k, owner |-> o, cycle |-> cycle, count |-> 0, parent |-> NoRow]
    <3>1. m \in MgrType /\ m.parent # r
      BY <1>0 DEF MgrType, TypeOK, MarketOK
    <3>2. AttachRow(q, m)
      BY <2>1 DEF Attach
    <3> HIDE DEF m
    <3> QED BY <3>1, <3>2, <1>0, AttachChildren
  <2>2. CASE OffCommits
    <3>1. /\ UNCHANGED mgr
          /\ \A p \in Row : st'[p] = st[p] \/ (st[p] \in Cancelable /\ st'[p] = "CANCELLED")
      BY <2>2 DEF OffCommits
    <3>2. \A p \in Row : st'[p] = "none" <=> st[p] = "none"
      BY <3>1, <1>0 DEF Cancelable, OffCommits
    <3> QED BY <3>1, <3>2, <1>0, SameChildren
  <2> QED BY <2>1, <2>2, <1>2, <1>4 DEF Operator, OffBegins, OffFails
<1>5. CASE Venue \/ SeedLands \/ Crash \/ Restart \/ UNCHANGED vars
  BY <1>5, <1>2 DEF Venue, PositionCloses, ReentryFills, FlattenFills, Expires, SeedLands,
     Crash, Restart, vars, rows
<1>6. ASSUME NEW d \in Dispatcher, Sweep(d) PROVE Children(r)' = Children(r)
  <2>1. ASSUME NEW q \in Row, Claim(d, q) PROVE Children(r)' = Children(r)
    <3>1. UNCHANGED mgr /\ st' = [st EXCEPT ![q] = "APPLYING"] /\ st[q] = "ARMED"
      BY <2>1 DEF Claim, Claimable
    <3>2. \A p \in Row : st'[p] = "none" <=> st[p] = "none"
      BY <3>1, <1>0
    <3> QED BY <3>1, <3>2, <1>0, SameChildren
  <2> QED BY <2>1, <1>2, <1>6 DEF Sweep, Tick, PassOver
<1>7. ASSUME NEW d \in Dispatcher, Work(d) PROVE Children(r)' = Children(r)
  <2>1. ASSUME NEW q \in Row, HandOff(d, q) PROVE Children(r)' = Children(r)
    <3> DEFINE m == Successor(cur[d])
    <3>1. pc[d] = "attach" /\ AttachRow(q, m)
      BY <2>1 DEF HandOff
    <3>2. m.parent # r
      BY <2>1 DEF Successor
    <3>3. m \in MgrType
      <4> DEFINE o == mgr[cur[d]]
      <4>1. o \in MgrType
        BY <3>1, <1>0, AtWork DEF TypeOK, RowsOK
      <4>2. o.owner \in Owner \cup {"none"} /\ o.cycle \in Nat /\ o.count \in Nat
        BY <4>1 DEF MgrType
      <4>3. o.count + 1 \in Nat
        BY <4>2
      <4>4. cur[d] \in Row
        BY <3>1, <1>0, AtWork
      <4> QED BY <4>2, <4>3, <4>4 DEF Successor, MgrType, Kind
    <3> HIDE DEF m
    <3> QED BY <3>1, <3>2, <3>3, <1>0, AttachChildren
  <2>2. CASE RecordIntent(d) \/ RecordOutcome(d)
    <3>1. UNCHANGED mgr
      BY <2>2 DEF RecordIntent, RecordOutcome
    <3> QED BY <3>1, <2>2, <1>3, PassWrites
  <2>3. CASE ReadForIntent(d) \/ ReadForOutcome(d)
    BY <2>3, <1>2 DEF ReadForIntent, ReadForOutcome, ReadsState
  <2> QED BY <2>1, <2>2, <2>3, <1>2, <1>7
      DEF Work, IntentFails, OutcomeFails, ApplyWatch, RearmDeclines, RearmSubmits,
          FlattenDeclines, FlattenReleases, FlattenSubmits, CheckOff, HandOffFails, Decides
<1>8. CASE Reconcile
  <2>1. CASE ReconcileRecords \/ ReconcileReverts
    <3>1. UNCHANGED mgr /\ "ARMED" \in State \ {"none"}
      BY <2>1 DEF ReconcileRecords, ReconcileReverts, State
    <3> QED BY <3>1, <2>1, <1>3, ReconcileWrites
  <2> QED BY <2>1, <1>2, <1>8 DEF Reconcile, ReconcileKind, ReconcileLook, ReconcileReads,
          ReconcileFails, ReconcileEnds
<1> QED BY <1>4, <1>5, <1>6, <1>7, <1>8 DEF Next

LEMMA ChildrenKept ==
  ASSUME Owned, [Next]_vars, NEW r \in Row,
         \A d \in Dispatcher : pc[d] = "attach" => cur[d] # r
  PROVE  Children(r)' = Children(r)
<1>1. \A d \in Dispatcher : cur[d] = r => ~\E q \in Row : HandOff(d, q)
  BY DEF HandOff
<1> QED BY <1>1, OnlyHandOffAttaches

\* Whatever an interrupted apply left behind, a cancelled row places no order
\* and attaches no successor, unless it was taken back from the pass that
\* held it (cancel_if_cancelable, cancel_chain).
THEOREM CancelledIsInert == Spec => CancelledDoesNothing
<1>1. Owned /\ [Next]_vars => Owned'
  BY OwnedStep
<1>2. Owned /\ [Next]_vars =>
        [\A r \in Row : st[r] = "CANCELLED" /\ r \notin yanked
            => placed'[r] = placed[r] /\ Children(r)' = Children(r)]_vars
  <2> SUFFICES ASSUME Owned, [Next]_vars, NEW r \in Row, st[r] = "CANCELLED", r \notin yanked
               PROVE  placed'[r] = placed[r] /\ Children(r)' = Children(r)
    OBVIOUS
  <2>1. \A d \in Dispatcher : pc[d] = "attach" => cur[d] # r
    BY DEF Owned, Held
  <2> QED BY <2>1, CancelledPlacesNothing, ChildrenKept
<1> QED BY OwnedInit, <1>1, <1>2, PTL DEF Spec, CancelledDoesNothing

\* A pass that passed the check hands off from a row not turned off, or turned
\* off since.
Checked == \A d \in Dispatcher : pc[d] = "attach" => cur[d] \notin off \/ cur[d] \in late

LEMMA CheckedStep ==
  ASSUME TypeOK, Checked, [Next]_vars
  PROVE  Checked'
<1>0. DOMAIN pc = Dispatcher /\ DOMAIN cur = Dispatcher
  BY DEF TypeOK, PassesOK
<1>1. ASSUME UNCHANGED off, late \subseteq late',
             \A d \in Dispatcher :
               pc'[d] = "attach" => cur'[d] = cur[d] /\ (pc[d] = "attach" \/ cur[d] \notin off)
      PROVE  Checked'
  BY <1>1 DEF Checked
<1>2. CASE OffCommits
  <2>1. \A d \in Dispatcher : pc[d] = "attach" /\ cur[d] \in Chain(req.row) => cur[d] \in late'
    BY <1>2 DEF OffCommits
  <2> QED BY <1>2, <2>1 DEF OffCommits, Checked, passes
<1>3. CASE (Operator /\ ~OffCommits) \/ Venue \/ SeedLands \/ Reconcile \/ UNCHANGED vars
  <2>1. UNCHANGED <<off, late, pc, cur>>
    BY <1>3 DEF Operator, Attach, OffBegins, OffFails,
       Venue, PositionCloses, ReentryFills, FlattenFills, Expires, SeedLands,
       Reconcile, ReconcileKind, ReconcileLook, ReconcileReads, ReconcileRecords,
       ReconcileReverts, ReconcileFails, ReconcileEnds,
       vars, rows, passes, history
  <2> QED BY <2>1, <1>1
<1>4. CASE Crash \/ Restart
  <2>1. UNCHANGED <<off, late>> /\ \A d \in Dispatcher : pc'[d] = "idle"
    BY <1>4 DEF Crash, Restart, rows, passes, history, TypeOK, DownOK
  <2> QED BY <2>1, <1>1
<1>5. ASSUME NEW d \in Dispatcher, Sweep(d) PROVE Checked'
  <2>1. UNCHANGED <<off, late>>
    BY <1>5 DEF Sweep, Tick, PassOver, Claim, rows, history
  <2>2. \A e \in Dispatcher : pc'[e] = "attach" => cur'[e] = cur[e] /\ pc[e] = "attach"
    BY <1>5, <1>0 DEF Sweep, Tick, PassOver, Claim, Go
  <2> QED BY <2>1, <2>2, <1>1
<1>6. ASSUME NEW d \in Dispatcher, Work(d) PROVE Checked'
  <2>1. UNCHANGED <<off, late>>
    BY <1>6 DEF Work, ReadForIntent, ReadForOutcome, ReadsState, RecordIntent, IntentFails,
       RecordOutcome, OutcomeFails, ApplyWatch,
       RearmDeclines, RearmSubmits, FlattenDeclines, FlattenReleases, FlattenSubmits,
       CheckOff, HandOffFails, HandOff, Decides, rows, history
  <2>2. \/ Release(d)
        \/ UNCHANGED cur /\ \E l : Go(d, l) /\ (l = "attach" => cur[d] \notin off)
    BY <1>6 DEF Work, ReadForIntent, ReadForOutcome, ReadsState, RecordIntent, IntentFails,
       RecordOutcome, OutcomeFails, ApplyWatch,
       RearmDeclines, RearmSubmits, FlattenDeclines, FlattenReleases, FlattenSubmits,
       CheckOff, HandOffFails, HandOff, Decides
  <2>3. \A e \in Dispatcher :
          pc'[e] = "attach" => cur'[e] = cur[e] /\ (pc[e] = "attach" \/ cur[e] \notin off)
    BY <2>2, <1>0 DEF Release, Go
  <2> QED BY <2>1, <2>3, <1>1
<1> QED BY <1>2, <1>3, <1>4, <1>5, <1>6 DEF Next

\* A row turned off attaches no successor, in this apply or in one a restart
\* begins, unless the OFF came between the check and the attach
\* (chain_cancelled).
THEOREM OffIsHonoured == Spec => OffHonoured
<1>1. Owned /\ Checked /\ [Next]_vars => Owned' /\ Checked'
  BY OwnedStep, CheckedStep DEF Owned
<1>2. Owned /\ Checked /\ [Next]_vars => [\A r \in off \ late : Children(r)' = Children(r)]_vars
  <2> SUFFICES ASSUME Owned, Checked, [Next]_vars, NEW r \in off \ late
               PROVE  Children(r)' = Children(r)
    OBVIOUS
  <2>1. r \in Row
    BY DEF Owned, TypeOK, RowsOK, Existing
  <2>2. \A d \in Dispatcher : pc[d] = "attach" => cur[d] # r
    BY DEF Checked
  <2> QED BY <2>1, <2>2, ChildrenKept
<1>3. Init => Checked
  BY DEF Init, Checked
<1> QED BY OwnedInit, <1>1, <1>2, <1>3, PTL DEF Spec, OffHonoured
-----------------------------------------------------------------------------
(* One successor. *)

\* A pass that will give the row a successor if nothing stops it.
HandsOff(d, r) == cur[d] = r /\ pc[d] \in {"check", "attach"}

\* A pass that has nothing left to do with its row but to record the outcome.
Done == {"idle", "applied", "failed", "outcome"}

\* A rearm hands off only after it has sent its order, which it does once.  A
\* row never reverted is claimed once: when it has a successor no pass is
\* still before the hand-off.
LinkedAt(r) ==
    /\ mgr[r].kind = "rearm" =>
         /\ Children(r) # {} => placed[r] > 0
         /\ \A d \in Dispatcher : HandsOff(d, r) => placed[r] > 0 /\ Children(r) = {}
         /\ \A d, e \in Dispatcher : HandsOff(d, r) /\ HandsOff(e, r) => d = e
    /\ r \notin reverted /\ Children(r) # {} =>
         st[r] # "ARMED" /\ \A d \in Dispatcher : cur[d] = r => pc[d] \in Done
    /\ mgr[r].kind = "rearm" \/ r \notin reverted => \A p, q \in Children(r) : p = q

Linked == \A r \in Existing : LinkedAt(r)

\* What a step does to the passes, seen from the hand-off.
LEMMA PassSteps ==
  ASSUME Owned, [Next]_vars, NEW d \in Dispatcher, pc'[d] # "idle"
  PROVE  \/ pc'[d] = "claimed" /\ cur'[d] \in Row /\ st[cur'[d]] = "ARMED"
         \/ /\ cur'[d] = cur[d] /\ pc[d] # "idle"
            /\ pc[d] \in Done => pc'[d] \in Done
            /\ pc'[d] \in {"check", "attach"} =>
                 \/ pc[d] \in {"check", "attach"}
                 \/ pc[d] = "apply" /\ mgr[cur[d]].kind = "watch"
                 \/ RearmSubmits(d)
<1>0. DOMAIN pc = Dispatcher /\ DOMAIN cur = Dispatcher
  BY DEF Owned, TypeOK, PassesOK
<1>1. CASE UNCHANGED <<pc, cur>>
  BY <1>1
<1>2. CASE Operator \/ Venue \/ SeedLands \/ Reconcile \/ UNCHANGED vars
  BY <1>1, <1>2 DEF Operator, Attach, OffBegins, OffCommits, OffFails,
     Venue, PositionCloses, ReentryFills, FlattenFills, Expires, SeedLands,
     Reconcile, ReconcileKind, ReconcileLook, ReconcileReads, ReconcileRecords, ReconcileReverts,
     ReconcileFails, ReconcileEnds,
     vars, passes
<1>3. CASE Crash \/ Restart
  BY <1>1, <1>3 DEF Crash, Restart, passes
<1>4. ASSUME NEW e \in Dispatcher, Sweep(e)
      PROVE  \/ UNCHANGED <<pc, cur>>
             \/ pc'[d] = pc[d] /\ cur'[d] = cur[d]
             \/ pc'[d] = "claimed" /\ cur'[d] \in Row /\ st[cur'[d]] = "ARMED"
  BY <1>0, <1>4 DEF Sweep, Tick, PassOver, Claim, Go, Claimable
<1>5. ASSUME NEW e \in Dispatcher, Work(e), e # d PROVE pc'[d] = pc[d] /\ cur'[d] = cur[d]
  <2>1. Release(e) \/ (UNCHANGED cur /\ \E l : Go(e, l))
    BY <1>5 DEF Work, ReadForIntent, ReadForOutcome, ReadsState, RecordIntent, IntentFails,
       RecordOutcome, OutcomeFails, ApplyWatch,
       RearmDeclines, RearmSubmits, FlattenDeclines, FlattenReleases, FlattenSubmits,
       CheckOff, HandOffFails, HandOff, Decides
  <2> QED BY <2>1, <1>0, <1>5 DEF Release, Go
<1>6. CASE Work(d)
  <2>1. CASE RearmSubmits(d)
    BY <2>1, <1>0 DEF RearmSubmits, Applies, Go, Done
  <2>2. CASE ~RearmSubmits(d)
    <3>1. \/ Release(d)
          \/ /\ UNCHANGED cur /\ pc[d] # "idle"
             /\ \E l : /\ Go(d, l)
                       /\ pc[d] \in Done => l \in Done
                       /\ l \in {"check", "attach"} =>
                            pc[d] = "check" \/ (pc[d] = "apply" /\ mgr[cur[d]].kind = "watch")
      BY <2>2, <1>6 DEF Work, ReadForIntent, ReadForOutcome, ReadsState, RecordIntent,
         IntentFails, RecordOutcome, OutcomeFails, ApplyWatch,
         RearmDeclines, FlattenDeclines, FlattenReleases, FlattenSubmits,
         CheckOff, HandOffFails, HandOff, Decides, Applies, Done
    <3> QED BY <3>1, <1>0 DEF Release, Go
  <2> QED BY <2>1, <2>2
<1> QED BY <1>1, <1>2, <1>3, <1>4, <1>5, <1>6 DEF Next

\* A row attached keeps what it was attached with.
LEMMA SameRow ==
  ASSUME TypeOK, [Next]_vars, NEW r \in Existing
  PROVE  mgr'[r] = mgr[r]
<1>1. r \in Row /\ st[r] # "none" /\ DOMAIN mgr = Row
  BY DEF Existing, Exists, TypeOK, RowsOK
<1>2. ASSUME NEW q \in Row, NEW m, AttachRow(q, m) PROVE mgr'[r] = mgr[r]
  BY <1>1, <1>2 DEF AttachRow, Fresh, Exists
<1>3. CASE Operator
  BY <1>2, <1>3 DEF Operator, Attach, OffBegins, OffCommits, OffFails, rows
<1>4. ASSUME NEW d \in Dispatcher, Work(d) PROVE mgr'[r] = mgr[r]
  BY <1>2, <1>4 DEF Work, ReadForIntent, ReadForOutcome, ReadsState, RecordIntent, IntentFails,
     RecordOutcome, OutcomeFails, ApplyWatch,
     RearmDeclines, RearmSubmits, FlattenDeclines, FlattenReleases, FlattenSubmits,
     CheckOff, HandOffFails, HandOff, Decides, rows
<1>5. CASE ~Operator /\ ~\E d \in Dispatcher : Work(d)
  BY <1>5 DEF Next, Venue, PositionCloses, ReentryFills, FlattenFills, Expires, SeedLands,
     Sweep, Tick, PassOver, Claim, Crash, Restart,
     Reconcile, ReconcileKind, ReconcileLook, ReconcileReads, ReconcileRecords, ReconcileReverts,
     ReconcileFails, ReconcileEnds,
     vars, rows
<1> QED BY <1>3, <1>4, <1>5

\* Orders are never unsent, reverted rows stay so, and a row is taken back to
\* ARMED only by being reverted.
LEMMA RowSteps ==
  ASSUME Owned, [Next]_vars, NEW r \in Existing
  PROVE  /\ placed[r] > 0 => placed'[r] > 0
         /\ reverted \subseteq reverted'
         /\ r \notin reverted' /\ st'[r] = "ARMED" => st[r] = "ARMED"
<1>0. /\ r \in Row /\ st[r] # "none" /\ st \in [Row -> State] /\ placed \in [Row -> Nat]
      /\ TypeOK /\ yanked \subseteq reverted
  BY DEF Existing, Exists, Owned, TypeOK, RowsOK, VenueOK, HistoryOK
<1>1. CASE UNCHANGED <<st, placed, reverted>>
  BY <1>1
<1>2. CASE Venue \/ SeedLands \/ Crash \/ Restart \/ UNCHANGED vars
  BY <1>1, <1>2 DEF Venue, PositionCloses, ReentryFills, FlattenFills, Expires, SeedLands, Crash,
     Restart, vars, rows, venue, history
<1>3. ASSUME UNCHANGED <<placed, reverted>>, NEW q \in Row, NEW m, AttachRow(q, m)
      PROVE  /\ placed[r] > 0 => placed'[r] > 0
             /\ reverted \subseteq reverted'
             /\ st'[r] = st[r]
  BY <1>0, <1>3 DEF AttachRow, Fresh, Exists
<1>5. CASE Operator
  <2>1. CASE OffCommits
    BY <1>0, <2>1 DEF OffCommits, venue
  <2>2. CASE ~OffCommits
    BY <1>1, <1>3, <1>5, <2>2 DEF Operator, Attach, OffBegins, OffFails, rows, venue, history
  <2> QED BY <2>1, <2>2
<1>6. ASSUME NEW d \in Dispatcher, Sweep(d)
      PROVE  UNCHANGED <<placed, reverted>> /\ (st'[r] = "ARMED" => st[r] = "ARMED")
  BY <1>0, <1>6 DEF Sweep, Tick, PassOver, Claim, rows, venue, history
<1>7. ASSUME NEW d \in Dispatcher, Work(d)
      PROVE  /\ placed[r] > 0 => placed'[r] > 0
             /\ reverted \subseteq reverted'
             /\ r \notin reverted' /\ st'[r] = "ARMED" => st[r] = "ARMED"
  <2>1. CASE RecordIntent(d) \/ RecordOutcome(d)
    <3>1. UNCHANGED <<placed, reverted>>
      BY <2>1 DEF RecordIntent, RecordOutcome, venue, history
    <3>2. st'[r] = "ARMED" /\ r \notin reverted => st[r] = "ARMED"
      BY <2>1, <1>0, PassWrites DEF Taken
    <3> QED BY <3>1, <3>2
  <2>2. CASE RearmSubmits(d) \/ FlattenSubmits(d)
    <3>1. /\ pc[d] # "idle" /\ UNCHANGED <<st, reverted>>
          /\ placed' = [placed EXCEPT ![cur[d]] = @ + 1]
      BY <2>2 DEF RearmSubmits, FlattenSubmits, Applies, Submit, rows, history
    <3> QED BY <3>1, <1>0
  <2>3. ASSUME NEW q \in Row, HandOff(d, q)
        PROVE  /\ placed[r] > 0 => placed'[r] > 0
               /\ reverted \subseteq reverted'
               /\ r \notin reverted' /\ st'[r] = "ARMED" => st[r] = "ARMED"
    <3>1. UNCHANGED <<placed, reverted>> /\ AttachRow(q, Successor(cur[d]))
      BY <2>3 DEF HandOff, venue, history
    <3> QED BY <3>1, <1>3
  <2> QED BY <2>1, <2>2, <2>3, <1>1, <1>7 DEF Work, ReadForIntent, ReadForOutcome, ReadsState,
     IntentFails, OutcomeFails, ApplyWatch,
          RearmDeclines, FlattenDeclines, FlattenReleases,
          CheckOff, HandOffFails, Decides, rows, venue, history
<1>8. CASE Reconcile
  <2>1. CASE ReconcileRecords \/ ReconcileReverts
    <3>1. /\ UNCHANGED placed /\ reverted \subseteq reverted'
          /\ ReconcileReverts => rcur \in reverted'
      BY <2>1 DEF ReconcileRecords, ReconcileReverts, venue
    <3>2. r \notin reverted' /\ st'[r] = "ARMED" => st[r] = "ARMED"
      BY <3>1, <2>1, <1>0, ReconcileWrites DEF Taken
    <3> QED BY <3>1, <3>2
  <2> QED BY <2>1, <1>1, <1>8 DEF Reconcile, ReconcileKind, ReconcileLook, ReconcileReads,
     ReconcileFails,
          ReconcileEnds, rows, venue, history
<1> QED BY <1>2, <1>5, <1>6, <1>7, <1>8 DEF Next

\* A row no one hands off from and no rearm sends for.
LEMMA LinkedElsewhere ==
  ASSUME Sending, [Next]_vars, NEW r \in Existing, LinkedAt(r),
         \A d \in Dispatcher : cur[d] = r => ~RearmSubmits(d) /\ ~\E q \in Row : HandOff(d, q)
  PROVE  LinkedAt(r)'
<1>0. Owned /\ TypeOK /\ r \in Row /\ r # NoRow
  BY DEF Sending, Owned, Existing, Row, NoRow
<1>1. mgr'[r] = mgr[r] /\ Children(r)' = Children(r)
  BY <1>0, SameRow, OnlyHandOffAttaches
<1>2. /\ placed[r] > 0 => placed'[r] > 0
      /\ reverted \subseteq reverted'
      /\ r \notin reverted' /\ st'[r] = "ARMED" => st[r] = "ARMED"
  BY <1>0, RowSteps
<1>3. \A d \in Dispatcher : mgr[r].kind = "rearm" /\ HandsOff(d, r)' => HandsOff(d, r)
  <2> SUFFICES ASSUME NEW d \in Dispatcher, mgr[r].kind = "rearm",
                      cur'[d] = r, pc'[d] \in {"check", "attach"}
               PROVE  HandsOff(d, r)
    BY DEF HandsOff
  <2> QED BY <1>0, PassSteps DEF HandsOff
<1>4. \A d \in Dispatcher : cur'[d] = r /\ pc'[d] \notin Done =>
        st[r] = "ARMED" \/ (cur[d] = r /\ pc[d] \notin Done)
  <2> SUFFICES ASSUME NEW d \in Dispatcher, cur'[d] = r, pc'[d] \notin Done
               PROVE  st[r] = "ARMED" \/ (cur[d] = r /\ pc[d] \notin Done)
    OBVIOUS
  <2>1. pc'[d] # "idle"
    BY DEF Done
  <2> QED BY <1>0, <2>1, PassSteps
<1> QED BY <1>1, <1>2, <1>3, <1>4 DEF LinkedAt

\* A rearm sends: it had sent nothing, so no one handed off from it.
LEMMA LinkedSubmits ==
  ASSUME Sending, [Next]_vars, NEW d \in Dispatcher, RearmSubmits(d), LinkedAt(cur[d])
  PROVE  LinkedAt(cur[d])'
<1> DEFINE c == cur[d]
<1>0. /\ Owned /\ TypeOK /\ c \in Row /\ c \in Existing /\ placed \in [Row -> Nat]
      /\ DOMAIN pc = Dispatcher /\ pc[d] = "apply" /\ mgr[c].kind = "rearm"
  BY AtWork DEF Sending, Owned, TypeOK, VenueOK, PassesOK, RearmSubmits, Applies, Busy, Stage
<1>1. /\ c \notin orders /\ placed' = [placed EXCEPT ![c] = @ + 1]
      /\ UNCHANGED <<cur, mgr, st>> /\ \E l \in {"check", "applied"} : Go(d, l)
  BY DEF RearmSubmits, Submit, rows
<1>2. placed[c] = 0
  <2>1. CASE Durable
    BY <2>1, <1>0, <1>1 DEF Sending, Remembered
  <2>2. CASE ~Durable
    BY <2>2, <1>0 DEF Sending, Forgotten, BeforeSending
  <2> QED BY <2>1, <2>2
<1>3. Children(c) = {} /\ \A e \in Dispatcher : ~HandsOff(e, c)
  BY <1>0, <1>2 DEF LinkedAt
<1>4. Children(c)' = {}
  <2>1. Children(c)' = Children(c)
    BY <1>0, <1>1, SameChildren
  <2> QED BY <2>1, <1>3
<1>5. \A e \in Dispatcher : e # d => ~HandsOff(e, c)'
  BY <1>0, <1>1, <1>3 DEF HandsOff, Go
<1>6. placed'[c] > 0 /\ c' = c
  BY <1>0, <1>1
<1> QED BY <1>4, <1>5, <1>6 DEF LinkedAt

\* A hand-off: the pass was the only one, and there was no successor.
LEMMA LinkedHandOff ==
  ASSUME Sending, [Next]_vars, NEW d \in Dispatcher, NEW q \in Row, HandOff(d, q), LinkedAt(cur[d])
  PROVE  LinkedAt(cur[d])'
<1> DEFINE c == cur[d]
<1>0. /\ Owned /\ TypeOK /\ c \in Row /\ c \in Existing /\ yanked \subseteq reverted
      /\ DOMAIN pc = Dispatcher /\ pc[d] = "attach"
      /\ mgr \in [Row -> MgrType] /\ st \in [Row -> State]
  BY AtWork DEF Sending, Owned, TypeOK, RowsOK, PassesOK, HistoryOK, HandOff, Busy, Stage
<1>1. /\ AttachRow(q, Successor(c)) /\ Go(d, "applied")
      /\ UNCHANGED <<cur, placed, reverted>>
  BY DEF HandOff, venue, history
<1>2. /\ st[q] = "none" /\ q # c /\ mgr'[q].parent = c
      /\ mgr' = [mgr EXCEPT ![q] = Successor(c)] /\ st' = [st EXCEPT ![q] = "ARMED"]
  BY <1>0, <1>1 DEF AttachRow, Fresh, Exists, Existing, Successor
<1>3. mgr'[c] = mgr[c] /\ st'[c] = st[c] /\ c' = c
  BY <1>0, <1>1, <1>2
<1>4. Children(c)' \subseteq Children(c) \cup {q}
  <2> SUFFICES ASSUME NEW p \in Row, p # q, st'[p] # "none", mgr'[p].parent = c
               PROVE  st[p] # "none" /\ mgr[p].parent = c
    BY <1>3 DEF Children, Existing, Exists
  <2> QED BY <1>0, <1>2
<1>5. HandsOff(d, c) /\ ~HandsOff(d, c)'
      /\ \A e \in Dispatcher : e # d => pc'[e] = pc[e] /\ (HandsOff(e, c)' => HandsOff(e, c))
  BY <1>0, <1>1 DEF HandsOff, Go
<1>6. CASE mgr[c].kind = "rearm"
  <2>1. placed'[c] > 0 /\ Children(c) = {} /\ \A e \in Dispatcher : ~HandsOff(e, c)'
    BY <1>1, <1>5, <1>6 DEF LinkedAt
  <2>2. c \notin reverted' => st[c] # "ARMED" /\ \A e \in Dispatcher : cur[e] = c => e = d \/ pc[e] = "idle"
    BY <1>0, <1>1, ExclusiveAlike DEF Owned, Held
  <2>3. pc'[d] \in Done /\ \A e \in Dispatcher : e # d => pc'[e] = pc[e]
    BY <1>0, <1>1 DEF Go, Done
  <2> QED BY <1>1, <1>3, <1>4, <2>1, <2>2, <2>3 DEF LinkedAt, Done
<1>7. CASE mgr[c].kind # "rearm" /\ c \notin reverted
  <2>1. Children(c) = {}
    BY <1>0, <1>7 DEF LinkedAt, Done
  <2>2. st[c] # "ARMED" /\ \A e \in Dispatcher : cur[e] = c => e = d \/ pc[e] = "idle"
    BY <1>0, <1>7, ExclusiveAlike DEF Owned, Held
  <2>3. pc'[d] \in Done /\ \A e \in Dispatcher : e # d => pc'[e] = pc[e]
    BY <1>0, <1>1 DEF Go, Done
  <2> QED BY <1>1, <1>3, <1>4, <1>7, <2>1, <2>2, <2>3 DEF LinkedAt, Done
<1>8. CASE mgr[c].kind # "rearm" /\ c \in reverted
  BY <1>1, <1>3, <1>8 DEF LinkedAt
<1> QED BY <1>6, <1>7, <1>8

\* A row just attached has no successor and nobody at work on it.
LEMMA LinkedNew ==
  ASSUME Owned, Owned', [Next]_vars, NEW r \in Row, r \notin Existing
  PROVE  LinkedAt(r)'
<1>0. TypeOK /\ r # NoRow /\ st[r] = "none"
  BY DEF Owned, Row, NoRow, Existing, Exists
<1>1. \A d \in Dispatcher : pc[d] # "idle" => cur[d] # r
  BY <1>0, AtWork DEF Owned, TypeOK, PassesOK, Busy
<1>2. \A d \in Dispatcher : pc'[d] # "idle" => cur'[d] # r
  BY <1>0, <1>1, PassSteps
<1>3. Children(r) = {}
  BY <1>0 DEF Children, TypeOK, RowsOK
<1>4. Children(r)' = {}
  <2>1. \A d \in Dispatcher : pc[d] = "attach" => cur[d] # r
    BY <1>1
  <2> QED BY <1>3, <2>1, ChildrenKept
<1> QED BY <1>2, <1>4 DEF LinkedAt, HandsOff, Done

LEMMA LinkedStep ==
  ASSUME Sending, Linked, [Next]_vars
  PROVE  Linked'
<1>0. Owned /\ Owned'
  BY OwnedStep DEF Sending
<1> SUFFICES ASSUME NEW r \in Row PROVE LinkedAt(r)'
  BY DEF Linked, Existing
<1>1. CASE r \notin Existing
  BY <1>0, <1>1, LinkedNew
<1>2. CASE r \in Existing /\ \E d \in Dispatcher : cur[d] = r /\ RearmSubmits(d)
  <2>1. PICK d \in Dispatcher : cur[d] = r /\ RearmSubmits(d)
    BY <1>2
  <2>2. LinkedAt(cur[d])' /\ cur' = cur
    BY <1>2, <2>1, LinkedSubmits DEF Linked, RearmSubmits
  <2> QED BY <2>1, <2>2 DEF LinkedAt, HandsOff, Children
<1>3. CASE r \in Existing /\ \E d \in Dispatcher : cur[d] = r /\ \E q \in Row : HandOff(d, q)
  <2>1. PICK d \in Dispatcher, q \in Row : cur[d] = r /\ HandOff(d, q)
    BY <1>3
  <2>2. LinkedAt(cur[d])' /\ cur' = cur
    BY <1>3, <2>1, LinkedHandOff DEF Linked, HandOff
  <2> QED BY <2>1, <2>2 DEF LinkedAt, HandsOff, Children
<1>4. CASE r \in Existing /\ \A d \in Dispatcher :
              cur[d] = r => ~RearmSubmits(d) /\ ~\E q \in Row : HandOff(d, q)
  BY <1>4, LinkedElsewhere DEF Linked
<1> QED BY <1>1, <1>2, <1>3, <1>4

LEMMA LinkedDontFork == ASSUME TypeOK, Linked PROVE LinksDontFork
<1> SUFFICES ASSUME NEW r \in Existing, mgr[r].kind = "rearm" \/ r \notin reverted
             PROVE  Cardinality(Children(r)) <= 1
  BY DEF LinksDontFork
<1>1. \A p, q \in Children(r) : p = q
  BY DEF Linked, LinkedAt
<1>2. CASE Children(r) = {}
  BY <1>2, FS_EmptySet
<1>3. CASE Children(r) # {}
  <2>1. PICK p : Children(r) = {p}
    BY <1>1, <1>3
  <2>2. Cardinality({p}) = 1
    BY FS_Singleton
  <2> QED BY <2>1, <2>2
<1> QED BY <1>2, <1>3

\* One logical chain: a link hands off to one successor at most, whatever
\* races, crashes and reconciliations it goes through, unless it places no
\* order and a reconciliation reverted it (_attach_reentry_link).
THEOREM ChainsAreLines == Spec => []LinksDontFork
<1>1. Init => Linked
  BY DEF Init, Linked, Existing, Exists
<1>2. Sending /\ Linked /\ [Next]_vars => Sending' /\ Linked'
  BY SendingStep, LinkedStep
<1>3. Sending /\ Linked => LinksDontFork
  BY LinkedDontFork DEF Sending, Owned
<1> QED BY SendingInit, <1>1, <1>2, <1>3, PTL DEF Spec
=============================================================================
