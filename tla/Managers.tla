------------------------------ MODULE Managers ------------------------------
(***************************************************************************)
(* The manager framework: automations attached to a position as rows in    *)
(* Postgres, claimed and applied by overlapping dispatch passes, reconciled *)
(* after a crash, and turned off by the operator.                          *)
(*                                                                         *)
(* Three kinds are modelled.  "flatten" (deferred_flatten) sends one close. *)
(* "watch" and "rearm" (STOP-AND-REENTER) form a chain: a watch that sees  *)
(* its stop fill attaches a rearm, a rearm that submits a re-entry attaches *)
(* the next watch.  One instrument, one position of this strategy; a lane's *)
(* own position carries "flatten" rows only.                               *)
(*                                                                         *)
(* Each action is one stretch of a coroutine between two awaits.  A        *)
(* transaction is one step, at its commit, apart from two: record_event    *)
(* reads the state first and writes what it made of it without looking     *)
(* again, and the OFF command's timestamp is taken when it begins.         *)
(***************************************************************************)
EXTENDS Integers, Sequences, FiniteSets

CONSTANTS
    Dispatcher,   \* dispatch passes that may overlap
    MaxRows,      \* bound: manager rows
    RearmMax,     \* params["rearm_max"]
    Durable,      \* KUMO_DURABLE_CACHE
    Attachable,   \* <<kind, owner>> pairs the operator may attach
    MaxAttaches,  \* bound: attach commands
    MaxOffs,      \* bound: OFF commands
    MaxCrashes,   \* bound: engine crashes
    MaxFaults     \* bound: failing calls to Postgres

Row == 1..MaxRows
Owner == {"self", "lane"}

ASSUME ManagersAssumption ==
    /\ MaxRows \in Nat /\ RearmMax \in Nat
    /\ Durable \in BOOLEAN
    /\ Attachable \subseteq {<<"watch", "self">>, <<"flatten", "self">>, <<"flatten", "lane">>}

\* The order the kinds are registered, and therefore swept, in.
KindOrder == <<"flatten", "watch", "rearm">>
Kind == {"flatten", "watch", "rearm"}

VARIABLES
    mgr,       \* what each row was attached with (Postgres)
    st,        \* manager.state of each row, "none" before it is attached
    off,       \* rows with an OFF event at or after their created_at
    intent,    \* rows with an INTENT_RECORDED event
    close,     \* the first reducing fill since each watch was attached
    orders,    \* rows whose order is in the cache
    working,   \* rows whose order rests at the venue
    placed,    \* history: how often each row's order was submitted
    held, cycle,  \* the position, and its trade cycle
    up, seeded,
    pc, cur, got, todo,  \* the dispatch passes; got: what record_event will write
    rpc, rcur, rseen, rgot, rtodo, rleft,  \* the startup reconciliation
    req,       \* the OFF command in progress
    mine,      \* history: rows claimed since the restart, while it reconciles
    reverted,  \* history: rows reconciliation put back to ARMED
    yanked,    \* history: those of them claimed since the restart
    twice,     \* history: rows it gave an outcome that were claimed since then
    late,      \* history: rows turned off between the check and the hand-off
    attaches, offs, crashes, faults

rows    == <<mgr, st, off, intent>>
venue   == <<orders, working, placed>>
market  == <<close, held, cycle>>
passes  == <<pc, cur, got, todo>>
startup == <<rpc, rcur, rseen, rgot, rtodo, rleft>>
history == <<mine, reverted, yanked, twice, late>>
bounds  == <<attaches, offs, crashes, faults>>
vars == <<mgr, st, off, intent, close, orders, working, placed, held, cycle, up, seeded,
          pc, cur, got, todo, rpc, rcur, rseen, rgot, rtodo, rleft, req,
          mine, reverted, yanked, twice, late, attaches, offs, crashes, faults>>

NoRow == 0
NoMgr == [kind |-> "none", owner |-> "none", cycle |-> 0, count |-> 0, parent |-> NoRow]
NoReq == [row |-> NoRow, seen |-> {}]

Exists(r) == st[r] # "none"
Existing == {r \in Row : Exists(r)}
Children(r) == {q \in Existing : mgr[q].parent = r}

Init ==
    /\ mgr = [r \in Row |-> NoMgr] /\ st = [r \in Row |-> "none"]
    /\ off = {} /\ intent = {}
    /\ close = [r \in Row |-> "none"]
    /\ orders = {} /\ working = {} /\ placed = [r \in Row |-> 0]
    /\ held = TRUE /\ cycle = 1
    /\ up = TRUE /\ seeded = TRUE
    /\ pc = [d \in Dispatcher |-> "idle"] /\ cur = [d \in Dispatcher |-> NoRow]
    /\ got = [d \in Dispatcher |-> "none"] /\ todo = [d \in Dispatcher |-> {}]
    /\ rpc = "done" /\ rcur = NoRow /\ rseen = FALSE /\ rgot = "none" /\ rtodo = {} /\ rleft = <<>>
    /\ req = NoReq
    /\ mine = {} /\ reverted = {} /\ yanked = {} /\ twice = {} /\ late = {}
    /\ attaches = 0 /\ offs = 0 /\ crashes = 0 /\ faults = 0

Fault == faults < MaxFaults /\ faults' = faults + 1
NoFault == UNCHANGED faults

-----------------------------------------------------------------------------
(* The store (managers.py). *)

\* The reducer, for the AUTO leash: the only one an attach accepts.
NextState(s, e) ==
    CASE s = "ARMED" /\ e = "INTENT_RECORDED" -> "APPLYING"
      [] s = "APPLYING" /\ e \in {"APPLIED", "FAILED"} -> e
      [] OTHER -> s

\* record_event: the state read gives the state to write; the UPDATE that
\* writes it does not ask whether the row still has the state that was read.
WriteState(r, s) == st' = [st EXCEPT ![r] = s]

\* New rows take the ids in order.
Fresh(r) == ~Exists(r) /\ \A q \in Row : q < r => Exists(q)

AttachRow(r, m) ==
    /\ Fresh(r)
    /\ mgr' = [mgr EXCEPT ![r] = m]
    /\ st' = [st EXCEPT ![r] = "ARMED"]

Family(k) == IF k = "flatten" THEN {"flatten"} ELSE {"watch", "rearm"}

Chain(r) == {q \in Existing : /\ mgr[q].kind \in Family(mgr[r].kind)
                              /\ mgr[q].owner = mgr[r].owner
                              /\ mgr[q].cycle = mgr[r].cycle}

OfKind(k, s) == {r \in Existing : mgr[r].kind = k /\ mgr[r].owner = "self" /\ st[r] = s}

\* Mutant: the claim does not test that the row is still ARMED.
ClaimableAny(r) == Exists(r)
Claimable(r) == st[r] = "ARMED"

\* Mutant: OFF also takes rows already claimed.
CancelableClaimed == {"ARMED", "PROPOSED", "APPROVED", "APPLYING"}
Cancelable == {"ARMED", "PROPOSED", "APPROVED"}

-----------------------------------------------------------------------------
(* The operator. *)

Attach(r, k, o) ==
    /\ up /\ attaches < MaxAttaches /\ attaches' = attaches + 1
    /\ <<k, o>> \in Attachable
    /\ held
    /\ AttachRow(r, [kind |-> k, owner |-> o, cycle |-> cycle, count |-> 0, parent |-> NoRow])
    /\ UNCHANGED <<off, intent, venue, market, up, seeded, passes, startup, req, history,
                   offs, crashes, faults>>

\* The handler reads the row the UI named; its transaction's clock starts here.
OffBegins(r) ==
    /\ up /\ req = NoReq /\ Exists(r)
    /\ offs < MaxOffs /\ offs' = offs + 1
    /\ req' = [row |-> r, seen |-> Existing]
    /\ UNCHANGED <<rows, venue, market, up, seeded, passes, startup, history,
                   attaches, crashes, faults>>

\* One conditional UPDATE over the chain, and an event either way: on the rows
\* it cancelled, or on the latest one.
OffCommits ==
    LET chain == Chain(req.row)
    IN  /\ up /\ req # NoReq
        /\ st' = [r \in Row |-> IF r \in chain /\ st[r] \in Cancelable THEN "CANCELLED" ELSE st[r]]
        /\ off' = off \cup (chain \cap req.seen)
        /\ req' = NoReq
        /\ late' = late \cup {r \in chain : \E d \in Dispatcher : pc[d] = "attach" /\ cur[d] = r}
        /\ UNCHANGED <<mgr, intent, venue, market, up, seeded, passes, startup,
                       mine, reverted, yanked, twice, bounds>>

OffFails ==
    /\ up /\ req # NoReq /\ Fault
    /\ req' = NoReq
    /\ UNCHANGED <<rows, venue, market, up, seeded, passes, startup, history,
                   attaches, offs, crashes>>

-----------------------------------------------------------------------------
(* The venue. *)

\* The position is closed by its protective stop, or by a target or a human.
Closes(how) ==
    /\ held /\ held' = FALSE
    /\ close' = [r \in Row |-> IF mgr[r].kind = "watch" /\ close[r] = "none"
                               THEN how ELSE close[r]]

PositionCloses(how) ==
    /\ Closes(how)
    /\ UNCHANGED <<rows, venue, cycle, up, seeded, passes, startup, req, history, bounds>>

\* A re-entry that fills while flat opens the next cycle.
ReentryFills(r) ==
    /\ r \in working /\ mgr[r].kind = "rearm"
    /\ working' = working \ {r}
    /\ held' = TRUE
    /\ cycle' = IF held THEN cycle ELSE cycle + 1
    /\ UNCHANGED <<rows, orders, placed, close, up, seeded, passes, startup, req, history, bounds>>

FlattenFills(r) ==
    /\ r \in working /\ mgr[r].kind = "flatten"
    /\ working' = working \ {r}
    /\ Closes("other")
    /\ UNCHANGED <<rows, orders, placed, cycle, up, seeded, passes, startup, req, history, bounds>>

\* A day order expires, or is denied.
Expires(r) ==
    /\ r \in working /\ working' = working \ {r}
    /\ UNCHANGED <<rows, orders, placed, market, up, seeded, passes, startup, req, history, bounds>>

-----------------------------------------------------------------------------
(* A dispatch pass: every kind, every ARMED row of this strategy. *)

Go(d, l) == pc' = [pc EXCEPT ![d] = l]

\* Mutant: the pass moves on without letting go of the row.
ReleaseKeeps(d) == Go(d, "idle") /\ UNCHANGED cur /\ got' = [got EXCEPT ![d] = "none"]
Release(d) ==
    /\ Go(d, "idle")
    /\ cur' = [cur EXCEPT ![d] = NoRow] /\ got' = [got EXCEPT ![d] = "none"]

\* A timer tick, the startup's own pass or the kick of the seed thread reads
\* the ARMED rows of one kind; before the seed has landed it returns at once.
\* The kinds of one tick are swept one after the other: here a pass is over
\* one kind, and the passes come in any order.
Tick(d, k) ==
    /\ up /\ seeded /\ pc[d] = "idle" /\ todo[d] = {}
    /\ OfKind(k, "ARMED") # {}
    /\ todo' = [todo EXCEPT ![d] = OfKind(k, "ARMED")]
    /\ UNCHANGED <<rows, venue, market, up, seeded, pc, cur, got, startup, req, history, bounds>>

\* Trigger not met, an exit releasing the shares, a failed claim or a claim
\* another pass won.
PassOver(d, r) ==
    /\ pc[d] = "idle" /\ r \in todo[d]
    /\ todo' = [todo EXCEPT ![d] = @ \ {r}]
    /\ UNCHANGED <<rows, venue, market, up, seeded, pc, cur, got, startup, req, history, bounds>>

\* The price of a rearm and the session of a flatten are the environment's.
TriggerMet(r) == mgr[r].kind = "watch" => ~held /\ close[r] # "none"

Claim(d, r) ==
    /\ pc[d] = "idle" /\ r \in todo[d]
    /\ TriggerMet(r) /\ Claimable(r)
    /\ st' = [st EXCEPT ![r] = "APPLYING"]
    /\ todo' = [todo EXCEPT ![d] = @ \ {r}]
    /\ cur' = [cur EXCEPT ![d] = r]
    /\ Go(d, "claimed")
    /\ mine' = IF rpc = "done" THEN mine ELSE mine \cup {r}
    /\ UNCHANGED <<mgr, off, intent, venue, market, up, seeded, got, startup, req,
                   reverted, yanked, twice, late, bounds>>

\* record_event has read the row and flushed the event; it is about to update.
ReadsState(d, e, l) ==
    /\ Go(d, l)
    /\ got' = [got EXCEPT ![d] = NextState(st[cur[d]], e)]
    /\ UNCHANGED <<rows, venue, market, up, seeded, cur, todo, startup, req, history, bounds>>

ReadForIntent(d) == pc[d] = "claimed" /\ ReadsState(d, "INTENT_RECORDED", "intent")

RecordIntent(d) ==
    /\ pc[d] = "intent" /\ Go(d, "apply")
    /\ WriteState(cur[d], got[d]) /\ got' = [got EXCEPT ![d] = "none"]
    /\ intent' = intent \cup {cur[d]}
    /\ UNCHANGED <<mgr, off, venue, market, up, seeded, cur, todo, startup, req, history, bounds>>

\* The row stays APPLYING with nothing sent, until a restart.
IntentFails(d) ==
    /\ pc[d] \in {"claimed", "intent"} /\ Fault
    /\ Release(d)
    /\ UNCHANGED <<rows, venue, market, up, seeded, todo, startup, req, history,
                   attaches, offs, crashes>>

ReadForOutcome(d) ==
    \/ pc[d] = "applied" /\ ReadsState(d, "APPLIED", "outcome")
    \/ pc[d] = "failed" /\ ReadsState(d, "FAILED", "outcome")

RecordOutcome(d) ==
    /\ pc[d] = "outcome"
    /\ WriteState(cur[d], got[d])
    /\ Release(d)
    /\ UNCHANGED <<mgr, off, intent, venue, market, up, seeded, todo, startup, req, history, bounds>>

OutcomeFails(d) ==
    /\ pc[d] \in {"applied", "failed", "outcome"} /\ Fault
    /\ Release(d)
    /\ UNCHANGED <<rows, venue, market, up, seeded, todo, startup, req, history,
                   attaches, offs, crashes>>

-----------------------------------------------------------------------------
(* The kinds. *)

Applies(d, k) == pc[d] = "apply" /\ mgr[cur[d]].kind = k
OtherCycle(r) == held /\ cycle # mgr[r].cycle

Decides(d, l) ==
    /\ Go(d, l)
    /\ UNCHANGED <<rows, venue, market, up, seeded, cur, got, todo, startup, req, history, bounds>>

\* Mutant: the order id is minted by each apply.
SubmitMinted(r) ==
    /\ orders' = orders \cup {r}
    /\ working' = working \cup {r}
    /\ placed' = [placed EXCEPT ![r] = @ + 1]

\* The order id is made from the row's id: a second submit collides in the cache.
Submit(r) ==
    /\ r \notin orders
    /\ orders' = orders \cup {r}
    /\ working' = working \cup {r}
    /\ placed' = [placed EXCEPT ![r] = @ + 1]

\* Only a stop-out goes on to the hand-off.
ApplyWatch(d) ==
    LET r == cur[d]
    IN  /\ Applies(d, "watch")
        /\ Decides(d, IF OtherCycle(r) \/ close[r] = "none" THEN "failed"
                      ELSE IF close[r] = "stop" THEN "check" ELSE "applied")

\* Floor broken, no level crossed, no price, the cap, another cycle, a
\* position already reopened, or an order id already in the cache.
RearmDeclines(d) ==
    /\ Applies(d, "rearm")
    /\ \E l \in {"applied", "failed"} : Decides(d, l)

RearmSubmits(d) ==
    LET r == cur[d]
    IN  /\ Applies(d, "rearm")
        /\ ~held /\ mgr[r].count < RearmMax
        /\ Submit(r)
        /\ Go(d, IF mgr[r].count + 1 < RearmMax THEN "check" ELSE "applied")
        /\ UNCHANGED <<rows, market, up, seeded, cur, got, todo, startup, req, history, bounds>>

\* The position is gone or no longer the one confirmed, or the resting exits
\* were not released in time.
FlattenDeclines(d) ==
    /\ pc[d] \in {"apply", "release"} /\ mgr[cur[d]].kind = "flatten"
    /\ pc[d] = "apply" => ~held \/ OtherCycle(cur[d])
    /\ Decides(d, "failed")

FlattenReleases(d) ==
    /\ Applies(d, "flatten") /\ held /\ ~OtherCycle(cur[d])
    /\ Decides(d, "release")

FlattenSubmits(d) ==
    /\ pc[d] = "release"
    /\ Submit(cur[d])
    /\ Go(d, "applied")
    /\ UNCHANGED <<rows, market, up, seeded, cur, got, todo, startup, req, history, bounds>>

\* Mutant: the hand-off does not ask whether the chain was turned off.
CheckOffNever(d) == pc[d] = "check" /\ Decides(d, "attach")
\* chain_cancelled, asked before the hand-off.
CheckOff(d) ==
    /\ pc[d] = "check"
    /\ Decides(d, IF cur[d] \in off THEN "applied" ELSE "attach")

Successor(r) ==
    [kind   |-> IF mgr[r].kind = "watch" THEN "rearm" ELSE "watch",
     owner  |-> mgr[r].owner,
     cycle  |-> mgr[r].cycle,
     count  |-> IF mgr[r].kind = "rearm" THEN mgr[r].count + 1 ELSE mgr[r].count,
     parent |-> r]

HandOff(d, r) ==
    /\ pc[d] = "attach"
    /\ AttachRow(r, Successor(cur[d]))
    /\ Go(d, "applied")
    /\ UNCHANGED <<off, intent, venue, market, up, seeded, cur, got, todo, startup, req,
                   history, bounds>>

\* A query or the attach raises: whatever was submitted, the row is FAILED.
HandOffFails(d) ==
    /\ pc[d] \in {"check", "attach"} /\ Fault
    /\ Go(d, "failed")
    /\ UNCHANGED <<rows, venue, market, up, seeded, cur, got, todo, startup, req, history,
                   attaches, offs, crashes>>

-----------------------------------------------------------------------------
(* Crash, restart and the startup reconciliation. *)

Crash ==
    /\ up /\ crashes < MaxCrashes /\ crashes' = crashes + 1
    /\ up' = FALSE /\ seeded' = FALSE
    /\ pc' = [d \in Dispatcher |-> "idle"] /\ cur' = [d \in Dispatcher |-> NoRow]
    /\ got' = [d \in Dispatcher |-> "none"] /\ todo' = [d \in Dispatcher |-> {}]
    /\ rpc' = "done" /\ rcur' = NoRow /\ rseen' = FALSE /\ rgot' = "none" /\ rtodo' = {} /\ rleft' = <<>>
    /\ req' = NoReq
    /\ mine' = {}
    /\ UNCHANGED <<rows, venue, market, reverted, yanked, twice, late, attaches, offs, faults>>

\* Mutant: the restart dispatches without reconciling.
RestartUnreconciled ==
    /\ ~up /\ up' = TRUE
    /\ UNCHANGED <<rows, venue, market, seeded, passes, startup, req, history, bounds>>

\* Without the durable cache any of its orders may be missing after a restart.
Restart ==
    /\ ~up /\ up' = TRUE
    /\ rpc' = "read" /\ rleft' = KindOrder
    /\ \E kept \in SUBSET orders :
         /\ Durable => kept = orders
         /\ orders' = kept
    /\ UNCHANGED <<rows, working, placed, market, seeded, passes, rcur, rseen, rgot, rtodo, req,
                   history, bounds>>

\* The seed thread finishes; it kicks a dispatch pass (Tick).
SeedLands ==
    /\ up /\ ~seeded /\ seeded' = TRUE
    /\ UNCHANGED <<rows, venue, market, up, passes, startup, req, history, bounds>>

\* Nothing is reconciled on a cache that proves nothing.
Trusted == Durable

Reconcilable(k) == IF Trusted THEN OfKind(k, "APPLYING") ELSE {}

ReconcileKind ==
    /\ rpc = "read" /\ rtodo = {} /\ rleft # <<>>
    /\ rleft' = Tail(rleft)
    /\ \/ NoFault /\ rtodo' = Reconcilable(Head(rleft))
       \/ Fault /\ UNCHANGED rtodo
    /\ UNCHANGED <<rows, venue, market, up, seeded, passes, rpc, rcur, rseen, rgot, req, history,
                   attaches, offs, crashes>>

\* The order id is read from the intent, and looked up in the cache.
ReconcileLook(r) ==
    /\ rpc = "read" /\ r \in rtodo
    /\ rtodo' = rtodo \ {r}
    /\ rcur' = r /\ rseen' = (r \in intent /\ r \in orders)
    /\ rpc' = "write"
    /\ UNCHANGED <<rows, venue, market, up, seeded, passes, rgot, rleft, req, history, bounds>>

\* Its order is there: record_event, as in a pass.
ReconcileReads ==
    /\ rpc = "write" /\ rseen
    /\ rpc' = "record" /\ rgot' = NextState(st[rcur], "APPLIED")
    /\ UNCHANGED <<rows, venue, market, up, seeded, passes, rcur, rseen, rtodo, rleft, req,
                   history, bounds>>

ReconcileRecords ==
    /\ rpc = "record" /\ rpc' = "read"
    /\ WriteState(rcur, rgot)
    /\ twice' = twice \cup (mine \cap {rcur})
    /\ rcur' = NoRow /\ rseen' = FALSE /\ rgot' = "none"
    /\ UNCHANGED <<mgr, off, intent, venue, market, up, seeded, passes, rtodo, rleft, req,
                   mine, reverted, yanked, late, bounds>>

\* It is not: one UPDATE takes the row back, whatever state it is in by now.
ReconcileReverts ==
    /\ rpc = "write" /\ ~rseen /\ rpc' = "read"
    /\ WriteState(rcur, "ARMED")
    /\ reverted' = reverted \cup {rcur}
    /\ yanked' = yanked \cup (mine \cap {rcur})
    /\ rcur' = NoRow
    /\ UNCHANGED <<mgr, off, intent, venue, market, up, seeded, passes, rseen, rgot, rtodo,
                   rleft, req, mine, twice, late, bounds>>

\* One failing call abandons the rest of the kind.
ReconcileFails ==
    /\ rpc \in {"write", "record"} \/ (rpc = "read" /\ rtodo # {})
    /\ Fault
    /\ rpc' = "read" /\ rtodo' = {}
    /\ rcur' = NoRow /\ rseen' = FALSE /\ rgot' = "none"
    /\ UNCHANGED <<rows, venue, market, up, seeded, passes, rleft, req, history,
                   attaches, offs, crashes>>

\* The startup check then dispatches: that pass is a Tick.
ReconcileEnds ==
    /\ rpc = "read" /\ rtodo = {} /\ rleft = <<>>
    /\ rpc' = "done" /\ mine' = {}
    /\ UNCHANGED <<rows, venue, market, up, seeded, passes, rcur, rseen, rgot, rtodo, rleft, req,
                   reverted, yanked, twice, late, bounds>>

-----------------------------------------------------------------------------
Operator == \/ \E r \in Row, k \in Kind, o \in Owner : Attach(r, k, o)
            \/ \E r \in Row : OffBegins(r)
            \/ OffCommits \/ OffFails

Venue == \/ \E how \in {"stop", "other"} : PositionCloses(how)
         \/ \E r \in Row : ReentryFills(r) \/ FlattenFills(r) \/ Expires(r)

Sweep(d) ==
    \/ \E k \in Kind : Tick(d, k)
    \/ \E r \in Row : PassOver(d, r) \/ Claim(d, r)

Work(d) ==
    \/ ReadForIntent(d) \/ RecordIntent(d) \/ IntentFails(d)
    \/ ReadForOutcome(d) \/ RecordOutcome(d) \/ OutcomeFails(d)
    \/ ApplyWatch(d) \/ RearmDeclines(d) \/ RearmSubmits(d)
    \/ FlattenDeclines(d) \/ FlattenReleases(d) \/ FlattenSubmits(d)
    \/ CheckOff(d) \/ HandOffFails(d)
    \/ \E r \in Row : HandOff(d, r)

Reconcile ==
    \/ ReconcileKind \/ ReconcileReads \/ ReconcileRecords \/ ReconcileReverts
    \/ ReconcileFails \/ ReconcileEnds
    \/ \E r \in Row : ReconcileLook(r)

Next ==
    \/ Operator \/ Venue
    \/ \E d \in Dispatcher : Sweep(d) \/ Work(d)
    \/ Crash \/ Restart \/ SeedLands \/ Reconcile

Spec == Init /\ [][Next]_vars

\* Coroutines run to their end while the engine is up; the supervisor restarts
\* it; the timer keeps ticking; a trigger met again and again is acted on.
Fairness ==
    /\ \A d \in Dispatcher :
         WF_vars(Sweep(d)) /\ WF_vars(Work(d))
    /\ \A r \in Row : SF_vars(\E d \in Dispatcher : Claim(d, r))
    /\ WF_vars(Restart) /\ WF_vars(SeedLands) /\ WF_vars(Reconcile)

LiveSpec == Spec /\ Fairness

-----------------------------------------------------------------------------
(* Properties. *)

State == {"none", "ARMED", "APPLYING", "APPLIED", "FAILED", "CANCELLED"}
Stage == {"idle", "claimed", "intent", "apply", "release", "check", "attach",
          "applied", "failed", "outcome"}
Busy == Stage \ {"idle"}

MgrType == [kind : Kind \cup {"none"}, owner : Owner \cup {"none"},
            cycle : Nat, count : Nat, parent : Row \cup {NoRow}]

RowsOK ==
    /\ mgr \in [Row -> MgrType]
    /\ st \in [Row -> State]
    /\ off \subseteq Existing /\ intent \subseteq Existing
    /\ \A r \in Existing :
         mgr[r].kind \in Kind /\ mgr[r].parent \in (Existing \ {r}) \cup {NoRow}

VenueOK ==
    /\ orders \subseteq Existing /\ working \subseteq Existing
    /\ placed \in [Row -> Nat]

MarketOK ==
    /\ close \in [Row -> {"none", "stop", "other"}]
    /\ held \in BOOLEAN /\ cycle \in Nat

PassesOK ==
    /\ pc \in [Dispatcher -> Stage]
    /\ cur \in [Dispatcher -> Row \cup {NoRow}]
    /\ got \in [Dispatcher -> State]
    /\ todo \in [Dispatcher -> SUBSET Row]
    /\ \A d \in Dispatcher :
         /\ todo[d] \subseteq Existing
         /\ IF pc[d] \in Busy THEN cur[d] \in Existing ELSE cur[d] = NoRow
         /\ got[d] # "none" <=> pc[d] \in {"intent", "outcome"}

StartupOK ==
    /\ rpc \in {"read", "write", "record", "done"}
    /\ IF rpc \in {"write", "record"} THEN rcur \in Existing ELSE rcur = NoRow
    /\ rgot \in State /\ (rgot # "none" <=> rpc = "record")
    /\ rtodo \subseteq Existing /\ rleft \in Seq(Kind) /\ rseen \in BOOLEAN

HistoryOK ==
    /\ req \in [row : Row \cup {NoRow}, seen : SUBSET Row]
    /\ req.row \in Existing \cup {NoRow} /\ req.seen \subseteq Existing
    /\ mine \subseteq Existing
    /\ yanked \subseteq reverted /\ reverted \subseteq Existing
    /\ twice \subseteq Existing /\ late \subseteq Existing

DownOK ==
    ~up => rpc = "done" /\ \A d \in Dispatcher : pc[d] = "idle" /\ todo[d] = {}

\* Types, and what ties the parts together: a pass works on a row exactly
\* while it has claimed one, nothing refers to a row not yet attached, and
\* nothing runs while the engine is down.
TypeOK ==
    /\ RowsOK /\ VenueOK /\ MarketOK /\ PassesOK /\ StartupOK /\ HistoryOK /\ DownOK
    /\ up \in BOOLEAN /\ seeded \in BOOLEAN

\* The order of a row reaches the venue at most once, however many passes,
\* crashes and reconciliations the row goes through, with or without a
\* durable cache (client_order_id_for, claim, _reconcile_stuck_managers).
EffectOnce == \A r \in Row : placed[r] <= 1

\* No order goes out for a row whose intent is not in the event log
\* (INTENT-BEFORE-EFFECT, _dispatch_managers_of_kind).
IntentFirst == \A r \in Row : placed[r] > 0 => r \in intent

\* Two passes never apply one row, unless the startup reconciliation took it
\* back from the pass that held it (managers.claim).
ApplyExclusive ==
    \A d, e \in Dispatcher :
        d # e /\ pc[d] \in Busy /\ cur[d] = cur[e] => cur[d] \in yanked

\* Where the cache is durable a link of the chain hands off to one successor
\* at most; a link that places no order may hand off again only if a
\* reconciliation reverted it.
LinksDontFork ==
    \A r \in Existing :
        mgr[r].kind = "rearm" \/ r \notin reverted => Cardinality(Children(r)) <= 1

\* Whatever an interrupted apply left behind, and whoever else acts on the
\* row meanwhile, a cancelled row places no order and attaches no successor
\* (cancel_if_cancelable, cancel_chain), unless it was taken back from the
\* pass that held it.
CancelledDoesNothing ==
    [][\A r \in Row : st[r] = "CANCELLED" /\ r \notin yanked
          => placed'[r] = placed[r] /\ Children(r)' = Children(r)]_vars

\* A row turned off while it could not be cancelled attaches no successor
\* either, in this apply or in one a restart begins, unless the OFF came
\* between the check and the attach (chain_cancelled).
OffHonoured ==
    [][\A r \in off \ late : Children(r)' = Children(r)]_vars

\* An outcome is final (next_state): no claim, OFF, event or reconciliation
\* moves a row out of it.  Two kinds of row are excepted, both because the
\* reconciliation and a pass of the running process were at the same row: one
\* the reconciliation took back, and one it gave an outcome of its own, whose
\* record_event and the pass's may each overwrite what the other wrote.
TerminalStays ==
    [][\A r \in Row :
          st[r] \in {"APPLIED", "FAILED", "CANCELLED"} /\ r \notin yanked' \cup twice'
             => st'[r] = st[r]]_vars

\* A row is not left APPLYING: the pass that claimed it, or the restart after
\* a crash, gives it an outcome (_startup_manager_check).
StuckResolved ==
    \A r \in Row : st[r] = "APPLYING" ~> st[r] # "APPLYING"

\* "One logical chain": two re-entries are never bought back for one
\* stop-out (ManagerHandler.apply must be safe to replay).
OneReentryPerStop ==
    \A w \in Row : Cardinality({r \in Children(w) : placed[r] > 0}) <= 1

-----------------------------------------------------------------------------
(* Promises the code does not keep: see README. *)

\* "OFF takes effect at the handoff": a row that had been turned off attaches
\* no successor (_handle_cancel_manager_command).
OffStopsHandOff ==
    [][\A r \in Row : st[r] = "none" /\ st'[r] # "none" => mgr'[r].parent \notin off]_vars

\* "That intent has to survive": a rearm the operator turned off does not
\* start an apply, whose first effect is a re-entry order (chain_cancelled).
OffRowsNotClaimed ==
    [][\A r \in off \ yanked :
          mgr[r].kind = "rearm" /\ st[r] = "ARMED" => st'[r] # "APPLYING"]_vars

\* "Reconciliation is guaranteed to finish before the first claim": no row is
\* taken from a pass of the running process (_startup_manager_check).
LiveRowsKept == yanked = {}

\* "No legal transition for this (state, event): stay put rather than guess": an
\* event never moves a row that has an outcome (next_state, record_event).
EventsStayPut ==
    [][\A r \in Row : st[r] \in {"APPLIED", "FAILED"} /\ r \notin yanked' => st'[r] = st[r]]_vars

\* "The exit stays pending and replays until it completes": a queued close is
\* sent, turned off, or moot because the position is gone
\* (_handle_flatten_command, _DeferredFlatten).
QueuedExitPursued ==
    \A r \in Row :
        st[r] = "ARMED" /\ mgr[r].kind = "flatten"
          ~> placed[r] > 0 \/ st[r] = "CANCELLED" \/ ~held
=============================================================================
