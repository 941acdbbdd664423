----------------------------- MODULE TradeCycles -----------------------------
(* Trade cycles of one key (account, client, instrument, strategy): the     *)
(* projection of native state (trade_cycle.py), its durable envelope        *)
(* (cycle_store.py, table trade_cycle) as _publish_trades writes it, and    *)
(* the seed that resumes it after a restart.                                *)
(*                                                                          *)
(* A cycle spans the flats that an entry order bridges.  Which flat was     *)
(* bridged is not native state, so it is folded event by event, and across  *)
(* a restart only the envelope remembers it.                                *)
EXTENDS Integers, FiniteSets, FiniteSetsExt

CONSTANTS
    MaxClock,           \* native events of a run, each at its own instant
    MaxEntries,         \* entry orders alive at a time
    MaxCrashes, MaxFaults

ASSUME TradeCyclesAssumption == {MaxClock, MaxEntries, MaxCrashes, MaxFaults} \subseteq Nat

\* A cycle is named by the instant it is anchored at; 0 is none.
Id == 1..MaxClock
State == {"HELD", "ARMED", "CLOSED"}

VARIABLES
    \* the Nautilus cache, and its position snapshots in Redis
    clock,
    pos,        \* ts_opened of the open position, 0 when flat
    inflight,   \* ts_init of entry orders submitted, not yet accepted
    entries,    \* ts_init of entry orders open
    legs,       \* ts_opened of the closed positions
    \* the engine's memory
    up, seeded,
    active,     \* the cycle of the fold, 0 for none
    seen,       \* closed legs the projection finds in its cache or was given
    written,    \* _envelope_written: the state last known to be stored
    pending,    \* _envelope_pending: the attempt in flight, 0 for none
    \* Postgres
    flights,    \* upserts on their way: [id, state, ts, attempt, at]
    table,      \* trade_cycle: the row of each cycle, [state, ts]
    \* history: the cycle as an uninterrupted fold sees it, its legs, when the
    \* last one ended; what the engine's fold missed; cycles it emitted CLOSED,
    \* and cycles whose close no write will carry
    truth, own, ended, missed, gone, dropped,
    crashes, faults

native == <<clock, pos, inflight, entries, legs>>
fold == <<active, seen>>
envelope == <<written, pending, flights, table>>
history == <<truth, own, ended, missed, gone, dropped>>
vars == <<native, up, seeded, fold, envelope, history, crashes, faults>>

-----------------------------------------------------------------------------
(* project(), of a position p and entry orders es *)

StateOf(p, es) == IF p # 0 THEN "HELD" ELSE IF es # {} THEN "ARMED" ELSE "CLOSED"

\* _mint_opened_ts
Anchor(p, es) == IF p # 0 THEN p ELSE Min(es)

\* Mutant: a cycle that has just gone flat is not emitted any more.
EmittedOpenOnly(p, es) ==
    IF StateOf(p, es) = "CLOSED" THEN 0 ELSE IF active # 0 THEN active ELSE Anchor(p, es)

\* The cycle a projection emits: the one it follows, or a fresh one; 0 for none.
Emitted(p, es) ==
    IF active # 0 THEN active ELSE IF StateOf(p, es) = "CLOSED" THEN 0 ELSE Anchor(p, es)

\* A cycle that is emitted CLOSED is followed no longer.
Followed(p, es) == IF StateOf(p, es) = "CLOSED" THEN 0 ELSE Emitted(p, es)

\* Mutant: only the legs after the anchor.
CycleLegsLater(id) == {l \in seen \cup ({pos} \ {0}) : l > id}

\* _cycle_legs: the legs opened since the cycle's anchor.
CycleLegs(id) == {l \in seen \cup ({pos} \ {0}) : l >= id}

-----------------------------------------------------------------------------
(* _publish_trades: project, then hand the emitted row to the store. *)

Live(state) == state \in {"HELD", "ARMED"}
LiveRows == {id \in Id : Live(table[id].state)}

\* Mutant: the first attempt is number 0.
AttemptFromZero == CHOOSE n \in 0..Cardinality(flights) : \A f \in flights : f.attempt # n

\* _attempt_seq; only that no two writes on their way share a number matters.
Attempt == CHOOSE n \in 1..(Cardinality(flights) + 1) : \A f \in flights : f.attempt # n

\* One write per change, and one in flight per cycle.
Suppressed(id, state) == written[id] = state \/ pending[id] # 0

(* What is stored and on its way is remembered of emitted cycles only. *)
Persist(id, state, now) ==
    LET writes == id # 0 /\ ~Suppressed(id, state)
        upsert == [id |-> id, state |-> state, ts |-> now, attempt |-> Attempt, at |-> "sent"]
    IN  /\ flights' = IF writes THEN flights \cup {upsert} ELSE flights
        /\ pending' = [i \in Id |->
              IF i # id THEN 0 ELSE IF writes THEN Attempt ELSE pending[i]]
        /\ written' = [i \in Id |-> IF i = id THEN written[i] ELSE "none"]

(* The close of a cycle is emitted once; dropped when no write carries it. *)
Closes(p, es) == IF StateOf(p, es) = "CLOSED" /\ active # 0 THEN {active} ELSE {}

Folds(p, es) ==
    /\ active' = Followed(p, es)
    /\ gone' = gone \cup Closes(p, es)

Publish(p, es, now) ==
    /\ up /\ seeded
    /\ Folds(p, es)
    /\ Persist(Emitted(p, es), StateOf(p, es), now)
    /\ dropped' = dropped \cup {i \in Closes(p, es) : pending[i] # 0}
    /\ UNCHANGED <<table, faults>>

\* It raises, and is quarantined: before this key is projected, or after.
PublishRaises(p, es) ==
    /\ up /\ seeded
    /\ faults < MaxFaults /\ faults' = faults + 1
    /\ \/ UNCHANGED <<active, gone, dropped>>
       \/ Folds(p, es) /\ dropped' = dropped \cup Closes(p, es)
    /\ UNCHANGED envelope

\* While the engine is down, or still seeding, nothing is projected.
NotFolded == ~(up /\ seeded) /\ UNCHANGED <<active, gone, dropped, envelope, faults>>

-----------------------------------------------------------------------------
(* Native events.  Each is folded when it happens: order events of every    *)
(* lane reach _handle_order_event after the cache has been updated.         *)

\* The fold that misses nothing.
TrueCycle(p, es) ==
    IF p = 0 /\ es = {} THEN 0 ELSE IF truth # 0 THEN truth ELSE IF p # 0 THEN p ELSE Min(es)

Sees ==
    /\ truth' = TrueCycle(pos', entries')
    /\ own' = IF truth' = 0 THEN {} ELSE own \cup ({pos'} \ {0})
    /\ ended' = IF truth # 0 /\ truth' = 0 THEN clock' ELSE ended
    /\ missed' =
          (IF up /\ seeded /\ active' = 0 /\ truth' = 0 THEN {} ELSE missed) \cup
          (IF truth' # truth /\ (active' # truth' \/ ~(up /\ seeded)) THEN {"unseen"} ELSE {})

Happens ==
    /\ clock < MaxClock /\ clock' = clock + 1
    /\ \/ Publish(pos', entries', clock') \/ PublishRaises(pos', entries') \/ NotFolded
    /\ Sees
    /\ UNCHANGED <<up, seeded, crashes>>

\* A position closed by this process stays in its cache.
Remains == seen' = seen \cup (legs' \ legs)

Submitted ==
    /\ up /\ Cardinality(inflight \cup entries) < MaxEntries
    /\ inflight' = inflight \cup {clock + 1}
    /\ UNCHANGED <<pos, entries, legs>>
    /\ Happens /\ Remains

Accepted(o) ==
    /\ o \in inflight
    /\ inflight' = inflight \ {o} /\ entries' = entries \cup {o}
    /\ UNCHANGED <<pos, legs>>
    /\ Happens /\ Remains

\* Rejected, canceled or expired.
Ends(o) ==
    /\ o \in inflight \cup entries
    /\ inflight' = inflight \ {o} /\ entries' = entries \ {o}
    /\ UNCHANGED <<pos, legs>>
    /\ Happens /\ Remains

\* A fill of an entry, in whole or in part, or of an order never open here.
Opens(o, rest) ==
    /\ o \in entries \cup {0}
    /\ entries' = entries \ ({o} \ rest)
    /\ pos' = IF pos = 0 THEN clock + 1 ELSE pos
    /\ UNCHANGED <<inflight, legs>>
    /\ Happens /\ Remains

ClosesPosition ==
    /\ pos # 0 /\ pos' = 0 /\ legs' = legs \cup {pos}
    /\ UNCHANGED <<inflight, entries>>
    /\ Happens /\ Remains

\* The snapshot timer, every two seconds.
Tick ==
    /\ Publish(pos, entries, clock) \/ PublishRaises(pos, entries)
    /\ missed' = IF active' = 0 /\ truth = 0 THEN {} ELSE missed
    /\ UNCHANGED <<native, up, seeded, seen, truth, own, ended, crashes>>

(* current_cycle_for: a manager's drift guard projects, and stores nothing. *)
GuardReads ==
    /\ up /\ seeded
    /\ Folds(pos, entries)
    /\ dropped' = dropped \cup Closes(pos, entries)
    /\ missed' = IF active' = 0 /\ truth = 0 THEN {} ELSE missed
    /\ UNCHANGED <<native, up, seeded, seen, envelope, truth, own, ended, crashes, faults>>

-----------------------------------------------------------------------------
(* upsert() and _on_envelope_write. *)

\* Insert, or update if this event is newer than the stored one.
Stored(f) == IF table[f.id].ts < f.ts THEN [state |-> f.state, ts |-> f.ts] ELSE table[f.id]

\* uq_trade_cycle_active_key: at most one live row of a key.
Blocked(f) == Live(Stored(f).state) /\ LiveRows \ {f.id} # {}

Answer(f, at) == flights' = (flights \ {f}) \cup {[f EXCEPT !.at = at]}

Lands(f) ==
    /\ f.at = "sent" /\ ~Blocked(f)
    /\ table' = [table EXCEPT ![f.id] = Stored(f)]
    /\ \/ Answer(f, "done") /\ UNCHANGED faults
       \/ Answer(f, "failed") /\ faults < MaxFaults /\ faults' = faults + 1
    /\ UNCHANGED <<native, up, seeded, fold, written, pending, history, crashes>>

Refused(f) ==
    /\ f.at = "sent"
    /\ \/ Blocked(f) /\ UNCHANGED faults
       \/ faults < MaxFaults /\ faults' = faults + 1
    /\ Answer(f, "failed")
    /\ dropped' = dropped \cup (IF f.state = "CLOSED" THEN {f.id} ELSE {})
    /\ UNCHANGED <<native, up, seeded, fold, written, pending, table,
                   truth, own, ended, missed, gone, crashes>>

\* Mutant: a failed write keeps its slot.
ReleasedOnSuccess(f) ==
    IF f.at = "done" THEN [pending EXCEPT ![f.id] = 0] ELSE pending

\* The slot is free again, whatever became of the write.
Released(f) == [pending EXCEPT ![f.id] = 0]

(* Only the attempt that is waited for counts. *)
Callback(f) ==
    /\ f.at # "sent"
    /\ flights' = flights \ {f}
    /\ IF pending[f.id] = f.attempt
       THEN /\ pending' = Released(f)
            /\ written' = IF f.at = "done" THEN [written EXCEPT ![f.id] = f.state] ELSE written
       ELSE UNCHANGED <<pending, written>>
    /\ UNCHANGED <<native, up, seeded, fold, table, history, crashes, faults>>

-----------------------------------------------------------------------------
(* Restart. *)

\* The row a seed would find: load_active.
Recorded == IF LiveRows = {} THEN 0 ELSE CHOOSE id \in LiveRows : TRUE

(* A write that has not landed by now never will.  The position object, the *)
(* open or the last closed one, comes back with the durable cache.          *)
Crash ==
    /\ up /\ crashes < MaxCrashes /\ crashes' = crashes + 1
    /\ up' = FALSE /\ seeded' = FALSE
    /\ inflight' = {}
    /\ active' = 0
    /\ seen' = IF pos = 0 /\ legs # {} THEN {Max(legs)} ELSE {}
    /\ written' = [id \in Id |-> "none"] /\ pending' = [id \in Id |-> 0]
    /\ flights' = {}
    /\ dropped' = dropped \cup {f.id : f \in {g \in flights : g.state = "CLOSED" /\ g.at = "sent"}}
    /\ missed' = missed \cup (IF seeded /\ Recorded # active THEN {"unrecorded"} ELSE {})
    /\ UNCHANGED <<clock, pos, entries, legs, table, truth, own, ended, gone, faults>>

Restart ==
    /\ ~up /\ up' = TRUE
    /\ UNCHANGED <<native, seeded, fold, envelope, history, crashes, faults>>

\* Mutant: the seed thread opens the gate before it applies what it has read.
SeededFresh == active' = 0

\* _apply_seed: the cycle of the active row.
Resumes == active' = Recorded

(* The legs may stop at their deadline: none of this position then. *)
SeedApplies ==
    /\ up /\ ~seeded /\ seeded' = TRUE
    /\ Resumes
    /\ \/ seen' = seen \cup legs /\ UNCHANGED <<missed, faults>>
       \/ UNCHANGED seen /\ missed' = missed \cup {"legs"} /\ faults < MaxFaults /\ faults' = faults + 1
    /\ UNCHANGED <<native, up, envelope, truth, own, ended, gone, dropped, crashes>>

(* The seed fails or exceeds its budget: cycles are minted afresh. *)
SeedFails ==
    /\ up /\ ~seeded /\ seeded' = TRUE
    /\ faults < MaxFaults /\ faults' = faults + 1
    /\ missed' = missed \cup {"seed"}
    /\ dropped' = dropped \cup LiveRows
    /\ UNCHANGED <<native, up, fold, envelope, truth, own, ended, gone, crashes>>

-----------------------------------------------------------------------------
(* The specification. *)

Init ==
    /\ clock = 0 /\ pos = 0 /\ inflight = {} /\ entries = {} /\ legs = {}
    /\ up = TRUE /\ seeded = TRUE /\ active = 0 /\ seen = {}
    /\ written = [id \in Id |-> "none"] /\ pending = [id \in Id |-> 0]
    /\ flights = {} /\ table = [id \in Id |-> [state |-> "none", ts |-> 0]]
    /\ truth = 0 /\ own = {} /\ ended = 0 /\ missed = {} /\ gone = {} /\ dropped = {}
    /\ crashes = 0 /\ faults = 0

Native ==
    \/ Submitted \/ ClosesPosition
    \/ \E o \in inflight : Accepted(o)
    \/ \E o \in inflight \cup entries : Ends(o)
    \/ \E o \in entries \cup {0} : \E rest \in SUBSET {o} : Opens(o, rest)

Next ==
    \/ Native \/ Tick \/ GuardReads
    \/ \E f \in flights : Lands(f) \/ Refused(f) \/ Callback(f)
    \/ Crash \/ Restart \/ SeedApplies \/ SeedFails

Spec == Init /\ [][Next]_vars

(* The timer keeps firing, the database answers, and the loop runs the      *)
(* callbacks; the supervisor restarts the engine and its seed thread ends.  *)
Fairness ==
    /\ WF_vars(Tick /\ faults' = faults)
    /\ \A id \in Id : WF_vars(\E f \in flights :
                            f.id = id /\ (Lands(f) \/ Refused(f) \/ Callback(f)))
    /\ WF_vars(Restart) /\ WF_vars(SeedApplies)

LiveSpec == Spec /\ Fairness

-----------------------------------------------------------------------------
(* Properties. *)

TypeOK ==
    /\ clock \in 0..MaxClock /\ pos \in 0..clock
    /\ inflight \subseteq 1..clock /\ entries \subseteq 1..clock /\ legs \subseteq 1..clock
    /\ up \in BOOLEAN /\ seeded \in BOOLEAN
    /\ active \in 0..clock /\ seen \subseteq legs
    /\ written \in [Id -> State \cup {"none"}]
    /\ pending \in [Id -> Nat]
    /\ \A f \in flights :
          /\ f.id \in Id /\ f.state \in State /\ f.ts \in f.id..clock
          /\ f.attempt \in Nat \ {0} /\ f.at \in {"sent", "done", "failed"}
    /\ \A id \in Id : table[id].state \in State \cup {"none"} /\ table[id].ts \in 0..clock
    /\ truth \in 0..clock /\ missed \subseteq {"unseen", "unrecorded", "legs", "seed"}

\* The fold has seen every event, or resumed what was recorded before a crash.
Tracking == up /\ seeded /\ missed = {}

(* "the SAME reducer resumes on the SAME cycle_ids" (cycle_restart.py:22):  *)
(* one cycle keeps one id, across the flats an order bridges, restarts and  *)
(* whatever the store does, and two cycles never share one.                 *)
SameCycle == Tracking => active = truth

(* The legs a cycle's P&L is summed over (_cycle_legs) are those of the     *)
(* cycle: none is lost over a restart, none counted that belongs to another *)
(* cycle, unless the order that armed this one is older than its end.       *)
CountsItsLegs ==
    Tracking /\ active # 0 =>
        own \subseteq CycleLegs(active) /\ (active > ended => CycleLegs(active) = own)

(* A cycle that was emitted CLOSED keeps a live row, which a restart would  *)
(* resume, only while its write is on the way, or when that write was never *)
(* made or never landed.                                                    *)
ClosesExplained ==
    \A id \in gone \ dropped :
        Live(table[id].state) => \E f \in flights : f.id = id /\ f.state = "CLOSED"

(* Each change is written in the end: the cycle the engine follows gets a   *)
(* live row to resume from, whatever failed on the way, unless a cycle      *)
(* whose close was never written holds the one place the key has.           *)
Settles ==
    <>[](up /\ seeded /\ active # 0 => active \in LiveRows \/ LiveRows \cap dropped # {})

-----------------------------------------------------------------------------
(* Promises the code does not keep: see README. *)

(* "Nothing is lost by waiting - the projection re-emits every tick"        *)
(* (engine_node.py:8131): without a fault or a crash, every close is.       *)
ClosesRecorded ==
    faults = 0 /\ crashes = 0 =>
        \A id \in gone : Live(table[id].state) => \E f \in flights : f.id = id /\ f.state = "CLOSED"
=============================================================================
