----------------------------- MODULE Transfers -----------------------------
(***************************************************************************)
(* Internal position transfers between strategies: the outbox log in       *)
(* Postgres, the two internal legs booked through the Nautilus cache and   *)
(* event queue, and the recovery a restarted engine runs from the outbox.  *)
(*                                                                         *)
(* One instrument is modelled; positions of different instruments never    *)
(* meet.  A position is a signed quantity per strategy (NETTING).          *)
(*                                                                         *)
(* The command handler runs up to its next await in one step, so fills,    *)
(* lane trades, new protective exits, the recovery task and a crash can    *)
(* all come between two of its steps.                                      *)
(***************************************************************************)
EXTENDS Integers, Sequences, FiniteSets, FiniteSetsExt

CONSTANTS
    Strategy,     \* strategies that may hold the instrument
    Registered,   \* the ones this node runs
    Transfer,     \* transfer commands (the command id is the transfer id)
    Source, Target, Side, Qty,   \* what each transfer asks for
    InitPos,      \* the positions to begin with
    MaxTrades,    \* bound: trades of the lanes on their own account
    MaxExits,     \* bound: protective exits placed
    MaxCrashes,   \* bound: engine crashes
    MaxFaults     \* bound: failing calls to Postgres

NetOf(p) == MapThenSumSet(LAMBDA s : p[s], DOMAIN p)

ASSUME TransferAssumption ==
    /\ Registered \subseteq Strategy
    /\ Source \in [Transfer -> Strategy] /\ Target \in [Transfer -> Strategy]
    /\ Side \in [Transfer -> {"LONG", "SHORT"}]
    /\ Qty \in [Transfer -> Nat \ {0}]
    /\ InitPos \in [Strategy -> Int]
    /\ IsFiniteSet(Strategy) /\ NetOf(InitPos) \in Int

Event == {"PREPARED", "SOURCE_APPLIED", "DEST_APPLIED", "COMPLETED", "FAILED"}
Leg == Transfer \X {"SRC", "DST"}

VARIABLES
    pos,       \* position of each strategy (Nautilus cache, durable)
    net,       \* what the broker holds
    resting,   \* quantity resting in each strategy's reducing orders
    fresh,     \* transfers whose source has not moved since the human read it
    inbox,     \* transfer commands delivered or pending, not yet XACKed
    log,       \* outbox events of each transfer (Postgres)
    orders,    \* legs whose order is in the cache (durable)
    evq,       \* leg fills in the engine's event queue, in memory only
    fills,     \* history: how often each leg's fill was booked
    lost,      \* history: legs whose fill a crash took out of the queue
    mute,      \* history: legs cached by a call that then raised
    up,
    pc, cur,   \* the command handler
    rpc, todo, rcur,  \* the recovery task
    answer,    \* what each command was last answered
    trades, exits, crashes, faults

book    == <<pos, net, resting, fresh>>
legs    == <<orders, evq, fills, lost, mute>>
handler == <<pc, cur>>
recovery == <<rpc, todo, rcur>>
bounds  == <<trades, exits, crashes, faults>>
vars == <<pos, net, resting, fresh, inbox, log, orders, evq, fills, lost, mute,
          up, pc, cur, rpc, todo, rcur, answer, trades, exits, crashes, faults>>

None == "none"

Init ==
    /\ pos = InitPos /\ net = NetOf(InitPos)
    /\ resting = [s \in Strategy |-> 0]
    /\ fresh = {} /\ inbox = {}
    /\ log = [t \in Transfer |-> {}]
    /\ orders = {} /\ evq = <<>> /\ fills = [l \in Leg |-> 0]
    /\ lost = {} /\ mute = {}
    /\ up = TRUE
    /\ pc = "idle" /\ cur = None
    /\ rpc = "read" /\ todo = {} /\ rcur = None
    /\ answer = [t \in Transfer |-> None]
    /\ trades = 0 /\ exits = 0 /\ crashes = 0 /\ faults = 0

Fault == faults < MaxFaults /\ faults' = faults + 1

-----------------------------------------------------------------------------
(* Around the transfer: the human, the lanes, the protection reconciler.    *)

\* The api reads the source's ts_last and sends it with the command.
Send(t) ==
    /\ t \notin inbox /\ answer[t] = None
    /\ inbox' = inbox \cup {t}
    /\ fresh' = fresh \cup {t}
    /\ UNCHANGED <<pos, net, resting, log, legs, up, handler, recovery, answer, bounds>>

Moved(s) == fresh' = {t \in fresh : Source[t] # s}

\* A fill of one of the lane's own orders; exits still resting hold the shares.
Trade(s, d) ==
    /\ trades < MaxTrades /\ trades' = trades + 1
    /\ resting[s] = 0
    /\ pos' = [pos EXCEPT ![s] = @ + d]
    /\ net' = net + d
    /\ Moved(s)
    /\ UNCHANGED <<resting, inbox, log, legs, up, handler, recovery, answer,
                   exits, crashes, faults>>

Abs(n) == IF n < 0 THEN -n ELSE n

\* The protection reconciler rests an exit the size of the position.
PlaceExit(s) ==
    /\ up /\ exits < MaxExits /\ exits' = exits + 1
    /\ resting[s] = 0 /\ pos[s] # 0
    /\ resting' = [resting EXCEPT ![s] = Abs(pos[s])]
    /\ UNCHANGED <<pos, net, fresh, inbox, log, legs, up, handler, recovery,
                   answer, trades, crashes, faults>>

-----------------------------------------------------------------------------
(* Legs. *)

Sign(side) == IF side = "LONG" THEN 1 ELSE -1

\* Mutant: both legs trade on the same side.
LegDeltaOneSided(l) == Sign(Side[l[1]]) * Qty[l[1]]

\* Moving a LONG sells the source and buys the target; a SHORT is the mirror.
LegDelta(l) ==
    LET q == Sign(Side[l[1]]) * Qty[l[1]]
    IN IF l[2] = "SRC" THEN -q ELSE q

LegStrategy(l) == IF l[2] = "SRC" THEN Source[l[1]] ELSE Target[l[1]]

\* _account_id() reads the account off any open position.
AccountVisible == \E s \in Strategy : pos[s] # 0

\* Cache the order under its deterministic id, then queue its events.
BookLeg(l) ==
    /\ l \notin orders /\ AccountVisible
    /\ orders' = orders \cup {l}
    /\ evq' = Append(evq, l)
    /\ UNCHANGED <<fills, lost, mute>>

\* add_order refuses an id the cache has; without an account the call raises
\* only after the order is cached, and queues no event.
LegRaises(l) ==
    /\ \/ l \in orders /\ UNCHANGED <<orders, mute>>
       \/ /\ l \notin orders /\ ~AccountVisible
          /\ orders' = orders \cup {l}
          /\ mute' = mute \cup {l}
    /\ UNCHANGED <<evq, fills, lost>>

\* The execution engine takes the next event off its queue.
ProcessFill ==
    /\ up /\ evq # <<>>
    /\ LET l == Head(evq)
           s == LegStrategy(l)
       IN /\ pos' = [pos EXCEPT ![s] = @ + LegDelta(l)]
          /\ fills' = [fills EXCEPT ![l] = @ + 1]
          /\ Moved(s)
    /\ evq' = Tail(evq)
    /\ UNCHANGED <<net, resting, inbox, log, orders, lost, mute, up, handler,
                   recovery, answer, bounds>>

-----------------------------------------------------------------------------
(* The command handler. *)

Answer(t, a) ==
    /\ answer' = [answer EXCEPT ![t] = a]
    /\ inbox' = inbox \ {t}
    /\ pc' = "idle" /\ cur' = None

Holds(s, side) == IF Sign(side) * pos[s] > 0 THEN Abs(pos[s]) ELSE 0

Opposite(side) == IF side = "LONG" THEN "SHORT" ELSE "LONG"

\* transfers.validate, against the live cache.
Valid(t) ==
    LET held == Holds(Source[t], Side[t])
    IN /\ Qty[t] <= held
       /\ Target[t] # Source[t]
       /\ Holds(Target[t], Opposite(Side[t])) = 0
       /\ Target[t] \in Registered
       /\ t \in fresh
       /\ resting[Source[t]] <= held - Qty[t]

Handling(t) == up /\ pc = "idle" /\ t \in inbox

\* A redelivered command is answered from the outbox.
AlreadyApplied(t) ==
    /\ Handling(t) /\ log[t] # {}
    /\ Answer(t, "ok")
    /\ UNCHANGED <<book, log, legs, up, recovery, bounds>>

\* Invalid, or no price to book it at.
Refuse(t) ==
    /\ Handling(t) /\ log[t] = {}
    /\ Answer(t, "error")
    /\ UNCHANGED <<book, log, legs, up, recovery, bounds>>

\* Mutant: the first leg is booked before PREPARED is durable.
AcceptUnrecorded(t) ==
    /\ Handling(t) /\ log[t] = {} /\ Valid(t)
    /\ pc' = "source" /\ cur' = t
    /\ UNCHANGED <<book, inbox, log, legs, up, recovery, answer, bounds>>

Accept(t) ==
    /\ Handling(t) /\ log[t] = {} /\ Valid(t)
    /\ pc' = "prepare" /\ cur' = t
    /\ UNCHANGED <<book, inbox, log, legs, up, recovery, answer, bounds>>

Recorded(t, e) == log' = [log EXCEPT ![t] = @ \cup {e}]

\* The handler's awaits, the event each commits, and where it goes next.
Awaiting == {"prepare", "source_booked", "dest_booked", "complete"}
EventOf(p) ==
    CASE p = "prepare"       -> "PREPARED"
      [] p = "source_booked" -> "SOURCE_APPLIED"
      [] p = "dest_booked"   -> "DEST_APPLIED"
      [] p = "complete"      -> "COMPLETED"
After(p) ==
    CASE p = "prepare"       -> "source"
      [] p = "source_booked" -> "dest"
      [] p = "dest_booked"   -> "complete"

RecordStep ==
    /\ up /\ pc \in Awaiting \ {"complete"}
    /\ Recorded(cur, EventOf(pc))
    /\ pc' = After(pc) /\ cur' = cur
    /\ UNCHANGED <<book, inbox, legs, up, recovery, answer, bounds>>

RecordCompleted ==
    /\ up /\ pc = "complete"
    /\ Recorded(cur, "COMPLETED")
    /\ Answer(cur, "ok")
    /\ UNCHANGED <<book, legs, up, recovery, bounds>>

\* The commit raises; whether it reached the log is unknown.  PREPARED is
\* outside the apply step's handler, so only the later ones record FAILED.
RecordFails ==
    /\ up /\ pc \in Awaiting /\ Fault
    /\ log' = log \/ Recorded(cur, EventOf(pc))
    /\ IF pc = "prepare"
       THEN Answer(cur, "error")
       ELSE pc' = "fail" /\ UNCHANGED <<cur, answer, inbox>>
    /\ UNCHANGED <<book, legs, up, recovery, trades, exits, crashes>>

\* The leg each sync part of _apply_transfer books.
LegOf(p) == IF p = "source" THEN "SRC" ELSE "DST"
Booked(p) == IF p = "source" THEN "source_booked" ELSE "dest_booked"

ApplyLeg ==
    /\ up /\ pc \in {"source", "dest"}
    /\ BookLeg(<<cur, LegOf(pc)>>)
    /\ pc' = Booked(pc) /\ cur' = cur
    /\ UNCHANGED <<book, inbox, log, up, recovery, answer, bounds>>

ApplyLegRaises ==
    /\ up /\ pc \in {"source", "dest"}
    /\ LegRaises(<<cur, LegOf(pc)>>)
    /\ pc' = "fail" /\ cur' = cur
    /\ UNCHANGED <<book, inbox, log, up, recovery, answer, bounds>>

\* FAILED is recorded if the log can be reached; the answer is an error anyway.
RecordFailed ==
    /\ up /\ pc = "fail"
    /\ \/ Recorded(cur, "FAILED") /\ UNCHANGED faults
       \/ log' = log /\ Fault
    /\ Answer(cur, "error")
    /\ UNCHANGED <<book, legs, up, recovery, trades, exits, crashes>>

-----------------------------------------------------------------------------
(* Recovery, started by on_start next to everything else. *)

Rank(e) ==
    CASE e = "PREPARED" -> 0 [] e = "FAILED" -> 1 [] e = "SOURCE_APPLIED" -> 2
      [] e = "DEST_APPLIED" -> 3 [] e = "COMPLETED" -> 4

\* The furthest state the events of a transfer reach.
Fold(es) == CHOOSE e \in es : \A d \in es : Rank(d) <= Rank(e)

\* Mutant: the whole log is replayed.
IncompleteAll ==
    {[id |-> t, state |-> Fold(log[t])] : t \in {u \in Transfer : log[u] # {}}}

\* Everything in the log that is not COMPLETED, FAILED included.
Incomplete ==
    {[id |-> t, state |-> Fold(log[t])] :
        t \in {u \in Transfer : log[u] # {} /\ Fold(log[u]) # "COMPLETED"}}

RecoverRead ==
    /\ up /\ rpc = "read"
    /\ \/ todo' = Incomplete /\ rpc' = "loop" /\ UNCHANGED faults
       \/ rpc' = "off" /\ todo' = {} /\ Fault
    /\ rcur' = None
    /\ UNCHANGED <<book, inbox, log, legs, up, handler, answer, trades, exits, crashes>>

\* Mutant: the cache is not asked for the leg.
QueuedAlways(q, l) == Append(q, l)

QueuedIfMissing(q, l) == IF l \in orders THEN q ELSE Append(q, l)
FirstMissing(t) == IF <<t, "SRC">> \in orders THEN <<t, "DST">> ELSE <<t, "SRC">>

LegSet(t) == {<<t, "SRC">>, <<t, "DST">>}

\* A failure with nothing cached stays failed.
RecoverSkip(p) ==
    /\ up /\ rpc = "loop" /\ p \in todo
    /\ p.state = "FAILED" /\ orders \cap LegSet(p.id) = {}
    /\ todo' = todo \ {p}
    /\ UNCHANGED <<book, inbox, log, legs, up, handler, rpc, rcur, answer, bounds>>

\* Book the legs the cache does not have.
RecoverLegs(p) ==
    /\ up /\ rpc = "loop" /\ p \in todo
    /\ ~(p.state = "FAILED" /\ orders \cap LegSet(p.id) = {})
    /\ AccountVisible \/ LegSet(p.id) \subseteq orders
    /\ orders' = orders \cup LegSet(p.id)
    /\ evq' = QueuedIfMissing(QueuedIfMissing(evq, <<p.id, "SRC">>), <<p.id, "DST">>)
    /\ rpc' = "complete" /\ rcur' = p.id /\ todo' = todo \ {p}
    /\ UNCHANGED <<book, inbox, log, fills, lost, mute, up, handler, answer, bounds>>

\* The first missing leg raises after its order is cached.
RecoverRaises(p) ==
    /\ up /\ rpc = "loop" /\ p \in todo
    /\ ~(p.state = "FAILED" /\ orders \cap LegSet(p.id) = {})
    /\ ~AccountVisible /\ ~(LegSet(p.id) \subseteq orders)
    /\ orders' = orders \cup {FirstMissing(p.id)}
    /\ mute' = mute \cup {FirstMissing(p.id)}
    /\ rpc' = "failed" /\ rcur' = p.id /\ todo' = todo \ {p}
    /\ UNCHANGED <<book, inbox, log, evq, fills, lost, up, handler, answer, bounds>>

\* COMPLETED, or FAILED when that commit raises.
RecoverRecord ==
    /\ up /\ rpc = "complete"
    /\ \/ Recorded(rcur, "COMPLETED") /\ rpc' = "loop" /\ rcur' = None /\ UNCHANGED faults
       \/ log' = log /\ rpc' = "failed" /\ rcur' = rcur /\ Fault
    /\ UNCHANGED <<book, inbox, legs, up, handler, todo, answer, trades, exits, crashes>>

\* A FAILED that cannot be recorded ends the task with the rest of the list.
RecoverFailed ==
    /\ up /\ rpc = "failed"
    /\ \/ /\ Recorded(rcur, "FAILED") /\ rpc' = "loop"
          /\ UNCHANGED <<todo, faults>>
       \/ log' = log /\ rpc' = "off" /\ todo' = {} /\ Fault
    /\ rcur' = None
    /\ UNCHANGED <<book, inbox, legs, up, handler, answer, trades, exits, crashes>>

RecoverDone ==
    /\ up /\ rpc = "loop" /\ todo = {}
    /\ rpc' = "off"
    /\ UNCHANGED <<book, inbox, log, legs, up, handler, todo, rcur, answer, bounds>>

-----------------------------------------------------------------------------
(* The process. *)

Crash ==
    /\ up /\ crashes < MaxCrashes /\ crashes' = crashes + 1
    /\ up' = FALSE
    /\ lost' = lost \cup {evq[i] : i \in DOMAIN evq}
    /\ evq' = <<>>
    /\ pc' = "idle" /\ cur' = None
    /\ rpc' = "off" /\ todo' = {} /\ rcur' = None
    /\ UNCHANGED <<book, inbox, log, orders, fills, mute, answer, trades, exits, faults>>

\* Mutant: on_start forgets the recovery.
RestartUnrecovered ==
    /\ ~up
    /\ up' = TRUE
    /\ UNCHANGED <<book, inbox, log, legs, handler, recovery, answer, bounds>>

Restart ==
    /\ ~up
    /\ up' = TRUE /\ rpc' = "read"
    /\ UNCHANGED <<book, inbox, log, legs, handler, todo, rcur, answer, bounds>>

Handle ==
    \/ \E t \in Transfer : AlreadyApplied(t) \/ Refuse(t) \/ Accept(t)
    \/ RecordStep \/ RecordCompleted \/ RecordFails
    \/ ApplyLeg \/ ApplyLegRaises \/ RecordFailed

Recover ==
    \/ RecoverRead \/ RecoverRecord \/ RecoverFailed \/ RecoverDone
    \/ \E p \in todo : RecoverSkip(p) \/ RecoverLegs(p) \/ RecoverRaises(p)

Environment ==
    \/ \E t \in Transfer : Send(t)
    \/ \E s \in Strategy : PlaceExit(s) \/ \E d \in {-1, 1} : Trade(s, d)

Next == Environment \/ Handle \/ Recover \/ ProcessFill \/ Crash \/ Restart

\* The loop runs its tasks and its queue, and the container restarts.
Fairness == WF_vars(Handle) /\ WF_vars(Recover) /\ WF_vars(ProcessFill) /\ WF_vars(Restart)

Spec == Init /\ [][Next]_vars /\ Fairness

-----------------------------------------------------------------------------
(* Properties. *)

\* Every variable stays in its range.
TypeOK ==
    /\ pos \in [Strategy -> Int] /\ net \in Int
    /\ resting \in [Strategy -> Nat]
    /\ fresh \subseteq Transfer /\ inbox \subseteq Transfer
    /\ log \in [Transfer -> SUBSET Event]
    /\ orders \subseteq Leg /\ evq \in Seq(Leg) /\ fills \in [Leg -> Nat]
    /\ lost \subseteq Leg /\ mute \subseteq Leg
    /\ up \in BOOLEAN
    /\ pc \in Awaiting \cup {"idle", "source", "dest", "fail"}
    /\ IF pc = "idle" THEN cur = None ELSE cur \in Transfer
    /\ rpc \in {"off", "read", "loop", "complete", "failed"} /\ (~up => rpc = "off")
    /\ IF rpc \in {"complete", "failed"} THEN rcur \in Transfer ELSE rcur = None
    /\ todo \subseteq [id : Transfer, state : Event \ {"COMPLETED"}]
    /\ answer \in [Transfer -> {None, "ok", "error"}]
    /\ trades \in Nat /\ exits \in Nat /\ crashes \in Nat /\ faults \in Nat

\* However a handler, its redelivery and the recovery task race, no leg of a
\* transfer is booked twice (transfers.source_order_id, _recover_transfers).
LegBookedOnce == \A l \in Leg : fills[l] <= 1

\* The outbox never understates: a cached leg has a row that recovery reads,
\* and COMPLETED is only ever written over two cached legs.
OutboxCoversLegs ==
    \A t \in Transfer :
        /\ orders \cap LegSet(t) # {} => log[t] # {}
        /\ "COMPLETED" \in log[t] => LegSet(t) \subseteq orders
        /\ <<t, "DST">> \in orders => <<t, "SRC">> \in orders

Quiet == up /\ pc = "idle" /\ rpc = "off" /\ evq = <<>>

\* engine_node.py:5297: a transfer changes only which strategy owns the
\* position.  With no crash and no failing store the books add up to what the
\* broker holds after every transfer, the failed ones too (as long as some
\* position stays open to name the account a leg is booked to); with them,
\* when every transfer is COMPLETED or without a leg and no queued fill died
\* in a crash, no leg was cached by a call that raised.
BooksBalance ==
    /\ Quiet
    /\ \/ crashes = 0 /\ faults = 0
       \/ /\ lost = {} /\ mute = {}
          /\ \A t \in Transfer : "COMPLETED" \in log[t] \/ orders \cap LegSet(t) = {}
    => NetOf(pos) = net

HalfBooked(t) == orders \cap LegSet(t) # {} /\ ~(LegSet(t) \subseteq orders)

\* A transfer a crash cut between its legs is finished by recovery.
RecoveryFinishes ==
    \A t \in Transfer :
        (~up /\ HalfBooked(t)) ~> (LegSet(t) \subseteq orders \/ faults > 0)

-----------------------------------------------------------------------------
(* Promises the code does not keep: see README. *)

\* transfers.py:127: a resting exit is never left larger than the position it
\* would close, else its trigger sells more than the source still holds.
ExitsCovered == \A s \in Strategy : resting[s] <= Abs(pos[s])

\* engine_node.py:1542: a leg found in the cache landed before the crash, so a
\* recovered transfer leaves the books equal to the broker's net.
RecoveredBooksBalance ==
    /\ Quiet /\ crashes > 0 /\ mute = {}
    /\ \A t \in Transfer : "COMPLETED" \in log[t] \/ orders \cap LegSet(t) = {}
    => NetOf(pos) = net

\* engine_node.py:1564: a transfer that failed before anything landed is left
\* alone; nobody confirmed it again.
RefusedStaysRefused ==
    [][\A t \in Transfer :
         (answer[t] = "error" /\ orders \cap LegSet(t) = {})
             => orders' \cap LegSet(t) = {}]_vars
=============================================================================
