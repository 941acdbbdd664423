----------------------------- MODULE OrderBlotter -----------------------------
(* The orders a human sees: the engine publishes an `order` frame on every   *)
(* order event and a snapshot of all orders every two seconds; one bounded   *)
(* queue and one writer thread carry both to Redis, events to a stream and   *)
(* snapshots to a key; the api reads stream and key in two tasks of its own  *)
(* and merges them into its blotter (consumer.py).                           *)
(*                                                                           *)
(* Instants are numbers: events happen at even ones, snapshots are taken     *)
(* between them, at odd ones.                                                *)
EXTENDS Integers, Sequences, FiniteSets, FiniteSetsExt, SequencesExt

CONSTANTS
    Order, NoSnapshot,
    MaxRecent,          \* closed orders a snapshot carries (100)
    MaxTerminal,        \* terminal orders the blotter keeps (200)
    QueueMax, StreamMax,
    MaxEvents, MaxStops     \* bounds of a run: order events; restarts and lost writes

ASSUME OrderBlotterAssumption ==
    /\ {MaxRecent, MaxTerminal, QueueMax, StreamMax, MaxEvents, MaxStops} \subseteq Nat
    /\ MaxRecent <= MaxTerminal /\ QueueMax > 0 /\ StreamMax > 0
    /\ IsFiniteSet(Order)

Status == {"SUBMITTED", "OPEN", "CLOSED"}

VARIABLES
    \* the engine: orders of the Nautilus cache, [status, ts, version], and what
    \* each was before its last event
    orders, was, events, running, queue,
    \* Redis
    stream, key,
    \* the api: how far it has read the stream, the value a poll has been
    \* given and not yet applied, the blotter
    cursor, polled, shown,
    \* history: orders with an event that was learned of after it happened,
    \* and with one that carries an earlier time than the one before it
    late, back,
    stops

engine == <<orders, was, events, running, queue>>
api == <<cursor, polled, shown>>
vars == <<engine, stream, key, api, late, back, stops>>

None == [status |-> "none", ts |-> 0, version |-> 0]
Known(o) == orders[o].status # "none"
Terminal(row) == row.status = "CLOSED"

-----------------------------------------------------------------------------
(* The engine. *)

\* _publish: a full queue drops the frame.
Enqueue(frame) == queue' = IF Len(queue) < QueueMax THEN Append(queue, frame) ELSE queue

\* What an order's next event makes of it.  One that the engine did not submit
\* itself is first known when its reconciliation finds it at the venue.
Becomes(o) ==
    CASE orders[o].status = "none" -> IF running THEN {"SUBMITTED"} ELSE {"OPEN", "CLOSED"}
      [] orders[o].status = "CLOSED" -> {}
      [] OTHER -> {"OPEN", "CLOSED"}

\* The cache knows of an event, now or later than it happened (t); on_order_event
\* publishes it, unless it was reconciled before the strategy runs.
Happens(o, status, t) ==
    LET now == 2 * (events + 1)
        row == [status |-> status, ts |-> t, version |-> orders[o].version + 1]
    IN  /\ events < MaxEvents /\ events' = events + 1
        /\ t <= now /\ (status = "SUBMITTED" => t = now)
        /\ orders' = [orders EXCEPT ![o] = row] /\ was' = [was EXCEPT ![o] = orders[o]]
        /\ IF running THEN Enqueue([kind |-> "order", order |-> o, row |-> row]) ELSE UNCHANGED queue
        /\ late' = IF t < now THEN late \cup {o} ELSE late
        /\ back' = IF t < orders[o].ts THEN back \cup {o} ELSE back
        /\ UNCHANGED <<running, stream, key, api, stops>>

Event(o) ==
    \E status \in Becomes(o) : \E n \in 1..(events + 1) : Happens(o, status, 2 * n)

IsRecent(o) ==
    Terminal(orders[o]) /\
    Cardinality({p \in Order : Terminal(orders[p]) /\ orders[p].ts > orders[o].ts}) < MaxRecent

\* Mutant: orders in flight are listed too.
ListedInFlight(o) == orders[o].status \in {"SUBMITTED", "OPEN"} \/ IsRecent(o)

\* Open orders and the most recent closed ones; not those still in flight.
Listed(o) == orders[o].status = "OPEN" \/ IsRecent(o)

\* _on_snapshot.  One that says what the last one said changes nothing.
Snapshot ==
    LET rows == [o \in {p \in Order : Listed(p)} |-> orders[o]]
        frame == [kind |-> "orders", rows |-> rows, ts |-> 2 * events + 1]
    IN  /\ running
        /\ key # frame /\ \A i \in DOMAIN queue : queue[i] # frame
        /\ Enqueue(frame)
        /\ UNCHANGED <<orders, was, events, running, stream, key, api, late, back, stops>>

\* The writer thread: snapshots overwrite a key, events are appended to a
\* stream that keeps its newest entries.
Drain ==
    /\ running /\ queue # <<>>
    /\ queue' = Tail(queue)
    /\ IF Head(queue).kind = "orders"
       THEN key' = Head(queue) /\ UNCHANGED <<stream, cursor>>
       ELSE LET full == Len(stream) = StreamMax
            IN  /\ stream' = Append(IF full THEN Tail(stream) ELSE stream, Head(queue))
                /\ cursor' = IF full /\ cursor > 0 THEN cursor - 1 ELSE cursor
                /\ UNCHANGED key
    /\ UNCHANGED <<orders, was, events, running, polled, shown, late, back, stops>>

\* The write fails: the frame is gone.
DrainFails ==
    /\ running /\ queue # <<>> /\ queue' = Tail(queue)
    /\ stops < MaxStops /\ stops' = stops + 1
    /\ UNCHANGED <<orders, was, events, running, stream, key, api, late, back>>

EngineStops ==
    /\ running /\ stops < MaxStops /\ stops' = stops + 1
    /\ running' = FALSE /\ queue' = <<>>
    /\ UNCHANGED <<orders, was, events, stream, key, api, late, back>>

\* While it is down the keys expire, and a repair of the cache (revive_order)
\* may cut a false rejection off an order: its last event is then an older one.
KeyExpires ==
    /\ ~running /\ key # NoSnapshot /\ key' = NoSnapshot
    /\ UNCHANGED <<engine, stream, api, late, back, stops>>

Repaired(o) ==
    /\ ~running /\ Terminal(orders[o]) /\ was[o].status = "OPEN"
    /\ orders' = [orders EXCEPT ![o] = [was[o] EXCEPT !.version = orders[o].version + 1]]
    /\ UNCHANGED <<was, events, running, queue, stream, key, api, late, back, stops>>

EngineStarts ==
    /\ ~running /\ running' = TRUE
    /\ UNCHANGED <<orders, was, events, queue, stream, key, api, late, back, stops>>

-----------------------------------------------------------------------------
(* The api. *)

\* Terminal orders past the cap: the oldest go.
Pruned(book) ==
    {P \in SUBSET {o \in Order : Terminal(book[o])} :
        /\ Cardinality(P) = Max({0, Cardinality({o \in Order : Terminal(book[o])}) - MaxTerminal})
        /\ \A o \in P : \A p \in Order \ P : Terminal(book[p]) => book[o].ts <= book[p].ts}

\* _upsert_order, for every order of a set.
Upserted(book, rows) ==
    LET merged == [o \in Order |-> IF o \in DOMAIN rows THEN rows[o] ELSE book[o]]
    IN  {[o \in Order |-> IF o \in P THEN None ELSE merged[o]] : P \in Pruned(merged)}

\* _read_loop: an event is applied whatever it is.
StreamRead ==
    /\ cursor < Len(stream)
    /\ cursor' = cursor + 1
    /\ LET frame == stream[cursor + 1]
       IN  shown' \in Upserted(shown, [o \in {frame.order} |-> frame.row])
    /\ UNCHANGED <<engine, stream, key, polled, late, back, stops>>

\* _poll_state_once: GET, then, when the answer is there, _reconcile_orders.
PollReads ==
    /\ polled = NoSnapshot /\ key # NoSnapshot
    /\ polled' = key
    /\ UNCHANGED <<engine, stream, key, cursor, shown, late, back, stops>>

\* Mutant: the row's own time decides alone.
TakenByTime(o) == polled.rows[o].ts >= shown[o].ts

\* A row at least as fresh as the one held; or one still open, in a snapshot
\* taken after the end that is held.
Taken(o) ==
    \/ shown[o].status = "none" \/ polled.rows[o].ts >= shown[o].ts
    \/ Terminal(shown[o]) /\ ~Terminal(polled.rows[o]) /\ polled.ts > shown[o].ts

\* Mutant: an order absent from the snapshot is dropped however new it is.
AbsentAnyway(o) == o \notin DOMAIN polled.rows /\ shown[o].status \in {"SUBMITTED", "OPEN"}

\* A working order the snapshot does not list, and could have.
Absent(o) ==
    /\ o \notin DOMAIN polled.rows
    /\ shown[o].status \in {"SUBMITTED", "OPEN"}
    /\ shown[o].ts <= polled.ts

PollApplies ==
    /\ polled # NoSnapshot /\ polled' = NoSnapshot
    /\ LET kept == [o \in Order |-> IF Absent(o) THEN None ELSE shown[o]]
           taken == {o \in DOMAIN polled.rows : Taken(o)}
       IN  shown' \in Upserted(kept, [o \in taken |-> polled.rows[o]])
    /\ UNCHANGED <<engine, stream, key, cursor, late, back, stops>>

\* The api restarts: it reads what the stream still holds, then the key.
ApiRestarts ==
    /\ stops < MaxStops /\ stops' = stops + 1
    /\ cursor' = 0 /\ polled' = NoSnapshot /\ shown' = [o \in Order |-> None]
    /\ UNCHANGED <<engine, stream, key, late, back>>

-----------------------------------------------------------------------------
(* The specification. *)

Init ==
    /\ orders = [o \in Order |-> None] /\ was = orders /\ events = 0 /\ running = TRUE /\ queue = <<>>
    /\ stream = <<>> /\ key = NoSnapshot
    /\ cursor = 0 /\ polled = NoSnapshot /\ shown = [o \in Order |-> None]
    /\ late = {} /\ back = {} /\ stops = 0

Next ==
    \/ \E o \in Order : Event(o) \/ Repaired(o)
    \/ Snapshot \/ Drain \/ DrainFails \/ EngineStops \/ KeyExpires \/ EngineStarts
    \/ StreamRead \/ PollReads \/ PollApplies \/ ApiRestarts

Spec == Init /\ [][Next]_vars

(* The timers fire, the writer and the two tasks of the api run, and the     *)
(* supervisor restarts the engine.                                           *)
Fairness ==
    /\ WF_vars(Snapshot) /\ WF_vars(Drain) /\ WF_vars(EngineStarts)
    /\ WF_vars(StreamRead) /\ WF_vars(PollReads) /\ WF_vars(PollApplies)

LiveSpec == Spec /\ Fairness

-----------------------------------------------------------------------------
(* Properties. *)

Row == [status : Status, ts : 0..(2 * MaxEvents), version : Nat] \cup {None}

TypeOK ==
    /\ orders \in [Order -> Row] /\ shown \in [Order -> Row]
    /\ Len(queue) <= QueueMax /\ Len(stream) <= StreamMax
    /\ cursor \in 0..Len(stream)
    /\ \A s \in {key, polled} \ {NoSnapshot} : \A o \in DOMAIN s.rows : s.rows[o].status # "SUBMITTED"
    /\ Cardinality({o \in Order : Terminal(shown[o])}) <= MaxTerminal

(* "never revert a newer streamed event ... never drop an order the snapshot *)
(* simply predates" (_reconcile_orders), whatever was in flight when the     *)
(* snapshot was read: of orders whose events the engine learned of at once.  *)
NeverReverts ==
    [][\A o \in Order \ late :
          polled # NoSnapshot /\ polled' = NoSnapshot /\ stops' = stops =>
              \/ shown'[o].version >= shown[o].version
              \/ /\ shown'[o].status = "none"
                 /\ \/ Terminal(shown[o]) \/ orders[o].status # "OPEN"
                    \/ orders[o].version > shown[o].version]_vars

(* The blotter heals: once nothing more happens, an order that is open in   *)
(* the engine is shown as it is, and no order is shown at work that is not,     *)
(* whichever frames the queue dropped, the stream trimmed or a restart lost; *)
(* but for orders whose times run backwards.                                 *)
Heals ==
    \A o \in Order :
        <>[](\/ o \in back
             \/ IF orders[o].status = "OPEN" THEN shown[o] = orders[o]
                ELSE shown[o].status \in {"none", "CLOSED", orders[o].status})
=============================================================================
