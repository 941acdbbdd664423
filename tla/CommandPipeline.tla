-------------------------- MODULE CommandPipeline --------------------------
(***************************************************************************)
(* The command layer (#32, #39, #78): the api appends a command to the     *)
(* Redis stream ui:commands, the engine's reader thread takes it through a *)
(* consumer group, the durable ledger in Postgres is asked before anything *)
(* is submitted, and an ack goes back over ui:stream.                      *)
(*                                                                         *)
(* Delivery is at-least-once: an entry stays in the group's pending list   *)
(* until XACK, which comes last, and a restarted engine drains the pending *)
(* list before it reads new entries.  The ledger is what is meant to turn  *)
(* that into at-most-once submission.  The engine may crash between any    *)
(* two of the steps below, and every call to Postgres or Redis may fail.   *)
(*                                                                         *)
(* A stream entry is the number of its place in the stream; the api mints  *)
(* one command id per entry, so the entry stands for its command too.      *)
(***************************************************************************)
EXTENDS Naturals, Sequences, FiniteSets

CONSTANTS
    NumEntries,   \* bound: how many commands the api publishes
    BatchSize,    \* XREADGROUP count (10 in the code)
    Creating,     \* entries that create an order (submit_order, submit_bracket)
    Coid,         \* client order ids
    CoidOf,       \* the client order id each entry names
    MaxCrashes,   \* bound: how often the engine dies
    MaxFaults     \* bound: how many Postgres or Redis calls fail

Entry == 1..NumEntries

ASSUME PipelineAssumption ==
    /\ NumEntries \in Nat
    /\ BatchSize \in Nat \ {0}
    /\ Creating \subseteq Entry
    /\ CoidOf \in [Entry -> Coid]
    /\ MaxCrashes \in Nat
    /\ MaxFaults \in Nat

LedgerStatus == {"absent", "RESERVED", "DONE", "REJECTED"}

\* What a handler can answer, by the branch that answers it.
Reply == {"none", "ok", "refused", "ledger_down", "dup_coid", "dup_ok",
          "dup_rejected", "dup_unknown"}

\* The two engine statuses the acks carry; every reply but these is an error.
OkReply == {"ok", "dup_ok"}

VARIABLES
    published,  \* entries in the stream are 1..published
    cursor,     \* the group's last-delivered entry (in Redis)
    pel,        \* delivered and not yet XACKed (in Redis)
    ledger,     \* command_ledger row of each entry's command (in Postgres)
    up,         \* whether the engine process runs
    mode,       \* the reader's cursor: "pending" for '0', "new" for '>'
    batch,      \* the entries of the last read still to be handled
    pc,         \* where the handler of cur stands
    cur,        \* the entry being handled, 0 when none
    reply,      \* what the handler is about to ack
    seen,       \* _seen_orders, in memory only
    ackq,       \* the writer thread's queue of acks, in memory only
    acks,       \* what the api answers for GET /commands/{id}
    effects,    \* history: the commands applied
    failedClosed, \* history: entries whose reserve failed or timed out
    unread,     \* history: entries delivered by a read whose reply was lost
    crashes, faults

delivery == <<published, cursor, pel>>
reader   == <<up, mode, batch>>
handler  == <<pc, cur, reply>>
answers  == <<ackq, acks>>
history  == <<effects, failedClosed, unread>>
bounds   == <<crashes, faults>>
vars == <<published, cursor, pel, ledger, up, mode, batch, pc, cur, reply,
          seen, ackq, acks, effects, failedClosed, unread, crashes, faults>>

Init ==
    /\ published = 0 /\ cursor = 0 /\ pel = {}
    /\ ledger = [e \in Entry |-> "absent"]
    /\ up = TRUE /\ mode = "pending" /\ batch = <<>>
    /\ pc = "idle" /\ cur = 0 /\ reply = "none"
    /\ seen = {} /\ ackq = <<>>
    /\ acks = [e \in Entry |-> "pending"]
    /\ effects = <<>> /\ failedClosed = {} /\ unread = {}
    /\ crashes = 0 /\ faults = 0

Fault == faults < MaxFaults /\ faults' = faults + 1

Applied == {effects[i] : i \in DOMAIN effects}

-----------------------------------------------------------------------------
(* The api process. *)

\* POST /orders and its siblings: one XADD, one fresh command id.
Publish ==
    /\ published < NumEntries
    /\ published' = published + 1
    /\ UNCHANGED <<cursor, pel, ledger, reader, handler, seen, answers,
                   history, bounds>>

-----------------------------------------------------------------------------
(* The reader thread. *)

Reading == up /\ pc = "idle" /\ batch = <<>>

\* s is the first up to BatchSize members of S, in stream order.
FirstOf(S, s) ==
    /\ Len(s) = IF Cardinality(S) < BatchSize THEN Cardinality(S) ELSE BatchSize
    /\ \A i, j \in DOMAIN s : i < j => s[i] < s[j]
    /\ \A e \in S, i \in DOMAIN s : e < s[i] => \E j \in DOMAIN s : s[j] = e

\* XREADGROUP with id '0' returns this consumer's pending entries.
ReadPending ==
    /\ Reading /\ mode = "pending" /\ pel # {}
    /\ \E n \in 1..BatchSize : \E s \in [1..n -> pel] :
           FirstOf(pel, s) /\ batch' = s
    /\ UNCHANGED <<delivery, ledger, up, mode, handler, seen, answers,
                   history, bounds>>

\* An empty pending list switches the cursor to '>'.
PendingDrained ==
    /\ Reading /\ mode = "pending" /\ pel = {}
    /\ mode' = "new"
    /\ UNCHANGED <<delivery, ledger, up, batch, handler, seen, answers,
                   history, bounds>>

\* The number of entries the next read of new ones returns.
FreshCount ==
    IF published - cursor < BatchSize THEN published - cursor ELSE BatchSize

\* The next n entries, which the group moves to this consumer's pending list.
Fresh(n) == (cursor + 1)..(cursor + n)

Delivered(n) == cursor' = cursor + n /\ pel' = pel \cup Fresh(n)

Deliver(n) ==
    /\ Delivered(n)
    /\ batch' = [i \in 1..n |-> cursor + i]
    /\ UNCHANGED <<published, ledger, up, mode, handler, seen, answers,
                   history, bounds>>

\* Mutant: new entries are read before the pending list is drained.
ReadNewFirst == Reading /\ cursor < published /\ Deliver(FreshCount)

\* XREADGROUP with id '>' delivers new entries and makes them pending.
ReadNew ==
    /\ Reading /\ mode = "new" /\ cursor < published
    /\ Deliver(FreshCount)

\* Redis served the read but its reply was lost (a socket timeout, a broken
\* connection): the entries are pending, and the reader goes on at '>'.
ReadNewLost ==
    /\ Reading /\ mode = "new" /\ cursor < published /\ Fault
    /\ Delivered(FreshCount)
    /\ unread' = unread \cup Fresh(FreshCount)
    /\ UNCHANGED <<published, ledger, reader, handler, seen, answers, effects,
                   failedClosed, crashes>>

\* One entry at a time: the reader waits for the handler to end.
Dispatch ==
    /\ up /\ pc = "idle" /\ batch # <<>>
    /\ cur' = Head(batch)
    /\ batch' = Tail(batch)
    /\ pc' = "reserve"
    /\ reply' = "none"
    /\ UNCHANGED <<delivery, ledger, up, mode, seen, answers, history, bounds>>

-----------------------------------------------------------------------------
(* The handler, on the engine's loop. *)

\* The unique index on client_order_id; null for commands that create nothing.
CoidTaken(e) ==
    /\ e \in Creating
    /\ \E d \in Creating \ {e} : ledger[d] # "absent" /\ CoidOf[d] = CoidOf[e]

AnswerWith(r) == reply' = r /\ pc' = "ack" /\ cur' = cur

\* A redelivered command mirrors the outcome its row records.
Mirror(status) ==
    CASE status = "DONE"     -> "dup_ok"
      [] status = "REJECTED" -> "dup_rejected"
      [] OTHER               -> "dup_unknown"

\* Mutant: a row left RESERVED by an interrupted attempt is tried again.
ReserveFirstRetries ==
    /\ up /\ pc = "reserve"
    /\ ledger[cur] \in {"absent", "RESERVED"} /\ ~CoidTaken(cur)
    /\ ledger' = [ledger EXCEPT ![cur] = "RESERVED"]
    /\ pc' = "submit"
    /\ UNCHANGED <<delivery, reader, cur, reply, seen, answers, history, bounds>>

ReserveFirst ==
    /\ up /\ pc = "reserve"
    /\ ledger[cur] = "absent" /\ ~CoidTaken(cur)
    /\ ledger' = [ledger EXCEPT ![cur] = "RESERVED"]
    /\ pc' = "submit"
    /\ UNCHANGED <<delivery, reader, cur, reply, seen, answers, history, bounds>>

ReserveDuplicateCommand ==
    /\ up /\ pc = "reserve"
    /\ ledger[cur] # "absent"
    /\ AnswerWith(Mirror(ledger[cur]))
    /\ UNCHANGED <<delivery, ledger, reader, seen, answers, history, bounds>>

ReserveDuplicateCoid ==
    /\ up /\ pc = "reserve"
    /\ ledger[cur] = "absent" /\ CoidTaken(cur)
    /\ AnswerWith("dup_coid")
    /\ UNCHANGED <<delivery, ledger, reader, seen, answers, history, bounds>>

\* Unreachable, or slower than _LEDGER_TIMEOUT_SECS: fail closed.  A call that
\* timed out may still have committed its row.
ReserveFails ==
    /\ up /\ pc = "reserve" /\ Fault
    /\ \/ ledger' = ledger
       \/ /\ ledger[cur] = "absent" /\ ~CoidTaken(cur)
          /\ ledger' = [ledger EXCEPT ![cur] = "RESERVED"]
    /\ AnswerWith("ledger_down")
    /\ failedClosed' = failedClosed \cup {cur}
    /\ UNCHANGED <<delivery, reader, seen, answers, effects, unread, crashes>>

\* Disarmed, malformed, or the target order is unknown: nothing is submitted.
SubmitRefused ==
    /\ up /\ pc = "submit"
    /\ reply' = "refused" /\ pc' = "mark"
    /\ UNCHANGED <<delivery, ledger, reader, cur, seen, answers, history, bounds>>

\* The in-memory guard: this life has already submitted the order.
AlreadySeen == cur \in Creating /\ CoidOf[cur] \in seen

Submit ==
    /\ up /\ pc = "submit"
    /\ effects' = IF AlreadySeen THEN effects ELSE Append(effects, cur)
    /\ seen' = IF cur \in Creating THEN seen \cup {CoidOf[cur]} ELSE seen
    /\ reply' = "ok" /\ pc' = "mark"
    /\ UNCHANGED <<delivery, ledger, reader, cur, answers, failedClosed, unread,
                   bounds>>

\* Mutant: every handled command is marked DONE.
OutcomeDone(r) == "DONE"

Outcome(r) == IF r \in OkReply THEN "DONE" ELSE "REJECTED"

Mark ==
    /\ up /\ pc = "mark"
    /\ ledger' = [ledger EXCEPT ![cur] = Outcome(reply)]
    /\ pc' = "ack"
    /\ UNCHANGED <<delivery, reader, cur, reply, seen, answers, history, bounds>>

\* Audit only: a failed mark is logged and the answer stands.
MarkFails ==
    /\ up /\ pc = "mark" /\ Fault
    /\ pc' = "ack"
    /\ UNCHANGED <<delivery, ledger, reader, cur, reply, seen, answers,
                   history, crashes>>

\* Mutant: the handler forgets which entry it is on before the XACK.
PublishAckForgetsEntry ==
    /\ up /\ pc = "ack"
    /\ ackq' = Append(ackq, [cmd |-> cur, reply |-> reply])
    /\ pc' = "xack" /\ cur' = 0
    /\ UNCHANGED <<delivery, ledger, reader, reply, seen, acks, history, bounds>>

\* _publish puts the ack on the writer's queue.
PublishAck ==
    /\ up /\ pc = "ack"
    /\ ackq' = Append(ackq, [cmd |-> cur, reply |-> reply])
    /\ pc' = "xack"
    /\ UNCHANGED <<delivery, ledger, reader, cur, reply, seen, acks,
                   history, bounds>>

\* A full queue drops a live frame rather than stall the loop.
DropAck ==
    /\ up /\ pc = "ack" /\ Fault
    /\ pc' = "xack"
    /\ UNCHANGED <<delivery, ledger, reader, cur, reply, seen, answers,
                   history, crashes>>

Xack ==
    /\ up /\ pc = "xack"
    /\ pel' = pel \ {cur}
    /\ pc' = "idle" /\ cur' = 0 /\ reply' = "none"
    /\ UNCHANGED <<published, cursor, ledger, reader, seen, answers, history, bounds>>

\* A Redis error in XACK is swallowed: the entry stays pending.
XackFails ==
    /\ up /\ pc = "xack" /\ Fault
    /\ pc' = "idle" /\ cur' = 0 /\ reply' = "none"
    /\ UNCHANGED <<delivery, ledger, reader, seen, answers, history, crashes>>

-----------------------------------------------------------------------------
(* The writer thread and the api's ack store. *)

\* accepted for ok, rejected for every error.
StatusOf(r) == IF r \in OkReply THEN "accepted" ELSE "rejected"

DeliverAck ==
    /\ up /\ ackq # <<>>
    /\ LET a == Head(ackq)
       IN acks' = [acks EXCEPT ![a.cmd] = StatusOf(a.reply)]
    /\ ackq' = Tail(ackq)
    /\ UNCHANGED <<delivery, ledger, reader, handler, seen, history, bounds>>

\* XADD to ui:stream fails: the frame is logged and gone.
LoseAck ==
    /\ up /\ ackq # <<>> /\ Fault
    /\ ackq' = Tail(ackq)
    /\ UNCHANGED <<delivery, ledger, reader, handler, seen, acks,
                   history, crashes>>

-----------------------------------------------------------------------------
(* The process. *)

Crash ==
    /\ up /\ crashes < MaxCrashes
    /\ crashes' = crashes + 1
    /\ up' = FALSE
    /\ batch' = <<>> /\ pc' = "idle" /\ cur' = 0 /\ reply' = "none"
    /\ seen' = {} /\ ackq' = <<>>
    /\ UNCHANGED <<delivery, ledger, mode, acks, history, faults>>

\* Mutant: the restarted reader goes straight to new entries.
RestartAtNew ==
    /\ ~up
    /\ up' = TRUE /\ mode' = "new"
    /\ UNCHANGED <<delivery, ledger, batch, handler, seen, answers, history, bounds>>

\* The group's cursor and pending list survive; the reader starts over at '0'.
Restart ==
    /\ ~up
    /\ up' = TRUE /\ mode' = "pending"
    /\ UNCHANGED <<delivery, ledger, batch, handler, seen, answers, history, bounds>>

Read    == ReadPending \/ PendingDrained \/ ReadNew \/ ReadNewLost \/ Dispatch
Reserve == ReserveFirst \/ ReserveDuplicateCommand \/ ReserveDuplicateCoid \/ ReserveFails
Act     == SubmitRefused \/ Submit
Finish  == Mark \/ MarkFails \/ PublishAck \/ DropAck \/ Xack \/ XackFails
Writer  == DeliverAck \/ LoseAck

Engine == Read \/ Reserve \/ Act \/ Finish

Next == Publish \/ Engine \/ Writer \/ Crash \/ Restart

\* The reader thread and the handler keep running, the writer thread keeps
\* draining, and the container is restarted; nobody has to publish or crash.
Fairness == WF_vars(Engine) /\ WF_vars(Writer) /\ WF_vars(Restart)

Spec == Init /\ [][Next]_vars /\ Fairness

-----------------------------------------------------------------------------
(* Properties. *)

\* Every variable stays in its range.
TypeOK ==
    /\ published \in 0..NumEntries
    /\ cursor \in 0..published
    /\ pel \subseteq 1..cursor
    /\ ledger \in [Entry -> LedgerStatus]
    /\ up \in BOOLEAN
    /\ mode \in {"pending", "new"}
    /\ batch \in Seq(Entry)
    /\ pc \in {"idle", "reserve", "submit", "mark", "ack", "xack"}
    /\ cur \in 0..NumEntries
    /\ (pc = "idle") <=> (cur = 0)
    /\ reply \in Reply
    /\ seen \subseteq Coid
    /\ ackq \in Seq([cmd : Entry, reply : Reply])
    /\ acks \in [Entry -> {"pending", "accepted", "rejected"}]
    /\ effects \in Seq(Entry)
    /\ failedClosed \subseteq Entry
    /\ unread \subseteq Entry
    /\ crashes \in Nat
    /\ faults \in Nat

\* However often an entry is redelivered, across crashes, lost XACKs and ledger
\* timeouts, its command is applied at most once, and no client order id is
\* submitted under two commands (command_ledger.py, the module docstring).
AtMostOnce ==
    \A i, j \in DOMAIN effects : i # j =>
        /\ effects[i] # effects[j]
        /\ {effects[i], effects[j]} \subseteq Creating
             => CoidOf[effects[i]] # CoidOf[effects[j]]

\* A terminal ledger row never lies: DONE only for a command that was applied,
\* REJECTED only for one that never was.  This is what a redelivery mirrors.
LedgerTellsTruth ==
    \A e \in Entry :
        /\ ledger[e] = "DONE" => e \in Applied
        /\ ledger[e] = "REJECTED" => e \notin Applied

\* GET /commands/{id} says accepted only for a command that was applied.
AcceptedWasApplied ==
    \A e \in Entry : acks[e] = "accepted" => e \in Applied

\* Commands take effect in stream order, across batches, crashes and the
\* pending list.  Two kinds can come late: one whose reserve failed, and one the
\* reader never saw because the reply that delivered it was lost.
InStreamOrder ==
    \A i, j \in DOMAIN effects :
        (i < j /\ effects[i] > effects[j]) =>
            effects[j] \in failedClosed \cup unread

\* As long as no Redis or Postgres call fails, crashes alone strand nothing:
\* every published command is delivered and leaves the pending list.
EveryCommandSettles ==
    \A e \in Entry :
        (published >= e) ~> ((cursor >= e /\ e \notin pel) \/ faults > 0)

Once == INSTANCE OrderOnce WITH
            Command <- Entry,
            applied <- effects,
            answer  <- acks

\* The pipeline implements the promise of OrderOnce.
ImplementsOnce == Once!Spec

-----------------------------------------------------------------------------
(* Promises the code does not keep: see README. *)

\* app.py:1353 and models.py:414: a lost ack never reads as a false rejected.
NoFalseReject ==
    \A e \in Entry : acks[e] = "rejected" => e \notin Applied

\* engine_node.py:3457, "orders must apply in order": the reader steps over the
\* entries of a read whose reply was lost, and applies what came after them.
AppliedInOrder ==
    \A i, j \in DOMAIN effects :
        (i < j /\ effects[i] > effects[j]) => effects[j] \in failedClosed

\* command_ledger.py:7: when the ledger cannot be reached the command is
\* rejected for good; an order that goes out after the human was told so is
\* the "late surprise order" the fail-closed rule exists to prevent.
NoLateSurprise ==
    [][\A e \in Entry :
         (acks[e] = "rejected" /\ e \notin Applied) => e \notin Applied']_vars
=============================================================================
