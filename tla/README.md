# Verification of the kumo trading platform

TLA+ models of the parts of this repository where order, failure and restart
decide whether the books are right, the TLC runs that check them on small
instances, and theorems about them checked by TLAPS for every value of the
constants.

* [Reading the project](#reading-the-project)
* [The system](#the-system)
* [Modules](#modules)
* [Runs](#runs)
* [Proofs](#proofs)
* [Where the code does not keep its word](#where-the-code-does-not-keep-its-word)
* [What is not modelled](#what-is-not-modelled)
* [Plan](#plan)

## Reading the project

| file | what it is |
| --- | --- |
| `OrderOnce.tla` | what the command layer promises the human, without delivery, ledger or restarts |
| `CommandPipeline.tla` | the command layer as it is built |
| `Transfers.tla` | position transfers between strategies |
| `Managers.tla` | automations attached to a position |
| `ProtectionPlan.tla`, `ExitRelease.tla` | protective stops, and the exits that need their shares |
| `Sleeves.tla` | capital: its transactions and the gate that spends it |
| `AlpacaOrders.tla` | what the engine believes of an order at Alpaca, which it learns by asking |
| `TradeCycles.tla` | the trade-cycle projection, its durable envelope and the seed |
| `OrderBlotter.tla` | the orders a human sees: queue, stream, snapshots, merge |
| `MC*.tla`, `*.cfg` | the small instances TLC checks |
| `Totals.tla` | sums over finite sets and their laws, for the proofs |
| `*Proofs.tla` | theorems and their proofs |
| `PROJECT.json` | components, runs, mutants, source lines of every definition, hazards, theorems |

Check one run with `tlc -config Transfers.cfg MCTransfers.tla`, one module of
proofs with `tlapm TransfersProofs.tla`.

In every module one action is one stretch of code between two points where
something else can run: an `await` of the engine's event loop, a step of a
thread, a message in a queue, a committed transaction. The process can die
between any two of them. A call to Postgres or Redis may fail, and where the
code cannot tell whether a failed commit reached the database, both outcomes
are possible. Variables are split, in their comments, into what survives a
crash (Postgres rows, Redis streams, the durable Nautilus cache, the venue) and
what lives in memory only. Variables marked *history* are read by properties
and never by a guard.

## The system

One process, the **engine**, runs a Nautilus trading node: the UI strategy
`UiFeedStrategy` (id MANUAL-001, `engine_node.py`) and the sibling strategy
lanes. Another, the **api** (`app.py`, `consumer.py`), serves the browser from a
mirror of what the engine publishes and never touches Nautilus. Between them
stands Redis: `ui:commands` towards the engine, `ui:stream`, a bar stream and
`ui:state:*` keys back. Postgres holds what has to survive: the command ledger,
the transfer outbox, managers and their events, trade-cycle envelopes, sleeves.
The venue is Alpaca or Interactive Brokers.

    browser -> api --XADD--> ui:commands --XREADGROUP--> reader thread
                                                            |  one at a time
                                          event loop: handler -> ledger, venue
                                                            |
    browser <- api <--poll-- ui:stream, ui:state:* <-- writer thread <- queue

Inside the engine these run concurrently: the reader thread, the writer thread,
the seed thread, and on the event loop the command handler, the timers
(protection, manager dispatch, state frames), fills, and the recovery tasks
that `on_start` schedules side by side.

### Components

**Command layer** (`app.py`, `consumer.py`, `command_ledger.py`, `engine_node.py`
3433-3690 and 6941-6975). *State:* the stream with its group cursor and pending
list, `command_ledger` rows, the in-memory `_seen_orders`, the ack queue, the
api's ack store. *Operations:* publish, read pending, read new, reserve, submit,
mark, ack, XACK. *Hard:* delivery is at-least-once and every step can be the last
before a crash. *Correct when:* nothing is applied twice, nothing is reported
accepted that was not applied, commands take effect in order, nothing published
is stranded.

**Position transfers** (`transfers.py`, `engine_node.py` 1535-1581 and 5295-5444).
*State:* the outbox `position_transfer_event`, the legs in the Nautilus cache and
event queue, positions. *Operations:* validate, PREPARED, source leg, target leg,
COMPLETED or FAILED, recover. *Hard:* two legs that are not atomic, a cache that
outlives its event queue, a recovery task that runs beside the handler, and a
validation that is stale after the first await. *Correct when:* each leg is
booked once, the two books add up to the broker's, an interrupted transfer is
finished, no resting exit is larger than its position.

**Manager framework** (`managers.py`, `engine_node.py` 4403-5293, 7363-7423,
11127-11564). *State:* `manager` rows, their events, what the passes hold.
*Operations:* attach, tick, claim, record intent, apply, record outcome, hand off,
OFF, reconcile. *Hard:* overlapping dispatch passes, a crash between an order
and its outcome, chains of rows that replace each other, OFF against a hand-off.
*Correct when:* a row's order goes out at most once and never before its intent,
one pass at a time applies a row, outcomes are final, OFF holds, a stop-out leads
to one re-entry.

**Protection and exit release** (`protection.py`, `protective_reconcile.py`,
`engine_node.py` 2440-3284 and 6063-6795). *State:* resting stops at the venue and
in the cache, `_exit_suppressed`, `_exit_windows`, `_protection_running`.
*Operations:* reconcile from the broker's rows, release (cancel, confirm, wait for
the shares), standoff, re-arm. *Hard:* the stop reserves the shares its own exit
needs, and the two are run by different coroutines. *Correct when:* a position is
never left bare for longer than a release and a tick, never covered twice, and an
exit whose shares were released is not robbed of them.

**Flatten and liquidate** (`flatten.py`, `engine_node.py` 3705-4191). *State:* the
ledger row and the close orders. *Operations:* flatten a position, flatten a lane,
queue for the open. *Hard:* partial success over several positions. *Correct
when:* each position is closed once, and what could not be closed is pursued.

**PEAK and PYRAMID** (`engine_node.py` 12149-12880, `managers.py` 410-511). Manager
kinds with a budget of trims or adds over a chain. *Correct when:* the budget is
never exceeded, also by a link revived after a crash.

**Capital sleeves and budget gate** (`budget_store.py`, `session_budget.py`,
`budget_guard.py`). *State:* `strategy_sleeve`, `sleeve_transfer`, a cached book.
*Operations:* distribute unallocated capital, transfer on a sell, check an order.
*Hard:* overlapping transactions at READ COMMITTED, a check against a cached sum.
*Correct when:* capital is conserved, no sleeve goes below zero, a transfer is
applied once, an entry never exceeds its sleeve.

**Alpaca adapter** (`providers/alpaca/exec_client.py`, `exec_read_guard.py`). *State:*
the venue's record of an order, the order in the Nautilus cache, a coroutine per
submit and per cancel, the outcome of the last read of all orders. *Operations:*
POST, look up after a POST without an answer, DELETE, cancel all, read one order,
read all orders. *Hard:* there is no order stream; a request may be lost, land
late, or land and lose its answer; an unanswered question must not become an
answer; Nautilus's two timers ask beside the coroutines. *Correct when:* an order
that rests at the venue is not closed in the cache and the other way round, and
what the venue closes is seen.

**Mirror and writer** (`consumer.py`, `engine_node.py` 10070-10140). *State:* the
bounded queue, the order blotter, prices, positions. *Hard:* streamed events and
polled snapshots of one thing, frames dropped from a full queue. *Correct when:* a
closed order does not stay working, and a newer state is not replaced by an older
one for good.

**Trade cycles** (`trade_cycle.py`, `cycle_store.py`, `cycle_restart.py`). *State:* the
projection and its envelope rows. *Hard:* which
flats an order bridged is not native state, so the fold must miss nothing; writes
are coalesced, land late, or are refused by a unique index; a seed thread resumes
after a restart. *Correct when:* one trade keeps one cycle id and its legs, a
restart resumes the cycle it had, each change is written in the end.

The remaining components, with the reason each is left out, are in
[What is not modelled](#what-is-not-modelled) and in `PROJECT.json`.

## Modules

### OrderOnce and CommandPipeline

`OrderOnce` says what the human may rely on: a sequence of applied commands in
which no command and no client order id occurs twice, and an answer per command
that says accepted only of an applied one. `CommandPipeline` is the code.

| variable | code | survives a crash |
| --- | --- | --- |
| `published`, `cursor`, `pel` | the stream, the group's last-delivered id, its pending list | yes (Redis) |
| `ledger` | `command_ledger.status` | yes (Postgres) |
| `mode`, `batch` | `cursor` and the entries of `_drain_commands` | no |
| `pc`, `cur`, `reply` | where `_handle_order_command_idempotent` stands | no |
| `seen` | `_seen_orders` | no |
| `ackq` | the writer's queue | no |
| `acks` | `_acks` of the mirror | yes (the api does not restart here) |
| `failedClosed`, `unread` | history: a reserve failed, the reply to the read that delivered the entry was lost | - |

A stream entry stands for its command, since the api mints one command id per
entry. Entries in `Creating` carry a client order id, and two of them may carry
the same one. `SubmitRefused` covers a disarmed engine, a malformed payload and
an unknown order; which of them it was does not matter to the properties. A
`reserve` that times out may or may not have committed (`ReserveFails`), because
`asyncio.wait_for` cancels a call the database may have finished. A read of the stream
may fail after Redis has served it (`ReadNewLost`): its entries are in the pending list,
and the reader, which sleeps and continues there, goes on at `>` and meets them after
the next restart. The bounded ack store and the bounded writer queue are a fault each.

*Bounds.* Three commands, two of which create an order under one client order id
and the third cancels it; batches of two, so a batch boundary falls between
them; one crash and two faults, so that a failing reserve, a lost XACK and a lost
read can meet in pairs. A second crash adds no step that one crash does not reach: a restart
forgets everything in memory.

*Fairness.* The reader with its handler, the writer thread and the restart of the
container are weakly fair. Publishing, crashing and failing are not.

### Transfers

| variable | code | survives |
| --- | --- | --- |
| `pos` | positions of the Nautilus cache | yes (durable cache) |
| `net` | the broker's position | yes |
| `resting` | open reducing orders of a strategy | yes |
| `log` | `position_transfer_event` | yes |
| `orders` | the leg's deterministic order id is in the cache | yes |
| `evq` | the execution engine's queue | no |
| `inbox` | the command is delivered and not yet XACKed | yes |
| `fresh` | `source_ts_last` of the request still matches the position | yes |

A LONG transfer sells the source and buys the target, a SHORT one the mirror
(`LegDelta`). `BookLeg` caches the order and queues its events in one step, since
`_apply_leg` has no await; `ProcessFill` is the engine taking the fill off its
queue, at any later point. `LegRaises` is a leg whose order is already cached, or
for which `_account_id` finds no open position; in the second case the order
has already been added to the cache when the call raises. Recovery folds the
outbox, skips what is COMPLETED or failed with nothing cached, and books what
the cache does not have.

*Bounds.* Two transfers, one LONG and one SHORT, to one target: whichever comes
first makes the other one's validation depend on the opposite side. One trade of
a lane, one crash, one fault in `transfers`. `transfers_live` has no trades but
one protective exit. One unit per transfer: no guard compares more than a
quantity with a position and with a resting quantity, and both sides of each
comparison occur.

*Fairness.* Handler, recovery task, event queue and restart are weakly fair: one
event loop runs them all. A transfer is not guaranteed to finish if the store
fails, so `RecoveryFinishes` says "or a call failed" and its run has no faults:
a behaviour with one satisfies it.

### Managers

| variable | code | survives |
| --- | --- | --- |
| `mgr`, `st` | `manager` rows and their `state` | yes |
| `off`, `intent` | OFF and INTENT_RECORDED rows of `manager_event` | yes |
| `orders` | the row's order id is in the cache | only with `KUMO_DURABLE_CACHE` (`Durable`) |
| `working`, `held`, `cycle`, `close` | the venue and the position's trade cycle | yes |
| `pc`, `cur`, `got`, `todo` | the dispatch passes of `_dispatch_managers_of_kind`; `got` is the state `record_event` is about to write | no |
| `rpc`, `rcur`, `rseen`, `rgot`, `rtodo`, `rleft` | `_startup_manager_check`, with its own `record_event` | no |
| `req` | the OFF command, whose transaction timestamp is taken at its start | no |
| `reverted`, `yanked`, `twice`, `late` | history: the rows the reconciliation took back, those of them claimed since the restart, the rows it and a pass both recorded, the rows turned off between check and hand-off | - |

Three kinds are modelled. `deferred_flatten` sends one close. The stop-reenter
watch waits for the fill of a reducing order and, if it was the stop, attaches a
rearm; the rearm submits a re-entry bracket and attaches the next watch until
`rearm_max`. A dispatch pass reads the ARMED rows of a kind, claims one with a
conditional UPDATE, records the intent, applies and records the outcome. `record_event`
reads the state, folds the event onto it, inserts the event and writes the state, and its
UPDATE does not ask whether the row still has the state that was read
(`managers.py:244`): it is two steps, `ReadForOutcome` and `RecordOutcome`, with anything
in between. Several passes overlap because the timer, the startup check and the kick of the seed
thread all start one. The decision of an apply (floor broken, no price, cap
reached) is a choice where it depends on prices. `OffCommits` cancels what is
still cancelable in the chain and leaves an OFF event on every row that existed
when its transaction began, which is how `chain_cancelled` compares
`created_at` with the event's time.

*Bounds.* `managers`: two passes, three rows and `rearm_max` 2, so the chain is
watch, rearm, watch, with one failing call and one crash. `managers_faults`: two rows (a
watch and its rearm, or a queued flatten), two failing calls, one OFF and one
crash, so a failed outcome, the crash and the reconciliation of what they left meet;
`rearm_max` is 2 there, so that a rearm has a hand-off that can fail and its outcome may
be the one the reconciliation overwrites. Longer chains under OFF have the theorem
`OffIsHonoured`. Passes are interchangeable, and their
symmetry is used where no liveness is checked. The liveness run has one pass:
a second one only ever claims rows the first has not. The runs have the durable
cache; without it (`Durable = FALSE`) a restart may forget any order and reverts
nothing, a smaller state space for which the theorems hold as well.

*Fairness.* `Sweep(d)` and `Work(d)` are weakly fair for each pass (a coroutine
runs to its end, the timer keeps ticking), restart, seed and reconciliation too.
Claiming a row is strongly fair: a trigger that keeps being met is acted on by
one of the repeated passes, which only read it again on each tick.

### ProtectionPlan and ExitRelease

`ProtectionPlan` has no variables: which legs `plan_protection` finds uncovered and
for how much, which stops `plan_cancels` takes away, what a flip replaces.
`ExitRelease` runs it.

| variable | code | survives |
| --- | --- | --- |
| `net`, `stop`, `exit`, `session` | the venue: shares, resting stops, exit orders, market hours | yes |
| `cache` | `cache.positions_open()`, which follows a fill when it is seen | (no restart here) |
| `standoff` | `_exit_suppressed` with its deadline | no |
| `rel` | where `release_for_exit` of each lane stands, and for how much | no |
| `pass` | where `_reconcile_protection_inner` stands, and what it has read | no |

A pass reads the venue's rows, then its orders, then acts: three steps with
awaits between them, in which the venue fills, releases run and exits arrive. It acts
on what it read. A flip cancels, waits for the confirmation and places. A release
marks the standoff, cancels by cache and by venue, waits for the cancels and for the
shares, and ends released, failed or timed out; `slow` and `saw` are the facts
its answers depend on. A standoff lapses by its deadline and is pruned by the next
pass. The engine does not restart in this model: what a restart forgets (standoff,
releases, the pass) is what `standoff` lapsing and a failed release lose too.

*Bounds.* `exit_release`: two lanes with one share and one trailing stop each, one
of them to be flipped to a floor; two releases and one mishap (a cancel nobody asked
for, a refused placement, a stop that fills, a lapsed standoff, a closing
session, ...), on a venue that reserves shares. `protection`: the same book with
one release and one mishap on a venue that does not reserve shares, so that
oversize stops can rest. One share per lane is enough for every comparison of the
plan to have both results; quantities that divide unevenly are in the table
of disagreements.

*Fairness.* The reconciler's timer, the steps of its pass and of each release,
and the venue's answers are weakly fair; trades, mishaps and the session are not.

### Sleeves

| variable | code | survives |
| --- | --- | --- |
| `actual`, `ledger` | `strategy_sleeve.actual`, `sleeve_transfer` | yes |
| `target` | the lane's number in the strategies settings | yes |
| `tx` | an open transaction and the book `load_book` gave it | no |
| `sold`, `deployed`, `working` | sell fills, positions at cost, entries on their way | yes |
| `book` | `_budget_cache` | no |

A transaction at READ COMMITTED is two steps: what it read, and what it commits.
A sale writes absolute balances computed from its read, a distribution adds to
the current row; a duplicate `fill_id` aborts. `raced` records which overlaps have
happened, and each property names the ones it excuses: these are the code's own
races, not bounds of the model.

*Bounds.* A lane with two units that is wound down, a lane with room for one, one
unit with nobody; two sales, two distributions, two transactions open at a time,
three deliveries in all (a sale redelivered beside another one), one change of a
target, one abort. Fills, runs and transactions are interchangeable. No liveness:
a fill whose transaction aborts is not retried by the code.

### AlpacaOrders

| variable | code | survives |
| --- | --- | --- |
| `venue`, `posts`, `deletes` | the venue's record; requests on their way | yes |
| `cached` | the order's status in the Nautilus cache | yes (durable cache) |
| `submit` | `_submit_order` with its lookup: `at`, `asks`, `lost`, `reply` | no |
| `cancel`, `sweeping` | a DELETE and its answer; a cancel-all waiting for its listing | no |
| `strikes` | the retry counters of Nautilus's inflight and open checks | no |
| `check`, `reading`, `outcome` | a read of all orders, another reader, `_venue_read_outcome` | no |

The venue accepts, refuses or never sees a POST; an answer may be lost either
way. An order that is canceled while the cache has it only as submitted has no venue id:
the client logs and returns (`CancelWithoutId`, `exec_client.py:1252`), and the order
stays PENDING_CANCEL in Nautilus with no DELETE sent, which the model tells apart as
`CANCEL_UNSENT`. The reply to a lookup is what the venue has or, of a live order,
"unlanded": suspended, pending_cancel or pending_replace, which `_LANDED_STATUSES` does
not list and `_ALPACA_TO_ORDER_STATUS` reads as open. What Nautilus does where the
source does not say is a choice: an order pending its cancel may refuse a rejection, and
a cancel that was not sent may take or refuse the news that it failed. In the reports of
the two checks an open order is one status. `Asks` (3) is `_SUBMIT_LOOKUP_ATTEMPTS`. Time is left out: a timer may fire
whenever it is armed, so every order of a late landing, a lookup and the two
checks occurs.

*Bounds.* One order: orders meet only in the read of all orders, which treats
each by itself. Three asks, two retries of each timer, three faults (each ask of a
lookup can be lost) and one restart. The theorems have no bounds.

*Fairness.* The coroutines, the two timers, and the answers to requests that are
not lost are weakly fair. Losing a request, filling and cancelling are not.

### TradeCycles

| variable | code | survives |
| --- | --- | --- |
| `pos`, `entries`, `legs` | position, open entry orders, closed positions of one key | yes (durable cache, position snapshots) |
| `inflight` | entry orders submitted and not accepted | no |
| `active` | `_ActiveCycle` of the projection | no |
| `seen` | the closed legs the projection finds or was seeded with | no |
| `written`, `pending` | `_envelope_written`, `_envelope_pending` | no |
| `flights` | upserts on their way, with their attempt number | no |
| `table` | rows of `trade_cycle` | yes |
| `up`, `seeded` | the process runs; the seed's gate is open | no |

Every native event is folded when it happens, because `_handle_order_event` runs
after the cache's update; the snapshot timer and `current_cycle_for` fold again.
`Publish` is `_publish_trades`: project, then hand a changed state to the store
unless a write of that cycle is in flight. A write may land late, fail, land and
report a failure, or be refused by `uq_trade_cycle_active_key`. `PublishRaises` is
an exception quarantined before or after the key is projected. After a crash the
seed applies the live row and the closed legs, or fails, or runs out of budget.
`truth` is what a fold that never misses an event would say, and is what
`SameCycle` compares with; `missed` names why the engine's may differ (events
while it was down, a crash before the row was written, a failed seed), and is
empty again when both are flat. A write that has not landed at a crash never does.

*Bounds.* Five native events at instants of their own, two entry orders alive, two
faults, one crash: enough for a cycle that bridges a flat, and for one that ends
before, during and after a restart. With seven events and one fault the invariants
hold as well (7.1 million states).

*Fairness.* The snapshot timer, the writes and callbacks of each cycle, the
restart and the seed thread are weakly fair; a tick counts only if it does not
raise, and faults are bounded.

### OrderBlotter

| variable | code | survives |
| --- | --- | --- |
| `orders` | orders of the Nautilus cache: status, `ts_last`, and how many events they have had | yes |
| `was` | the same before the last event, to which a repair of the cache cuts a false rejection back | yes |
| `queue` | the writer thread's bounded queue | engine stop loses it |
| `stream`, `key` | `ui:stream` and `ui:state:orders` in Redis | yes; the key expires |
| `cursor`, `polled`, `shown` | the api's place in the stream, a value read and not applied, `_orders` | api restart loses them |

Events happen at even instants, snapshots are taken at odd ones in between. An event
may be learned later than it happened (`late`: a fill reconciled at the venue's
time) and may carry an earlier time than the one before it (`back`). A stream entry
is applied whatever it is; a snapshot's row is taken, and a missing order dropped,
by the time comparisons of `_reconcile_orders`. One order that is only submitted is
in no snapshot, since `orders_open` does not list it.

*Bounds.* Two orders and three events, queue and stream of two, one closed order in a
snapshot and one kept by the blotter: two orders that close meet both caps, the
queue drops and the stream trims. One restart, of engine or api, or one lost
write. With four events `TypeOK` and `NeverReverts` hold as well (5.3 million
states).

*Fairness.* The snapshot timer, the writer thread, the api's two tasks and the
restart of the engine are weakly fair. Events end when their bound is used up, which
is the "once nothing more happens" of `Heals`.

## Runs

| run | properties | what it shows |
| --- | --- | --- |
| `command_pipeline` | `TypeOK` `AtMostOnce` `LedgerTellsTruth` `InStreamOrder` `ImplementsOnce` `EveryCommandSettles` | redelivery after crashes, lost XACKs, lost reads and ledger timeouts does not repeat commands, and reorders only those whose reserve failed or whose delivery the reader never saw; DONE and REJECTED rows are true; the pipeline implements `OrderOnce`; crashes alone strand nothing |
| `transfers` | `TypeOK` `LegBookedOnce` `OutboxCoversLegs` `BooksBalance` | each leg is booked once under an outbox row that recovery reads; books and broker agree unless a queued fill was lost or a leg was cached by a call that raised |
| `transfers_live` | `RecoveryFinishes` | a transfer cut between its legs is finished after the restart |
| `managers` | `LinksDontFork` | a chain hands off once |
| `managers_faults` | `TypeOK` `EffectOnce` `ApplyExclusive` `CancelledDoesNothing` `TerminalStays` `OffHonoured` | one order per row, one pass per row, no hand-off after an OFF it could see, OFF and outcomes final unless a pass and the reconciliation were at one row, also when writes fail before, between and after the effects |
| `managers_live` | `StuckResolved` | a row caught APPLYING by a crash gets an outcome |
| `exit_release` | `RobbedOnlyIfLost` | the venue refuses a released exit only if the standoff was lost or could not help, or a stop had filled |
| `protection` | `BareGetsCovered` `OversizeCorrected` | whatever one fault, trade, fill or failed release leaves bare or oversize is covered or cut back |
| `sleeves` | `LogExplainsBalances` `SourceNotOverdrawn` `WithinMeans` `DistributionFair` | replays, retries and overlapping distributions apply once and are explained by the log; a lane is granted only what another has freed; the split of a pot is fair for every small book |
| `alpaca_orders` | `TypeOK` `NoCorpse` `NoPhantom` `NothingFromSilence` `CancelPursued` `Surfaces` | through lost and late requests and a restart an order that rests is closed in the cache in four named ways only, what is accepted in the cache has been at the venue, a cancel that was sent is seen through; what the venue closes is seen |
| `trade_cycles` | `TypeOK` `SameCycle` `CountsItsLegs` `ClosesExplained` `Settles` | one cycle keeps one id and its legs; a close is lost in the named ways only; the followed cycle ends up recorded |
| `order_blotter` | `TypeOK` `NeverReverts` `Heals` | a snapshot never takes a newer event back; whatever was dropped, trimmed or lost, the blotter ends up true |

The models stop when every bound is used up, so deadlock is not checked; a
command or a row that must not be stuck has a liveness property instead. Each
property of a passing run has a mutant in `PROJECT.json`: a definition of the
code with a plausible bug (a dropped guard, an effect before its record, a missing
restart step) under which TLC finds the property violated.

## Proofs

What TLC checks on small instances these theorems establish for every number
of entries, strategies, lanes, transfers, rows, passes, orders, crashes and faults.
They assume only the named `ASSUME` of each module: types of the constants, and finitely
many strategies (`Transfers`), lanes (`Sleeves`) and orders (`OrderBlotter`), which is
what the sums and the caps need to mean anything.

**CommandPipelineProofs.** `TypeCorrect`, `AppliedAtMostOnce`, `LedgerIsTruthful`,
`AcceptedIsTrue`, `PipelineImplementsOnce` and `StreamOrderKept`. `AtMostOnce` is not
inductive: nothing in it says why a second submit is impossible. The invariant `IInv` adds
what the handler knows at each of its awaits (at `submit` its row is RESERVED and
its command is not applied; at `mark` the reply is ok exactly if it was applied),
that whatever was applied has a row, that rows are unique per order id, and that an
ok in the ack queue is about an applied command. A by-product is `GuardIsSpare`:
behind the ledger the in-memory guard of `_handle_order_command` never fires.
The refinement maps a submit to `Apply`, a delivered ack to `Accept` or
`Reject`, and every other step to a stutter. `InStreamOrder` looks back over the whole
history; `StreamOrder` says what keeps it true at the moment of a submit: whatever is
older than the command in hand is settled (it has a row, or it is one of those that may
come late), whatever the reader left behind is still in the pending list, a batch of new
entries is read only when nothing is pending but what a lost reply delivered, and within a
batch older entries come first. A crash empties the
batch and falls back on the pending list, which is why that part is needed.

**TransfersProofs.** `TypeCorrect`, `BookedOnce`, `LegsAreCovered`, `BooksAddUp`,
`BooksAddUpWithAccount`. A leg is booked
once because its fill is either still to be queued, in the queue, processed or
lost, and never two of these: the invariant counts its occurrences in `evq` by
injectivity of the queue and disjointness from `fills` (`LegsSettle`).
`LegsAreCovered` adds what the handler and the recovery task know at each of
their awaits: which legs are cached, and that the rows they came from are there
(`Covered`). `BooksBalance` is about a sum over all strategies. Its invariant says that
the strategies' books differ from what the broker holds by exactly the legs that have
landed (`NetExplained`), that a cached leg has landed, is queued, or is lost or mute
(`LegsPlaced`), and that without crash and fault only the transfer in the handler's hands
has one leg (`HalfAtHand`); the two legs of a transfer cancel, so a quiet engine balances.
`BooksAddUp` holds while no leg is mute (cached by a call that then raises for want of an
account); `BooksAddUpWithAccount` drops the condition where some position is always open
to read the account from. TLC refutes it otherwise (see the table below).

**ManagersProofs** has `TypeCorrect`, whose `TypeOK` already says that a pass works
on a row exactly while it has claimed one, `SentOnce`, `IntentComesFirst`,
`OnePassPerRow`, `OutcomesAreFinal`, `CancelledIsInert`, `OffIsHonoured` and
`ChainsAreLines`. Its invariants are layered: `Owned` (a claimed row is APPLYING
and held by one pass unless the startup reconciliation took it back, which is
only possible for rows claimed before it finished), then `Sending` on top of it
(an order goes out only behind an intent; an order once placed stays in the cache,
or its row is never claimable again: without a durable cache the reconciliation
touches nothing). `EffectOnce` rests on the second half: that is why
reverting rows on a volatile cache would be wrong. `Noting` says what the gap in
`record_event` may hide: a pass that records its intent is about to write APPLYING, and one
that records its outcome an outcome, unless the reconciliation took the row back or
recorded it as well (`yanked`, `twice`); those are the rows `TerminalStays` excepts. `Linked` does the same for
`LinksDontFork`: a rearm hands off only behind the order it sent, which it sends once,
and a row that was never reverted and has a successor is past the hand-off in every pass
that holds it.

**SleevesProofs** has `TypeCorrect`, `BalancesAreExplained`, `SourceHolds`, `MeansSuffice`,
`AnyDistributionIsFair` and, from it, `DistributionsAreFair`. `LogExplainsBalances` is a sum over the log; it is inductive
once a transaction's rows are known to carry ids the log has not got, which the duplicate
check and the primary key give. `WithinMeans` is not: a sale lowers what a lane
has deployed first and its sleeve later, and in between the difference must not be spent.
`Covered` adds what was sold and has not been handed over to what must still be in the
sleeve. `plan_distribution` is proved fair for any lanes, shortfalls and pot
(`AnyDistributionIsFair`), beyond the small ones the run enumerates: what rounding
down leaves over is no more than one unit for each lane that was rounded.

**Totals** has the sums of `TransfersProofs` and `SleevesProofs`. They are folds, and what a fold computes is a
fact about every finite set, which calls for an induction. The library's induction
theorems take an operator as parameter; instead each law is proved by its least
counterexample, the smallest subset for which it fails (`SmallestSubset`, from the
well-foundedness of `<` on the naturals).

**AlpacaOrdersProofs** has `TypeCorrect`, `NoCorpses`, `NoPhantoms`,
`LookupIsConsistent`, `SilenceIsNoAnswer` and `CancelsArePursued`. Types come in three
parts (`CacheOK`, `SubmitOK`, `RestOK`), because most events touch one of them; `SubmitOK`
adds that no more asks are lost than were made. `Truth` is the invariant behind
`NoCorpse` and `NoPhantom`: what the cache says is true of the venue (`CacheTrue`), and so
is every answer on its way to it: a reply held by a submit (`ReplyTrue`) and a
row seen by a read of all orders (`SeenTrue`); without the last two a stale answer
applied later could refute the first. Of an order whose cancel was not sent `CacheTrue`
claims nothing, and a reply that would make a corpse is recorded as such (`unlisted`).
`Pursuit` and `Quiet` do the same for a cancel that was sent and for the outcome of a
read; `SilenceIsNoAnswer` is an action property, so that an answer which overwrites one
failure excuses nothing after it.

**TradeCyclesProofs** has `TypeCorrect`, `OneCycleOneId`, `LegsAreCounted` and
`ClosesAreExplained`. `SameCycle` speaks of a
fold that is up to date, and says nothing while the process is down; `Follows` adds what
holds then: the true fold of the present position and orders is the true cycle
(`FoldSettled`), nothing is in flight while the gate is closed (`GateOK`), and the row a
seed would find is the true cycle unless something was missed (`Resumable`), so that
resuming it is right. The types bound every name by the clock: what is followed, written
or stored is a cycle that has begun. For that `Min` and `Max` must be members of their
sets, which follows from the well-foundedness of `<`, and the next attempt number must
exist: one of n + 1 numbers is free among n writes. `LegsKnown` says which legs are older
than the end of the last cycle and which the fold has seen. `Closing` explains every close
that a restart would not find: the close of a cycle is the last write of it
(`CloseIsLast`), since a write of the followed cycle is waited for (`WaitedFor`), a cycle
that is over is never followed again unless its close was dropped (`GoneIsOver`), and a
write that was answered leaves no older row behind it. The upsert keeps the later of two
rows by their time, so `DatedNow` must rule out two states with one date.

**OrderBlotterProofs** has `TypeCorrect` and `NothingIsTakenBack`. `NeverReverts` compares
what is shown with a snapshot of any age, so its invariant `Ordered` follows each frame
from the engine to the blotter: no row is ahead of the engine (`AllCurrent`), a snapshot
is younger than its rows (`Dated`), and each row that is shown, or will be when its event
is read, either is no news to a snapshot on its way or is dated after it (`ShownFits`).
Snapshots are followed by others, and the rows one of them shows must fit the next: that
is `InTurn`, over the queue, the key and the value a poll holds. All of it is about orders
whose events the engine learns of at once; for the others it is false (table below).

Checked by TLC only: everything under fairness (`EveryCommandSettles`,
`RecoveryFinishes`, `StuckResolved`, `BareGetsCovered`, `OversizeCorrected`, `Surfaces`,
`Settles`, `Heals`), which is out of the prover's reach, and `RobbedOnlyIfLost`, which is
left for later. `AcceptedWasApplied`, `IntentFirst`, `LookupNeverContradicts` and the
types of `Sleeves` have a theorem and no run: the theorem covers every
instance.

## Where the code does not keep its word

The properties below are stated in the modules, most of them under "Promises
the code does not keep". TLC refutes each when it is checked with the constants
given (those of the module's first run where nothing else is said).

| property | what happens, and what it contradicts | constants |
| --- | --- | --- |
| `CommandPipeline!NoLateSurprise` | a reserve that fails leaves no row and is answered "rejected"; if its XACK is lost too, the restart submits it: the late surprise `command_ledger.py:7` rules out (`engine_node.py:3656`) | as `command_pipeline` |
| `CommandPipeline!NoFalseReject` | a redelivered command whose mark was lost is answered rejected although it was applied; `app.py:1353`, `models.py:414` | `MCDistinct`, one crash |
| `CommandPipeline!AppliedInOrder` | the reply to a read at `>` is lost after Redis served it: its entries are pending, the reader sleeps and goes on at `>` (`engine_node.py:3447`), and they are applied after later ones, or only after a restart; "orders must apply in order", `engine_node.py:3457` | as `command_pipeline` |
| `Transfers!ExitsCovered` | `validate` is not repeated after the await of PREPARED (`engine_node.py:5366`): an exit rested meanwhile ends up larger than its position, which `transfers.py:149` says is refused | one exit, no crash |
| `Transfers!BooksBalance` | the whole of the account's only position is moved: the target leg finds no position to read the account from and raises after its order was cached (`engine_node.py:5669`) | no other position |
| `Transfers!RecoveredBooksBalance` | a leg whose fill was in the event queue at the crash counts as landed; `engine_node.py:1542` | one crash, no fault |
| `Transfers!RefusedStaysRefused` | a PREPARED row written by a call that reported an error is completed by recovery; `engine_node.py:1564` | one crash, one fault |
| `Managers!OneReentryPerStop` | a watch that crashed after attaching its rearm is reverted to ARMED, since it has no order to be found by, and hands off again: two re-entries for one stop (`engine_node.py:11402`) | one crash |
| `Managers!LiveRowsKept` | the seed thread's kick dispatches while the startup reconciliation is between kinds, which then reverts a row that is being applied (`engine_node.py:9145`) | one crash |
| `Managers!EventsStayPut` | the startup reconciliation and a pass of the running process record one row; the later UPDATE of `record_event` overwrites FAILED with APPLIED (`managers.py:252`), where `next_state` says "stay put rather than guess" | as `managers_faults` |
| `Managers!QueuedExitPursued` | a queued close of a sibling lane's position is dispatched by nobody (`engine_node.py:5135`) | `MCLane`, `LiveSpec` |
| `Managers!OffStopsHandOff` | an OFF between the check and the attach is lost; `_handle_cancel_manager_command` | one OFF |
| `Managers!OffRowsNotClaimed` | a rearm turned off while applying and reverted by the restart is claimed again; `chain_cancelled` | one OFF, one crash |
| `ExitRelease!LaneStopsFit` | one lane's stop larger than its holding by as much as another lane is uncovered: totals agree, nothing is OVERSIZE, both stay so. `lane_oversize.py:23` moves the comparison to the lane, and no module of the engine calls it | as `protection`, no release, two mishaps |
| `Sleeves!CapitalConserved` | a sale assigns balances computed from rows it read earlier (`budget_store.py:177`), so a commit in between is lost on one row and kept on the other; the two fills of one exit start two such transactions (`engine_node.py:7925`), and `budget.py:10` says the total is invariant | as `sleeves` |
| `AlpacaOrders!EveryCancelPursued` | a cancel of an order that is only submitted is logged and dropped (`exec_client.py:1252`); its POST lands, and the order rests and can fill while the cache has it pending cancel with nobody to send the DELETE: what `exec_client.py:1310` calls out | as `alpaca_orders` |
| `AlpacaOrders!RejectedIsDead` | the lookup finds an order suspended, pending_cancel or pending_replace and rejects it (`exec_client.py:892`), though only "terminal-and-dead" is a rejection (`exec_client.py:829`) | as `alpaca_orders` |
| `TradeCycles!ClosesRecorded` | a close is emitted once; if the cycle's previous write is in flight it is suppressed and never made (`engine_node.py:8133`), against "Nothing is lost by waiting" two lines above. The row stays live, the unique index refuses the next cycle's row, and a restart resumes the ended one | four events, no fault, no crash |
| `OrderBlotter!NeverReverts` without "of orders whose events the engine learned of at once" | a fill reconciled at the venue's time is older than a snapshot taken before the engine knew of it, which then takes the order back to open; `consumer.py:360` | as `order_blotter` |

Met while modelling, visible in the models' guards, and without a property of their own:

* A standoff belongs to an instrument (`engine_node.py:6669`, 7786-7846): the failing
  release or rejection of one lane ends the standoff another lane's exit relies
  on. A flip that is given up does not sample it again (3068 against the comment at
  3060). Both are the `lost` of `RobbedOnlyIfLost`.
* Two cuts of one leg in one pass (against 7018); aggregates that cannot be attributed
  to lanes are never protected (`protection.py`, about 1000); `free` is not reduced
  across the lanes of a leg, so "lands in exactly one" (`protection.py:906`) fails per lane,
  and a pro-rata quantity with a fraction raises when the order is made.
* A release cancels orders a human placed by hand (about 6195), can be cut off by the
  close (6547), looks at other lanes' rows when it asks whether its own are gone,
  does not notice that its stop filled while it waited, and a stop still on its way
  when it begins may land after the shares were found free.
* A resting stop that the cache of a flat lane wrote off is never corrected.
* Overlapping distributions overdraw the unallocated capital; a sale that moved
  nothing leaves no row, so its replay may move capital later.
* The outcome the read guard looks at is shared by all readers of a client
  (`exec_read_guard.py:90`): the `overruled` of `NothingFromSilence`. `_post_order` takes
  any `AlpacaHttpError`, a 5xx or 429 too, for the refusal its docstring says "the
  venue wrote". A POST may take 60 s, longer than the inflight check waits. After a
  restart an order whose DELETE was never sent stays pending cancel.
* `engine_node.py:11221` says a queued flatten whose exits are not released in time
  stays ARMED for the next trigger; it returns FAILED, which is terminal
  (`FlattenDeclines`).
* An order whose event times run backwards (accepted by the engine's clock, filled at
  the venue's, its stream frame lost) is shown as working until newer closed orders
  push it out of the snapshot: the `back` of `Heals`.

## What is not modelled

Within the modelled components: a handler that never returns (the serialization
gate gives up on it after a timeout), two engines on one consumer group, loss of
Redis or Postgres data, prices. The payload hash of a redelivered command always
matches, since the stream is append-only.

Not modelled at all, apart from the components the plan names below:

* decided from one observation, no state of their own: boot gate and preflight,
  market-aware folds, slot outcomes, claims, lane split, external activity, feed
  bookkeeping, alerts;
* arithmetic over fills: realized P&L, windows, account curve (a later pure model);
* I/O: the IBKR adapter (configuration of Nautilus's own client), market data,
  telegram, log compaction, migrations, scripts;
* the strategies' own decisions, which live in another repository;
* the browser UI.

The parts left out of a modelled component are in its `note` in `PROJECT.json`.

## Plan

*Done:* `OrderOnce`, `CommandPipeline`, `Transfers`, `Managers`, `ProtectionPlan` and
`ExitRelease`, `Sleeves`, `AlpacaOrders`, `TradeCycles`, `OrderBlotter`, and the proofs of
every safety property they check but one.

Left, in the order of what the most depends on:

1. `Managers` with PEAK (two orders per apply, a trim budget over the chain) and
   PYRAMID (an add budget). Theorem: the budget is never exceeded.
2. The immediate flatten of a position and of a lane, as the caller of
   `ExitRelease`; brackets and replace in `AlpacaOrders`.
3. The proof of `RobbedOnlyIfLost`, the one safety property without a theorem.
4. Compositions: a flatten command through `CommandPipeline` into `Managers`; a
   transfer against `ExitRelease`.
5. Realized P&L as a pure model against a reference definition.
