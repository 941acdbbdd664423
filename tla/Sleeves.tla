------------------------------- MODULE Sleeves -------------------------------
(* Capital: the sleeves of the lanes (budget.py, budget_store.py), what     *)
(* moves it between them (_maybe_transfer_budget, session_budget.py, the    *)
(* /sleeves/distribute route) and the gate that spends it (budget_gate.py,  *)
(* budget_guard.py).                                                        *)
(*                                                                          *)
(* Each movement is a transaction at READ COMMITTED: load_book, a plan, the *)
(* insert of rows whose fill_id is unique, the updates, the commit.  Plan   *)
(* and updates depend on what load_book read, or add to the current row;    *)
(* rows inserted or updated stay locked until the commit.  So a transaction *)
(* is two steps here, what it read and what it commits.                     *)
(*                                                                          *)
(* Capital is counted in whole units (the code's cents), positions at cost. *)
EXTENDS Integers, FiniteSets, FiniteSetsExt

CONSTANTS
    Lane,           \* registered strategy lanes
    Unallocated,    \* the sleeve of capital granted to nobody
    Fill, Run,      \* trade ids of sales; run ids of distributions
    Tx,             \* transactions open at a time
    Recipient,      \* TRANSFER_TO: a lane, or Unallocated for nobody
    InitActual, InitTarget,
    MaxUnits, MaxOrder,     \* what a target may be set to, the size of an order
    MaxWorking,             \* from here on a lane sends no further entry
    MaxRetargets, MaxDeliveries, MaxFaults      \* bounds of a run

Sleeve == Lane \cup {Unallocated}
Job == Fill \cup Run

ASSUME SleevesAssumption ==
    /\ Unallocated \notin Lane
    /\ Fill \cap Run = {} /\ "none" \notin Job
    /\ IsFiniteSet(Lane)
    /\ Recipient \in Sleeve
    /\ InitActual \in [Sleeve -> Nat] /\ InitTarget \in [Lane -> Nat]
    /\ {MaxUnits, MaxOrder, MaxWorking, MaxRetargets, MaxDeliveries, MaxFaults} \subseteq Nat

VARIABLES
    \* Postgres and the settings file
    actual,     \* strategy_sleeve.actual, committed
    target,     \* the lane's number in the strategies settings
    ledger,     \* sleeve_transfer: [id, from, to, amount]
    tx,         \* open transactions and the book each has read
    \* the venue and the Nautilus cache
    sold,       \* sell fills: [fill, lane, amount]
    deployed,   \* open positions of a lane, at cost
    working,    \* entries of a lane on their way, at cost
    book,       \* _budget_cache of the exec client: a book, or NoBook
    \* history: which of the races below have happened, and bounds
    raced, retargets, deliveries, faults

capital == <<actual, target, ledger, tx>>
market == <<sold, deployed, working, book>>
bounds == <<retargets, deliveries, faults>>
vars == <<actual, target, ledger, tx, sold, deployed, working, book,
          raced, retargets, deliveries, faults>>

-----------------------------------------------------------------------------
(* budget.py.  A book is what load_book returns. *)

NoBook == [actual |-> <<>>, target |-> <<>>]
Book == [actual |-> actual, target |-> target]

Target(bk, s) == IF s \in Lane THEN bk.target[s] ELSE 0
Least(x, y) == IF x <= y THEN x ELSE y
MustReduce(bk, s) == Max({0, bk.actual[s] - Target(bk, s)})
Headroom(bk, s) == Max({0, Target(bk, s) - bk.actual[s]})
Deployable(bk, l, spent) == Max({0, Least(bk.actual[l], Target(bk, l)) - spent})

Sum(f, S) == MapThenSumSet(LAMBDA s : f[s], S)
Amount(rows) == Sum([r \in rows |-> r.amount], rows)

\* Mutant: the shares are rounded down, what is left over is dropped.
DistributionFloors(short, pot) ==
    LET all == Sum(short, DOMAIN short)
        given == Least(pot, all)
    IN  {[s \in DOMAIN short |-> IF all = 0 \/ pot <= 0 THEN 0 ELSE (given * short[s]) \div all]}

(* plan_distribution: proportional to what each sleeve is short of, and the *)
(* units that are left over go to the largest remainders.                   *)
Distribution(short, pot) ==
    LET all == Sum(short, DOMAIN short)
        given == Least(pot, all)
        floor == [s \in DOMAIN short |-> (given * short[s]) \div all]
        rest == [s \in DOMAIN short |-> (given * short[s]) % all]
        left == given - Sum(floor, DOMAIN short)
        ahead(s) == {r \in DOMAIN short : rest[r] > rest[s]}
    IN  IF all = 0 \/ pot <= 0
        THEN {[s \in DOMAIN short |-> 0]}
        ELSE {[s \in DOMAIN short |-> floor[s] + IF s \in lucky THEN 1 ELSE 0] :
                lucky \in {L \in kSubset(left, DOMAIN short) : \A s \in L : ahead(s) \subseteq L}}

Row(id, from, to, amount) == [id |-> id, from |-> from, to |-> to, amount |-> amount]

Short(bk) == [l \in Lane |-> Headroom(bk, l)]

\* Mutant: the amount asked for is not capped at what the source holds.
RunRowsUncapped(r, bk) ==
    {{Row(<<r, l>>, Unallocated, l, Headroom(bk, l)) : l \in {k \in Lane : Headroom(bk, k) > 0}}}

(* distribute_unallocated: the rows of one run, one per sleeve funded. *)
RunRows(r, bk) ==
    {{Row(<<r, l>>, Unallocated, l, alloc[l]) : l \in {k \in Lane : alloc[k] > 0}} :
        alloc \in Distribution(Short(bk), bk.actual[Unallocated])}

\* Mutant: the whole excess moves, whatever this sale has freed of it.
SaleRowsUnfreed(sale, bk) ==
    IF MustReduce(bk, sale.lane) = 0 THEN {}
    ELSE {Row(<<sale.fill, sale.lane>>, sale.lane, Unallocated, MustReduce(bk, sale.lane))}

(* plan_transfer: the seller's excess, as far as this sale has freed it. *)
SaleRows(sale, bk) ==
    LET freed == Least(sale.amount, MustReduce(bk, sale.lane))
        room == IF Recipient \in Lane THEN Headroom(bk, Recipient) ELSE 0
        to == IF room > 0 THEN Recipient ELSE Unallocated
        amount == IF room > 0 THEN Least(freed, room) ELSE freed
    IN  IF amount = 0 THEN {} ELSE {Row(<<sale.fill, sale.lane>>, sale.lane, to, amount)}

-----------------------------------------------------------------------------
(* Transactions. *)

Idle == [job |-> "none", book |-> NoBook]
Busy(t) == tx[t].job # "none"
SaleOf(f) == CHOOSE x \in sold : x.fill = f

(* A fill is delivered when it happens, and again by a reconnect or a       *)
(* reconciliation; a run is started by a lane about to decide or by the     *)
(* operator, and again by a retry.                                          *)
Begin(t, job) ==
    /\ ~Busy(t)
    /\ job \in Run \/ \E x \in sold : x.fill = job
    /\ deliveries < MaxDeliveries /\ deliveries' = deliveries + 1
    /\ tx' = [tx EXCEPT ![t] = [job |-> job, book |-> Book]]
    /\ UNCHANGED <<actual, target, ledger, market, raced, retargets, faults>>

\* Mutant: the unique index does not cover a run's rows.
DuplicateFillsOnly(rows) == \E r \in rows : r.id \in {x.id : x \in ledger} /\ r.id[1] \in Fill

(* The insert hits the unique index: the transaction is rolled back. *)
Duplicate(rows) == {r.id : r \in rows} \cap {r.id : r \in ledger} # {}

(* on_sell_fill writes both rows as it has them in its session, less and    *)
(* plus the amount: as load_book read them, or, where the session has let   *)
(* go of them by then, as it reads them again.                              *)
CommitSale(t) ==
    /\ tx[t].job \in Fill
    /\ \E rows \in {SaleRows(SaleOf(tx[t].job), tx[t].book)} :
       \E had \in {tx[t].book.actual, actual} :
          /\ IF rows = {} \/ Duplicate(rows)
             THEN UNCHANGED <<actual, ledger, raced>>
             ELSE \E r \in rows :
                    /\ ledger' = ledger \cup {r}
                    /\ actual' = [actual EXCEPT ![r.from] = had[r.from] - r.amount,
                                                ![r.to] = had[r.to] + r.amount]
                    /\ raced' = raced
                          \cup {x \in {"overwrite"} : \E s \in {r.from, r.to} : had[s] # actual[s]}
                          \cup {x \in {"stale"} : \E s \in {r.from, r.to} : tx[t].book.actual[s] # actual[s]}
    /\ tx' = [tx EXCEPT ![t] = Idle]
    /\ UNCHANGED <<target, market, bounds>>

(* distribute_unallocated adds to and subtracts from the current rows. *)
CommitRun(t) ==
    /\ tx[t].job \in Run
    /\ \E rows \in RunRows(tx[t].job, tx[t].book) :
          /\ IF Duplicate(rows)
             THEN UNCHANGED <<actual, ledger, raced>>
             ELSE /\ ledger' = ledger \cup rows
                  /\ actual' = [s \in Sleeve |->
                        actual[s] + Amount({r \in rows : r.to = s})
                                  - Amount({r \in rows : r.from = s})]
                  /\ raced' = IF rows = {} \/ actual[Unallocated] >= tx[t].book.actual[Unallocated]
                              THEN raced ELSE raced \cup {"spent"}
    /\ tx' = [tx EXCEPT ![t] = Idle]
    /\ UNCHANGED <<target, market, bounds>>

(* The database refuses, or the process dies before the commit. *)
Fails(t) ==
    /\ Busy(t)
    /\ faults < MaxFaults /\ faults' = faults + 1
    /\ tx' = [tx EXCEPT ![t] = Idle]
    /\ UNCHANGED <<actual, target, ledger, market, raced, retargets, deliveries>>

Retarget(l, n) ==
    /\ retargets < MaxRetargets /\ retargets' = retargets + 1
    /\ n # target[l]
    /\ target' = [target EXCEPT ![l] = n]
    /\ UNCHANGED <<actual, ledger, tx, market, raced, deliveries, faults>>

-----------------------------------------------------------------------------
(* Orders, and the gate each entry passes. *)

(* may_submit: the sleeve is not over its target, and open positions leave  *)
(* the room.  Entries on their way are not counted.                         *)
MaySubmit(bk, l, n) == MustReduce(bk, l) = 0 /\ n <= Deployable(bk, l, deployed[l])

(* A sale of l whose transfer has left no row: it may yet take capital.     *)
Unsettled(l) == {x \in sold : x.lane = l /\ <<x.fill, l>> \notin {r.id : r \in ledger}}

SubmitEntry(l, n) ==
    /\ working[l] < MaxWorking
    /\ \E bk \in {IF book = NoBook THEN Book ELSE book} :
          /\ MaySubmit(bk, l, n)
          /\ book' = bk
          /\ raced' = IF bk = Book /\ working[l] = 0 /\ Unsettled(l) = {}
                      THEN raced ELSE raced \cup {"gate"}
    /\ working' = [working EXCEPT ![l] = @ + n]
    /\ UNCHANGED <<capital, sold, deployed, bounds>>

(* The book cannot be read: the gate lets every order through. *)
SubmitUnchecked(l, n) ==
    /\ book = NoBook
    /\ faults < MaxFaults /\ faults' = faults + 1
    /\ working' = [working EXCEPT ![l] = @ + n]
    /\ raced' = raced \cup {"gate"}
    /\ UNCHANGED <<capital, sold, deployed, book, retargets, deliveries>>

(* Thirty seconds after it was read. *)
BookExpires ==
    /\ book # NoBook
    /\ book' = NoBook
    /\ UNCHANGED <<capital, sold, deployed, working, raced, bounds>>

EntryFills(l) ==
    /\ working[l] > 0
    /\ deployed' = [deployed EXCEPT ![l] = @ + working[l]]
    /\ working' = [working EXCEPT ![l] = 0]
    /\ UNCHANGED <<capital, sold, book, raced, bounds>>

EntryRejected(l) ==
    /\ working[l] > 0
    /\ working' = [working EXCEPT ![l] = 0]
    /\ UNCHANGED <<capital, sold, deployed, book, raced, bounds>>

(* An exit is not gated: part or all of what the lane holds is sold. *)
Sell(l, f, n) ==
    /\ f \notin {x.fill : x \in sold}
    /\ n \in 1..deployed[l]
    /\ sold' = sold \cup {[fill |-> f, lane |-> l, amount |-> n]}
    /\ deployed' = [deployed EXCEPT ![l] = @ - n]
    /\ UNCHANGED <<capital, working, book, raced, bounds>>

-----------------------------------------------------------------------------
(* The specification. *)

Init ==
    /\ actual = InitActual /\ target = InitTarget
    /\ ledger = {} /\ tx = [t \in Tx |-> Idle]
    /\ sold = {} /\ book = NoBook
    /\ deployed = [l \in Lane |-> 0] /\ working = [l \in Lane |-> 0]
    /\ raced = {}
    /\ retargets = 0 /\ deliveries = 0 /\ faults = 0

Next ==
    \/ \E t \in Tx : (\E job \in Job : Begin(t, job)) \/ CommitSale(t) \/ CommitRun(t) \/ Fails(t)
    \/ \E l \in Lane : \E n \in 0..MaxUnits : Retarget(l, n)
    \/ \E l \in Lane : \E n \in 1..MaxOrder :
          SubmitEntry(l, n) \/ SubmitUnchecked(l, n) \/ \E f \in Fill : Sell(l, f, n)
    \/ \E l \in Lane : EntryFills(l) \/ EntryRejected(l)
    \/ BookExpires

Spec == Init /\ [][Next]_vars

-----------------------------------------------------------------------------
(* Properties. *)

TypeOK ==
    /\ actual \in [Sleeve -> Int] /\ target \in [Lane -> Nat]
    /\ \A r \in ledger : r.from \in Sleeve /\ r.to \in Sleeve \ {r.from} /\ r.amount \in Nat \ {0}
    /\ \A r, q \in ledger : r.id = q.id => r = q
    /\ \A t \in Tx : tx[t].job \in Job \cup {"none"}
    /\ deployed \in [Lane -> Nat] /\ working \in [Lane -> Nat]

Moved(s) == Amount({r \in ledger : r.to = s}) - Amount({r \in ledger : r.from = s})

(* "comparing the log against the balances" (budget_store.py:16): a balance *)
(* is what the sleeve began with and what the log says moved, through       *)
(* replays, retries, aborted transactions and overlapping distributions,    *)
(* unless a sale wrote a row that had changed since it was read.            *)
LogExplainsBalances ==
    "overwrite" \notin raced => \A s \in Sleeve : actual[s] = InitActual[s] + Moved(s)

(* "NEVER DISTRIBUTE MORE THAN THE SOURCE HOLDS" (budget_store.py:229): the *)
(* source is overdrawn only by transactions that read it before another of  *)
(* them spent it.                                                           *)
SourceNotOverdrawn ==
    raced \cap {"overwrite", "stale", "spent"} = {} => \A s \in Sleeve : actual[s] >= 0

(* "the recipient can only ever deploy capital the donor has ACTUALLY       *)
(* freed" (budget.py:9): what a lane holds and has on the way is covered   *)
(* by its sleeve, however targets move and capital is handed on, unless an  *)
(* entry passed the gate on a cached or unread book, beside another entry   *)
(* in flight, or while a sale's proceeds might still be taken away.         *)
WithinMeans ==
    raced \subseteq {"spent"} => \A l \in Lane : deployed[l] + working[l] <= actual[l]

(* What plan_distribution promises of any book: all of the pot goes out, or *)
(* every sleeve is full; no sleeve passes its target; and no unit could be  *)
(* moved to bring the shares nearer to proportional.  (It is a fact about   *)
(* an operator: one state is enough to look at it in.)                      *)
DistributionFair ==
    deliveries + retargets + faults = 0 /\ sold = {} /\ book = NoBook /\ deployed = working =>
        \A short \in [Lane -> 0..4] : \A pot \in 0..5 : \A alloc \in Distribution(short, pot) :
            LET all == Sum(short, Lane)
                off(l) == alloc[l] * all - Least(pot, all) * short[l]
            IN  /\ Sum(alloc, Lane) = Least(pot, all)
                /\ \A l \in Lane : alloc[l] \in 0..short[l]
                /\ \A l, k \in Lane : l # k => off(l) - off(k) <= all

-----------------------------------------------------------------------------
(* Promises the code does not keep: see README. *)

(* Total capital is invariant under any transfer (budget.py:10, allocated). *)
(* Two sales that overlap, as the pieces of one exit do, break it.          *)
CapitalConserved == Sum(actual, Sleeve) = Sum(InitActual, Sleeve)
=============================================================================
