----------------------------- MODULE ExitRelease -----------------------------
(* Protective stops and the exits that need their shares (engine_node.py    *)
(* 2440-3284 and 6063-6773): the reconciler, which rests a stop for what is *)
(* not covered, and release_for_exit, which takes a lane's stop away so     *)
(* that the lane's exit can be sent.  Both run on one event loop, and every *)
(* await of one lets the other, the venue and the order stream run.         *)
(*                                                                          *)
(* One instrument, held long by several lanes.  The venue knows one total   *)
(* and no lanes, and while Reserves holds no share can back two resting     *)
(* sells.  The engine's cache follows the venue when a fill is seen.        *)
EXTENDS ProtectionPlan, SequencesExt

CONSTANTS
    Manual,         \* MANUAL-001, whose orders any release may filter for
    Exiting,        \* the lanes whose strategy sends exits
    InitHeld,       \* shares per lane at the start
    InitStops,      \* the orders resting at the start, oldest first
    Reserves,       \* _exec_reserves_shares: Alpaca does, IBKR does not
    MaxStops,       \* live stops at any time
    MaxReleases, MaxMishaps     \* bounds of a run: releases, and what goes wrong

Slot == 1..MaxStops
Wait == {"sweep", "clear", "shares"}

ASSUME ReleaseAssumption ==
    /\ Exiting \subseteq Lane
    /\ InitHeld \in [Lane -> Nat]
    /\ MaxStops \in Nat
    /\ Reserves \in BOOLEAN
    /\ {MaxReleases, MaxMishaps} \subseteq Nat

VARIABLES
    \* the venue
    net,        \* shares of each lane, as the venue's total adds them up
    stop,       \* Slot -> resting order: its state, lane, kind, quantity, and whether the cache tracks it
    exit,       \* each lane's exit order
    session,    \* the venue's session: open or closed
    \* the engine, in memory
    cache,      \* cache.positions_open() per lane
    standoff,   \* _exit_suppressed: none, live, or lapsed and not pruned yet
    rel,        \* release_for_exit of each lane: where it stands, for how much
    pass,       \* _reconcile_protection_inner: where it stands, what it read
    \* history: the standoff an exit relied on was lost, and bounds
    lost, releases, mishaps

venue == <<net, stop, exit, session>>
bounds == <<releases, mishaps>>
vars == <<net, stop, exit, session, cache, standoff, rel, pass, lost,
          releases, mishaps>>

-----------------------------------------------------------------------------
(* What the venue and the cache would answer. *)

NoStop == [st |-> "none", lane |-> NoLane, kind |-> "trail", qty |-> 0, native |-> FALSE]
NoExit == [st |-> "none", qty |-> 0]
AtRest == [pc |-> "idle", qty |-> 0, saw |-> FALSE, slow |-> FALSE]
NoPass == [pc |-> "idle", total |-> 0, orders |-> {}, rows |-> {}, entries |-> {},
           flying |-> {}, gone |-> 0]

Live(s) == stop[s].st \in {"resting", "cancelling"}
Row(s) == [id |-> s, lane |-> stop[s].lane, kind |-> stop[s].kind, qty |-> stop[s].qty]
ExitRow(l) == [id |-> 0, lane |-> l, kind |-> "limit", qty |-> exit[l].qty]

Total ==
    Qty({[lane |-> l, qty |-> net[l]] : l \in Lane})
        - Qty({[lane |-> l, qty |-> -net[l]] : l \in Lane})
RestingRows == {Row(s) : s \in {x \in Slot : Live(x)}}
InFlight == {stop[s].lane : s \in {x \in Slot : stop[x].st = "sent"}}
ReducingRows == RestingRows \cup {ExitRow(l) : l \in {k \in Lane : exit[k].st = "working"}}
Fits(q) == ~Reserves \/ Total - Qty(ReducingRows) >= q

(* _reducing_orders_open with release_for_exit's filter: the lane's orders  *)
(* and every order of MANUAL-001.                                           *)
Watched(l) ==
    {s \in Slot : Live(s) /\ stop[s].native /\ stop[s].lane \in {l, Manual}}

(* may_cancel_order: a lane's own orders, and MANUAL-001's protective ones. *)
MayCancel(l, s) ==
    stop[s].lane = l \/ (stop[s].lane = Manual /\ stop[s].kind # "limit")

Cancelled(r) == IF r.st = "resting" THEN [r EXCEPT !.st = "cancelling"] ELSE r
Cancel(S) == stop' = [s \in Slot |-> IF s \in S THEN Cancelled(stop[s]) ELSE stop[s]]

(* Faults, stops that fill, trades by hand and the end of the session share *)
(* one budget.                                                              *)
Mishap == mishaps < MaxMishaps /\ mishaps' = mishaps + 1

(* Who relies on the standoff: a release, and an exit not yet answered.     *)
Relying == {l \in Lane : rel[l].pc # "idle" \/ exit[l].st = "sent"}
LostTo(S) == lost' = (lost \/ S \cap Relying # {})

-----------------------------------------------------------------------------
(* release_for_exit. *)

ReleaseBegins(l) ==
    /\ releases < MaxReleases /\ releases' = releases + 1
    /\ rel[l].pc = "idle" /\ exit[l].st # "sent"
    /\ session # "closed"
    /\ \E q \in 1..cache[l] : rel' = [rel EXCEPT ![l] = [AtRest EXCEPT !.pc = "sweep", !.qty = q]]
    /\ standoff' = "live"
    /\ lost' = ((Relying # {} /\ lost) \/ \E s \in Slot : stop[s].st = "sent")
    /\ Cancel(Watched(l))
    /\ UNCHANGED <<net, exit, session, cache, pass, mishaps>>

(* The venue's rows arrive; what the cache does not track is cancelled      *)
(* there.  Faults: unreadable rows or a cancel that raises, and round trips *)
(* so slow that the ceiling of the standoff is near.                        *)
Sweep(l) ==
    /\ rel[l].pc = "sweep"
    /\ standoff' = "live"
    /\ \E slow \in BOOLEAN, deaf \in BOOLEAN :
          /\ IF slow \/ deaf THEN Mishap ELSE UNCHANGED mishaps
          /\ Cancel(IF deaf THEN {} ELSE {s \in Slot : MayCancel(l, s) /\ ~stop[s].native})
          /\ rel' = [rel EXCEPT ![l].pc = "clear", ![l].saw = Watched(l) # {}, ![l].slow = slow]
    /\ UNCHANGED <<net, exit, session, cache, pass, lost, releases>>

(* Seen to disappear, or never seen and the whole leg is clear at the venue. *)
Cleared(l) ==
    /\ rel[l].pc = "clear"
    /\ Watched(l) = {}
    /\ rel[l].saw \/ ReducingRows = {}
    /\ rel' = [rel EXCEPT ![l].pc = "shares"]
    /\ standoff' = IF rel[l].slow /\ standoff = "lapsed" THEN "lapsed" ELSE "live"
    /\ UNCHANGED <<venue, cache, pass, lost, bounds>>

SharesFree(l) ==
    /\ rel[l].pc = "shares"
    /\ Fits(rel[l].qty)
    /\ rel' = [rel EXCEPT ![l].pc = "released"]
    /\ UNCHANGED <<venue, cache, standoff, pass, lost, bounds>>

(* The finally block: the mark of the instrument goes, whoever set it last. *)
GivesUp(l) ==
    /\ rel' = [rel EXCEPT ![l] = AtRest]
    /\ standoff' = "none"
    /\ LostTo(Lane \ {l})

ReleaseFails(l) ==
    /\ \/ rel[l].pc = "clear" /\ Watched(l) # {}                          \* 20 s are over
       \/ rel[l].pc = "clear" /\ ~rel[l].saw /\ ReducingRows # {}         \* somebody's rows
       \/ rel[l].pc = "shares" /\ ~Fits(rel[l].qty)                       \* 30 s are over
    /\ GivesUp(l)
    /\ UNCHANGED <<venue, cache, pass, bounds>>

ReleaseRaises(l) ==
    /\ rel[l].pc \in Wait
    /\ Mishap
    /\ GivesUp(l)
    /\ UNCHANGED <<venue, cache, pass, releases>>

(* The caller got True.  Its submit may still refuse locally. *)
SubmitExit(l) ==
    /\ rel[l].pc = "released"
    /\ rel' = [rel EXCEPT ![l] = AtRest]
    /\ exit' = [exit EXCEPT ![l] = [st |-> "sent", qty |-> rel[l].qty]]
    /\ UNCHANGED <<net, stop, session, cache, standoff, pass, lost, bounds>>

RefusedLocally(l) ==
    /\ rel[l].pc = "released"
    /\ Mishap
    /\ rel' = [rel EXCEPT ![l] = AtRest]
    /\ UNCHANGED <<venue, cache, standoff, pass, lost, releases>>

(* 45 s after the last extension.  The two waits are shorter and each       *)
(* begins with an extension, unless the ceiling cuts it; the sweep and what *)
(* the caller does before it submits are not bounded.  An exit unanswered   *)
(* for that long is a fault.                                                *)
StandoffLapses ==
    /\ standoff = "live"
    /\ \/ \A l \in Lane : rel[l].pc \notin {"clear", "shares"}
       \/ \E l \in Lane : rel[l].slow
    /\ IF \E l \in Lane : exit[l].st = "sent" THEN Mishap ELSE UNCHANGED mishaps
    /\ standoff' = "lapsed"
    /\ LostTo(Lane)
    /\ UNCHANGED <<venue, cache, rel, pass, releases>>

-----------------------------------------------------------------------------
(* The reconciler.  The awaits of a pass: positions, orders, and, if a stop *)
(* of the wrong kind is flipped, the confirmation of its cancel.            *)

\* Mutant: marks that have expired are not pruned.
PassBeginsUnpruned ==
    /\ pass.pc = "idle"
    /\ pass' = [NoPass EXCEPT !.pc = "orders", !.total = Total]
    /\ UNCHANGED <<venue, cache, standoff, rel, lost, bounds>>

(* The positions are read, and marks that have expired by now are pruned.   *)
PassBegins ==
    /\ pass.pc = "idle"
    /\ pass' = [NoPass EXCEPT !.pc = "orders", !.total = Total]
    /\ standoff' = IF standoff = "lapsed" THEN "none" ELSE standoff
    /\ UNCHANGED <<venue, cache, rel, lost, bounds>>

ReadOrders ==
    /\ pass.pc = "orders"
    /\ pass' = [pass EXCEPT !.pc = "act", !.orders = ReducingRows, !.flying = InFlight]
    /\ UNCHANGED <<venue, cache, standoff, rel, lost, bounds>>

ReadFails ==
    /\ pass.pc = "orders"
    /\ Mishap
    /\ pass' = NoPass
    /\ UNCHANGED <<venue, cache, standoff, rel, lost, releases>>

OutsideSession ==
    /\ pass.pc = "act" /\ session = "closed"
    /\ pass' = NoPass
    /\ UNCHANGED <<venue, cache, standoff, rel, lost, bounds>>

Holding == {l \in Lane : cache[l] > 0}
Split == [l \in Lane |-> IF cache[l] > 0 THEN cache[l] ELSE 0]
Positions == AttributeRows(pass.total, Split)

(* _cancel_unprotectable_stops, from the cache alone. *)
Inert ==
    {r.id : r \in Unprotectable(Split,
        {Row(s) : s \in {x \in Slot : /\ stop[x].native /\ stop[x].kind # "limit"
                                      /\ stop[x].st = "resting"}})}

\* Mutant: a stop of which nothing is left is skipped, not cancelled.
ReducedNeverToNothing(r, qty) == IF qty = 0 THEN r ELSE [r EXCEPT !.qty = qty]

(* Nautilus cancels and modifies what its cache holds open, and no more:    *)
(* first the inert stops, then what the broker's rows make oversize.        *)
Reduced(r, qty) == IF qty = 0 THEN Cancelled(r) ELSE [r EXCEPT !.qty = qty]

Corrected(s, rows) ==
    LET cut == {o \in Oversize(rows, pass.orders) : o.id = s}
    IN  CASE s \in Inert -> Cancelled(stop[s])
          [] s \notin Inert /\ stop[s].native /\ stop[s].st = "resting" /\ cut # {} ->
                Reduced(stop[s], (CHOOSE o \in cut : TRUE).qty)
          [] OTHER -> stop[s]

(* stamp_for: an aggregate leg belongs to the one lane that holds anything. *)
Owner(i) ==
    IF i.lane # NoLane THEN {i.lane} ELSE IF Cardinality(Holding) = 1 THEN Holding ELSE {}

(* _protection_pending keeps a lane's next stop back for three minutes:     *)
(* until a pass has read the orders with the previous one no longer in      *)
(* flight.  The risk engine denies a reduce-only order larger than its      *)
(* position.                                                                *)

ToPlace(rows, entries, orders) ==
    {i \in Intents(rows, orders, entries, TRUE) :
        /\ Whole(rows, i)
        /\ \E l \in Owner(i) : l \notin pass.flying \cup InFlight /\ Shares(rows, i) <= cache[l]}

NewStop(rows, i) ==
    [st |-> "sent", lane |-> CHOOSE l \in Owner(i) : TRUE, kind |-> i.kind,
     qty |-> Shares(rows, i), native |-> TRUE]

(* The placement loop: new stops queue up behind the older ones.  (The      *)
(* bound variables are there for TLC, which then computes each value once.) *)
Place(rows, entries, orders, suppressed, current) ==
    \E arm \in {IF suppressed THEN {} ELSE ToPlace(rows, entries, orders)} :
    \E all \in {SelectSeq(current, LAMBDA r : r.st # "none")
                    \o SetToSeq({NewStop(rows, i) : i \in arm})} :
        /\ Len(all) <= MaxStops
        /\ stop' = [s \in Slot |-> IF s <= Len(all) THEN all[s] ELSE NoStop]
        /\ pass' = NoPass

(* The first stop of the wrong kind, if an exit in flight or a floor that   *)
(* could not be placed does not keep it from being flipped.                 *)
Flips(rows) ==
    {o \in WrongMode(rows, pass.orders) :
        /\ \A p \in WrongMode(rows, pass.orders) : o.id <= p.id
        /\ standoff = "none"
        /\ \E i \in Intents(rows, pass.orders \ {o}, Holding, TRUE) :
              i.kind = "floor" /\ i.lane \in {o.lane, NoLane}}

\* Mutant: the placement loop does not look at the standoff.
ActUnsuppressed ==
    /\ pass.pc = "act" /\ session # "closed"
    /\ \E rows \in {Positions} :
          \E current \in {[s \in Slot |-> Corrected(s, rows)]} :
              Place(rows, Holding, pass.orders, FALSE, current)
    /\ UNCHANGED <<net, exit, session, cache, standoff, rel, lost, bounds>>

(* A pass that flips nothing: the gates on the clock, on a price or on      *)
(* another leg may put off a flip that Flips allows.                        *)
Act ==
    /\ pass.pc = "act" /\ session # "closed"
    /\ \E rows \in {Positions} :
          \E current \in {[s \in Slot |-> Corrected(s, rows)]} :
              Place(rows, Holding, pass.orders, standoff # "none", current)
    /\ UNCHANGED <<net, exit, session, cache, standoff, rel, lost, bounds>>

FlipBegins ==
    /\ pass.pc = "act" /\ session # "closed"
    /\ \E rows \in {Positions} : \E o \in Flips(rows) :
          /\ stop' = [s \in Slot |-> IF s = o.id THEN Cancelled(stop[s]) ELSE Corrected(s, rows)]
          /\ pass' = [pass EXCEPT !.pc = "flip", !.gone = o.id,
                                  !.rows = rows, !.entries = Holding]
    /\ UNCHANGED <<net, exit, session, cache, standoff, rel, lost, bounds>>

Remaining == {o \in pass.orders : o.id # pass.gone}

FlipConfirmed ==
    /\ pass.pc = "flip"
    /\ stop[pass.gone].st = "none"
    /\ Place(pass.rows, pass.entries, Remaining, standoff = "live", stop)
    /\ UNCHANGED <<net, exit, session, cache, standoff, rel, lost, bounds>>

(* Still resting after the wait, filled, or unreadable: the floor is not    *)
(* placed, the rest of the first plan is, under the first sample.           *)
FlipAbandoned ==
    /\ pass.pc = "flip"
    /\ IF stop[pass.gone].st = "none" THEN Mishap ELSE UNCHANGED mishaps
    /\ Place(pass.rows, pass.entries, pass.orders, FALSE,
             [stop EXCEPT ![pass.gone] = IF @.st = "filled" THEN NoStop ELSE @])
    /\ LostTo(IF \E s \in Slot : stop'[s].st = "sent" THEN Lane ELSE {})
    /\ UNCHANGED <<net, exit, session, cache, standoff, rel, releases>>

-----------------------------------------------------------------------------
(* The venue and the order stream. *)

VenueTakesStop(s) ==
    /\ stop[s].st = "sent"
    /\ \/ /\ stop' = [stop EXCEPT ![s] = IF Fits(stop[s].qty)
                                         THEN [stop[s] EXCEPT !.st = "resting"] ELSE NoStop]
          /\ UNCHANGED mishaps
       \/ /\ Fits(stop[s].qty) /\ Mishap        \* accepted, but the answer never came
          /\ stop' = [stop EXCEPT ![s].st = "resting", ![s].native = FALSE]
    /\ UNCHANGED <<net, exit, session, cache, standoff, rel, pass, lost,
                   releases>>

CancelConfirmed(s) ==
    /\ stop[s].st = "cancelling"
    /\ stop' = [stop EXCEPT ![s] = NoStop]
    /\ UNCHANGED <<net, exit, session, cache, standoff, rel, pass, lost, bounds>>

CancelRefused(s) ==
    /\ stop[s].st = "cancelling"
    /\ Mishap
    /\ stop' = [stop EXCEPT ![s].st = "resting"]
    /\ UNCHANGED <<net, exit, session, cache, standoff, rel, pass, lost,
                   releases>>

StopFills(s) ==
    /\ Live(s) /\ session # "closed"
    /\ Mishap
    /\ stop' = [stop EXCEPT ![s] = IF s = pass.gone THEN [stop[s] EXCEPT !.st = "filled"] ELSE NoStop]
    /\ net' = [net EXCEPT ![stop[s].lane] = @ - stop[s].qty]
    /\ UNCHANGED <<exit, session, cache, standoff, rel, pass, lost,
                   releases>>

VenueTakesExit(l) ==
    /\ exit[l].st = "sent"
    /\ Fits(exit[l].qty)
    /\ exit' = [exit EXCEPT ![l].st = "working"]
    /\ UNCHANGED <<net, stop, session, cache, standoff, rel, pass, lost, bounds>>

(* The rejection is an event, and _naked_after_reject drops a live mark. *)
VenueRejectsExit(l) ==
    /\ exit[l].st = "sent"
    /\ ~Fits(exit[l].qty)
    /\ exit' = [exit EXCEPT ![l] = NoExit]
    /\ standoff' = IF standoff = "live" THEN "none" ELSE standoff
    /\ LostTo(IF standoff = "live" THEN Lane \ {l} ELSE {})
    /\ UNCHANGED <<net, stop, session, cache, rel, pass, bounds>>

ExitFills(l) ==
    /\ exit[l].st = "working" /\ session # "closed"
    /\ exit' = [exit EXCEPT ![l] = NoExit]
    /\ net' = [net EXCEPT ![l] = @ - exit[l].qty]
    /\ UNCHANGED <<stop, session, cache, standoff, rel, pass, lost, bounds>>

FillSeen(l) ==
    /\ cache[l] # net[l]
    /\ cache' = [cache EXCEPT ![l] = net[l]]
    /\ UNCHANGED <<venue, standoff, rel, pass, lost, bounds>>

(* An entry, a trim, a sale by hand. *)
Trade(l) ==
    /\ session # "closed" /\ Mishap
    /\ \/ net' = [net EXCEPT ![l] = @ + 1]
       \/ net[l] > 0 /\ Fits(1) /\ net' = [net EXCEPT ![l] = @ - 1]
    /\ LostTo(Lane)
    /\ UNCHANGED <<stop, exit, session, cache, standoff, rel, pass, releases>>

SessionCloses ==
    /\ session = "open" /\ Mishap
    /\ session' = "closed"
    /\ UNCHANGED <<net, stop, exit, cache, standoff, rel, pass, lost, releases>>

-----------------------------------------------------------------------------
(* The specification. *)

Init ==
    /\ net = InitHeld /\ cache = InitHeld
    /\ stop = [s \in Slot |-> IF s <= Len(InitStops) THEN InitStops[s] ELSE NoStop]
    /\ exit = [l \in Lane |-> NoExit]
    /\ session = "open"
    /\ standoff = "none"
    /\ rel = [l \in Lane |-> AtRest]
    /\ pass = NoPass
    /\ lost = FALSE
    /\ releases = 0 /\ mishaps = 0

ReleaseStep(l) ==
    Sweep(l) \/ Cleared(l) \/ SharesFree(l) \/ ReleaseFails(l) \/ SubmitExit(l)

PassStep ==
    \/ PassBegins \/ ReadOrders \/ OutsideSession
    \/ Act \/ FlipBegins \/ FlipConfirmed \/ FlipAbandoned

VenueAnswers ==
    \/ \E s \in Slot : VenueTakesStop(s) \/ CancelConfirmed(s)
    \/ \E l \in Lane : VenueTakesExit(l) \/ VenueRejectsExit(l) \/ ExitFills(l) \/ FillSeen(l)

Next ==
    \/ \E l \in Exiting : ReleaseBegins(l) \/ ReleaseRaises(l) \/ RefusedLocally(l)
    \/ \E l \in Exiting : ReleaseStep(l)
    \/ PassStep \/ ReadFails \/ StandoffLapses
    \/ VenueAnswers
    \/ \E s \in Slot : CancelRefused(s) \/ StopFills(s)
    \/ \E l \in Lane : Trade(l)
    \/ SessionCloses

(* One event loop runs the releases and the passes, the timer keeps         *)
(* ticking, marks expire, and the venue and its stream answer.              *)
Fairness ==
    /\ \A l \in Exiting : WF_vars(ReleaseStep(l))
    /\ WF_vars(PassStep) /\ WF_vars(StandoffLapses) /\ WF_vars(VenueAnswers)

Spec == Init /\ [][Next]_vars /\ Fairness

-----------------------------------------------------------------------------
(* Properties. *)

StopRecord ==
    [st : {"none", "sent", "resting", "cancelling", "filled"}, lane : Lane \cup {NoLane},
     kind : {"trail", "floor", "limit"}, qty : Nat, native : BOOLEAN]

TypeOK ==
    /\ net \in [Lane -> Int] /\ cache \in [Lane -> Int]
    /\ stop \in [Slot -> StopRecord]
    /\ exit \in [Lane -> [st : {"none", "sent", "working"}, qty : Nat]]
    /\ session \in {"open", "closed"}
    /\ standoff \in {"none", "live", "lapsed"}
    /\ rel \in [Lane -> [pc : {"idle", "released"} \cup Wait, qty : Nat,
                         saw : BOOLEAN, slow : BOOLEAN]]
    /\ pass.pc \in {"idle", "orders", "act", "flip"}
    /\ lost \in BOOLEAN

(* A stop filled while its release waited, or another fill was not seen. *)
Oversold(l) == exit[l].qty > net[l]

(* What the standoff is for: once a release has said its shares are free,   *)
(* the venue has them when the exit arrives, unless the mark was lost on    *)
(* the way: it lapsed, another release or rejection dropped it, or a flip   *)
(* given up placed the rest of its plan without asking for it again.  Nor   *)
(* can it help against a stop that was already on its way to the venue when *)
(* the release began, or a trade by hand while somebody relied on it.       *)
RobbedOnlyIfLost ==
    [][\A l \in Lane : VenueRejectsExit(l) => lost \/ \E k \in Lane : Oversold(k)]_vars

(* What rests for a lane, and whether its shares have nothing to sell them. *)
Cover(l) == Qty(OfLane(RestingRows, l))
Bare(l) == Mode[l] # "none" /\ net[l] > Qty(OfLane(ReducingRows, l))

(* What the reconciler cannot sort out: a lane sold more than it held, a    *)
(* lane's stop that is larger than what the lane holds while the totals     *)
(* agree, a resting stop the cache wrote off.                               *)
Muddled ==
    \/ \E l \in Lane : net[l] < 0 \/ Cover(l) > net[l]
    \/ \E s \in Slot : Live(s) /\ ~stop[s].native

(* Whatever took a lane's stop away, a release that fails, an exit that is  *)
(* refused, a flip that is given up, a cancel nobody asked for, the lane is *)
(* covered again while the market is open.                                  *)
BareGetsCovered ==
    \A l \in Lane : Bare(l) ~> (~Bare(l) \/ session = "closed" \/ Muddled)

(* More resting than held sells what is not there: it is cut back.          *)
OversizeCorrected ==
    (Qty(RestingRows) > Total)
        ~> (Qty(RestingRows) <= Total \/ session = "closed" \/ \E s \in Slot : Live(s) /\ ~stop[s].native)

-----------------------------------------------------------------------------
(* Promises the code does not keep: see README. *)

(* lane_oversize.py: "SO THE COMPARISON MOVES TO THE LANE".  A lane whose   *)
(* stops cover more than it holds has the surplus cut, even when the        *)
(* instrument's total agrees because another lane is short of cover.        *)
LaneStopsFit ==
    \A l \in Lane :
        (Cover(l) > Max({0, net[l]}))
            ~> (Cover(l) <= Max({0, net[l]}) \/ session = "closed" \/ \E s \in Slot : Live(s) /\ ~stop[s].native)
=============================================================================
