--------------------------- MODULE ProtectionPlan ---------------------------
(* The pure half of the protection reconciler: what protection.py plans for *)
(* one long leg (an instrument and its SELL side) from the broker's rows,   *)
(* and which stops protective_reconcile.py cancels from the cache's rows.   *)
(* No variables: ExitRelease runs these operators between the awaits of a   *)
(* pass.                                                                    *)
(*                                                                          *)
(* A position row is [lane, qty], an order row [id, lane, kind, qty]: the   *)
(* lane of a position row is the cache's split, the lane of an order row    *)
(* the answer of lane_of (NoLane: the cache cannot name it).  Kinds are     *)
(* "trail" and "floor", which protect, and "limit", which only reserves.    *)
(* Ids are ordered by age.  Prices are left out: Sizable says whether the   *)
(* price, the ATR and the width of the instrument allow a stop.             *)
EXTENDS Integers, FiniteSets, FiniteSetsExt

CONSTANTS
    Lane,       \* registered strategy lanes and MANUAL-001
    NoLane,     \* "": the row or the order cannot be attributed
    Mode        \* the lane's declared stance: "trail", "entry_floor" or "none"

ASSUME PlanAssumption ==
    /\ NoLane \notin Lane
    /\ Mode \in [Lane -> {"trail", "entry_floor", "none"}]

-----------------------------------------------------------------------------
(* Quantities. *)

(* The shares of a set of rows, counted one by one; a short counts none. *)
Qty(rows) == Cardinality(UNION {{r} \X (1..r.qty) : r \in rows})

Protective(orders) == {o \in orders : o.kind # "limit"}

OfLane(rows, l) == {r \in rows : r.lane = l}

Least(a, b) == IF a <= b THEN a ELSE b

(* The broker's total split over the lanes of the cache, if they agree. *)
AttributeRows(total, split) ==
    LET lanes == {[lane |-> l, qty |-> split[l]] : l \in {k \in Lane : split[k] > 0}}
    IN  CASE total = 0           -> {}
          [] total = Qty(lanes)  -> lanes
          [] OTHER               -> {[lane |-> NoLane, qty |-> total]}

-----------------------------------------------------------------------------
(* Coverage.  Shares are counted in Qty(rows)-ths, since a pro-rata share   *)
(* of the coverage is a fraction of one.                                    *)

Attributable(rows, orders) ==
    /\ \A r \in rows : r.lane # NoLane
    /\ \A o \in Protective(orders) : o.lane # NoLane

Uncovered(rows, orders, r) ==
    LET held == Qty(rows)
        covered == Qty(Protective(orders))
        own == Qty(OfLane(Protective(orders), r.lane))
    IN  CASE Attributable(rows, orders) /\ own < r.qty -> held * (r.qty - own)
          [] ~Attributable(rows, orders) /\ covered < held -> r.qty * (held - covered)
          [] OTHER -> 0

Legs(rows, orders) == {r \in rows : Uncovered(rows, orders, r) > 0}

(* Shares no open reducing order, protective or not, has a claim on. *)
Free(rows, orders) == Qty(rows) * Max({0, Qty(rows) - Qty(orders)})

-----------------------------------------------------------------------------
(* Policy.  A lane the registry knows answers with its own stance and a     *)
(* source of its own, so it never equals the default, whatever its mode:    *)
(* any lane with an entry makes the instrument an overridden one.           *)

Overridden(entries) == entries # {}

Policy(lane, entries) ==
    CASE lane # NoLane        -> Mode[lane]
      [] Overridden(entries)  -> "unattributable"
      [] OTHER                -> "trail"

(* Why a leg gets no stop, in the order the planner asks. *)
Refusal(rows, orders, entries, sizable, r) ==
    LET policy == Policy(r.lane, entries)
        free == Free(rows, orders)
    IN  CASE policy = "unattributable" -> "lane_unattributable"
          [] policy = "none"           -> "opted_out"
          [] ~sizable                  -> "no_price"
          [] policy = "entry_floor" /\ r.lane \notin entries -> "no_lane_entry"
          [] free = 0                  -> "reserved_by_other_order"
          [] OTHER                     -> "none"

StopKind(lane, entries) == IF Policy(lane, entries) = "entry_floor" THEN "floor" ELSE "trail"

(* The stops to rest: per leg as much as is uncovered and free. *)
Intents(rows, orders, entries, sizable) ==
    {[lane |-> r.lane, kind |-> StopKind(r.lane, entries),
      qty  |-> Least(Uncovered(rows, orders, r), Free(rows, orders))] :
        r \in {x \in Legs(rows, orders) :
                  Refusal(rows, orders, entries, sizable, x) = "none"}}

(* _make_qty refuses what is not a whole number of shares. *)
Whole(rows, intent) == intent.qty % Qty(rows) = 0
Shares(rows, intent) == intent.qty \div Qty(rows)

-----------------------------------------------------------------------------
(* Too much coverage: reduce the largest stops until the rest is held.      *)
(* Among equals the broker's order decides; newest first is what it sends.  *)

Before(o, p) == o.qty > p.qty \/ (o.qty = p.qty /\ o.id > p.id)

Excess(rows, orders, o) ==
    Qty(Protective(orders)) - Qty(rows) - Qty({p \in Protective(orders) : Before(p, o)})

Oversize(rows, orders) ==
    {[o EXCEPT !.qty = o.qty - Least(o.qty, Excess(rows, orders, o))] :
        o \in {p \in Protective(orders) : Excess(rows, orders, p) > 0}}

(* A trailing stop of ours on a lane whose stance is a fixed floor. *)
WrongMode(rows, orders) ==
    {o \in orders : /\ o.kind = "trail"
                    /\ \E r \in rows : r.lane = o.lane /\ r.lane # NoLane
                    /\ Mode[o.lane] = "entry_floor"}

-----------------------------------------------------------------------------
(* protective_reconcile.py, from the cache: oldest first, a stop of a lane  *)
(* that holds nothing, or whose older stops already cover it, is cancelled. *)

Older(orders, o) == {p \in OfLane(orders, o.lane) : p.id < o.id}

(* Greedy by age, and a stop is skipped only once the holding is covered:   *)
(* whatever is kept before o is everything older that was itself needed.    *)
Needed(split, orders, o) ==
    /\ o.lane # NoLane
    /\ split[o.lane] > 0
    /\ Qty(Older(orders, o)) < split[o.lane]

Unprotectable(split, orders) ==
    IF \A l \in Lane : split[l] = 0
    THEN {}                                 \* an empty book authorises nothing
    ELSE {o \in orders : ~Needed(split, orders, o)}
=============================================================================
