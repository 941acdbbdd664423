---------------------------- MODULE MCExitRelease ----------------------------
(* Two lanes share one instrument, one share each: a rests a trailing stop, *)
(* b is to rest a fixed floor and still has a trailing stop to be flipped.  *)
EXTENDS ExitRelease

CONSTANTS m, a, b

Strategies == {a, b}
ModesAB == [l \in Strategies |-> IF l = a THEN "trail" ELSE "entry_floor"]
OneEach == [l \in Strategies |-> 1]
OnlyA == {a}
TrailOf(l) == [st |-> "resting", lane |-> l, kind |-> "trail", qty |-> 1, native |-> TRUE]
OneStopEach == <<TrailOf(a), TrailOf(b)>>
=============================================================================
