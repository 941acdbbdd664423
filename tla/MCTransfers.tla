---------------------------- MODULE MCTransfers ----------------------------
(* t1 moves one of the two units strategy a is long to b, t2 the one unit   *)
(* strategy c is short to b: whichever comes first, b holds the other side  *)
(* of the second.  In the sole instance a holds the account's one position. *)
EXTENDS Transfers, TLC

CONSTANTS a, b, c, t1, t2

MCSource == (t1 :> a) @@ (t2 :> c)
MCTarget == (t1 :> b) @@ (t2 :> b)
MCSide   == (t1 :> "LONG") @@ (t2 :> "SHORT")
MCQty    == (t1 :> 1) @@ (t2 :> 1)
MCPos     == (a :> 2) @@ (b :> 0) @@ (c :> -1)
MCSolePos == (a :> 1) @@ (b :> 0) @@ (c :> 0)
=============================================================================
