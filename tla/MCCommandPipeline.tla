------------------------- MODULE MCCommandPipeline -------------------------
(* Three commands: 1 and 2 create an order under the same client order id,  *)
(* 3 is a cancel that names it too; a batch holds two entries.              *)
EXTENDS CommandPipeline

MCCreating == {1, 2}
MCCoid     == {"k1", "k2"}
MCShared   == [e \in Entry |-> "k1"]
MCDistinct == [e \in Entry |-> IF e = 2 THEN "k2" ELSE "k1"]
=============================================================================
