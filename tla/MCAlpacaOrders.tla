--------------------------- MODULE MCAlpacaOrders ---------------------------
(* One order: the orders of an instrument meet only in the reads of all     *)
(* orders, which treat each by itself.                                      *)
EXTENDS AlpacaOrders, TLC

CONSTANT o1

OneOrder == {o1}
=============================================================================
