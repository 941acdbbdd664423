----------------------------- MODULE MCManagers -----------------------------
(* Two dispatch passes over the rows of one position. *)
EXTENDS Managers, TLC

CONSTANTS d1, d2

MCWatch == {<<"watch", "self">>}
MCLane == {<<"flatten", "lane">>}
MCBoth == {<<"watch", "self">>, <<"flatten", "self">>}
MCSymmetry == Permutations({d1, d2})
=============================================================================
