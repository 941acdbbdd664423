------------------------------ MODULE MCSleeves ------------------------------
(* A lane that will be wound down (a), the one that takes over (b), and     *)
(* capital parked with nobody.                                              *)
EXTENDS Sleeves, TLC

CONSTANTS a, b, u

Lanes == {a, b}
Actual == [s \in {a, b, u} |-> CASE s = a -> 2 [] s = b -> 0 [] OTHER -> 1]
Interchangeable == Permutations(Fill) \cup Permutations(Run) \cup Permutations(Tx)
Wanted == [l \in {a, b} |-> IF l = a THEN 2 ELSE 1]
=============================================================================
