----------------------------- MODULE MCCircuit -----------------------------
(* Instances of Circuit for TLC; the ladder is the code's, in coarse units. *)
EXTENDS Circuit, TLC

Ladder == [l \in Level |-> IF l = 0 THEN 0 ELSE IF l < 5 THEN 1 ELSE 2]
(* The properties say nothing once a row id was reused under a call. *)
NotRecycled == ~recycled
Symmetry == Permutations(Call)
=============================================================================
