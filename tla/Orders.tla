------------------------------- MODULE Orders -------------------------------
(***************************************************************************)
(* The order in which a loop of the program meets the elements of a finite *)
(* set of numbers, and the part of a sequence that a loop keeps.  They are *)
(* what SetToSortSeq(S, <) and SelectSeq are, in a form that can be        *)
(* expanded in a proof.                                                    *)
(***************************************************************************)
EXTENDS Naturals, Sequences, FiniteSets

Below(S, x) == {y \in S : y < x}
Ordered(S) ==
  [k \in 1 .. Cardinality(S) |-> CHOOSE x \in S : Cardinality(Below(S, x)) = k - 1]

(* The elements of a sequence at the places of S. *)
Picked(s, S) == [k \in 1 .. Cardinality(S) |-> s[Ordered(S)[k]]]
=============================================================================
