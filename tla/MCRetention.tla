----------------------------- MODULE MCRetention -----------------------------
(* Instances of Retention for TLC. *)
EXTENDS Retention, TLC

Symmetry == Permutations(Item) \cup Permutations(Pd)
=============================================================================
