---------------------------- MODULE MCWriteLease ----------------------------
(* Instances of WriteLease for TLC. *)
EXTENDS WriteLease, TLC

Symmetry == Permutations(Writes)
=============================================================================
