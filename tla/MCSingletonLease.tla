-------------------------- MODULE MCSingletonLease --------------------------
(* Instances of SingletonLease for TLC. *)
EXTENDS SingletonLease, TLC

Symmetry == Permutations(Holders)
=============================================================================
