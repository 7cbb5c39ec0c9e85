------------------------ MODULE MCTransferCoordinator ------------------------
(* Small instances of TransferCoordinator: a home and a target datacenter. *)
EXTENDS TransferCoordinator, TLC

CONSTANTS n1, n2, a1, a2, i1, i2
=============================================================================
