---------------------------- MODULE ControlGroup ----------------------------
(***************************************************************************)
(* What ControlWindow and TransferCoordinator have in common: the          *)
(* processes of the control plane, voters or not, each in a datacenter.    *)
(***************************************************************************)
CONSTANTS
    Nodes,  \* the processes
    None    \* no command, no receipt, no plan
=============================================================================
