--------------------------- MODULE MCControlWindow ---------------------------
(***************************************************************************)
(* Small instances of ControlWindow, one a behaviour, with one authority   *)
(* that moves between two datacenters.  Delayed: exact clocks, entries     *)
(* applied late, and a voter leaving.  Drifting: the submitters' clocks    *)
(* differ, and the window is longer by what that costs, so that the same   *)
(* bounds hold in both.                                                    *)
(***************************************************************************)
EXTENDS ControlWindow, TLC

CONSTANTS n1, n2, d1

VARIABLE setting

Mixed == {Move(d1), Reshape({}, {n2})}

Drifting ==
    INSTANCE ControlWindow WITH Window <- Window + 1, Drift <- 1, MaxDelay <- 0, Commands <- {Move(d1)}

SettingInit == setting \in {"delayed", "drifting"} /\ WindowInit

DelayedStep == setting = "delayed" /\ WindowNext /\ UNCHANGED setting
DriftingStep == setting = "drifting" /\ Drifting!WindowNext /\ UNCHANGED setting

SettingSpec == SettingInit /\ [][DelayedStep \/ DriftingStep]_<<setting, windowVars>>
=============================================================================
