--------------------------- MODULE MCJobScheduler ---------------------------
(* Instances of JobScheduler for TLC.                                      *)
EXTENDS JobScheduler, TLC

CONSTANTS t1, t2, t3

(* Two callers of one job, and the node-wide cleanup. *)
TwinKinds == (t1 :> "refresh") @@ (t2 :> "refresh") @@ (t3 :> "cleanup")
TwinScopes == (t1 :> "pypi") @@ (t2 :> "pypi") @@ (t3 :> "")

(* Two kinds of job on one repository. *)
PairKinds == (t1 :> "refresh") @@ (t2 :> "reclaim")
PairScopes == (t1 :> "pypi") @@ (t2 :> "pypi")
=============================================================================
