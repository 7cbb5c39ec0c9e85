---------------------------- MODULE MCReplicaSync ----------------------------
(* Small instances of ReplicaSync: three changes of two rows, pulled from  *)
(* the primary and a relay.                                                *)
EXTENDS ReplicaSync

Rewritten == <<"a", "b", "a">>
PrimaryFirst == <<"primary", "relay">>
RelayFirst == <<"relay", "primary">>
=============================================================================
