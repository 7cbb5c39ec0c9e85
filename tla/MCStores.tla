------------------------------ MODULE MCStores ------------------------------
(***************************************************************************)
(* Three parts of what a node stores, one a behaviour: the log, vote and   *)
(* snapshots of the control group, the quota ledger, and the webhook       *)
(* outbox with its worker.  None reads or writes what another does, so     *)
(* nothing is lost by keeping the others still.                            *)
(*                                                                         *)
(* Quotas: two repositories, one enforcing limits and one auditing.  Two   *)
(* groups of one resource share a digest, another resource shares it too,  *)
(* and a request without a resource brings a second digest.  One request   *)
(* gives the shared digest another size.                                   *)
(*                                                                         *)
(* Webhooks: one event for two targets and one for the first of them.      *)
(***************************************************************************)
EXTENDS RaftStore, QuotaStore, WebhookOutbox

CONSTANTS
    r1, r2, p1, p2, g1, g2, d1, d2,
    e1, e2, w1, w2

VARIABLE part

SecondChanges == {2}

Request(r, p, g, d, n, cap) ==
    [repository |-> r, resource |-> p, group |-> g, digest |-> d, bytes |-> n,
     max_resource_artifact_bytes |-> cap]

(* The same shapes under both policies. *)
RequestsOf(r, cap) ==
    {Request(r, p1, g1, d1, 2, cap), Request(r, p1, g2, d1, 2, None),
     Request(r, p2, None, d1, 2, cap), Request(r, None, None, d2, 1, None)}

AllRequests == RequestsOf(r1, 3) \cup RequestsOf(r2, None) \cup {Request(r2, p1, g1, d1, 1, 3)}

PolicyLimits ==
    (r1 :> [max_artifact_bytes |-> None, max_accounted_bytes |-> 2, max_resources |-> 1,
            max_groups_per_resource |-> 1, audit |-> FALSE]) @@
    (r2 :> [max_artifact_bytes |-> 1, max_accounted_bytes |-> None, max_resources |-> None,
            max_groups_per_resource |-> None, audit |-> TRUE])

TwoEvents == {e1, e2}
TargetsOfEach == (e1 :> <<w1, w2>>) @@ (e2 :> <<w1>>)

allVars == <<part, vars, quota, webhookVars>>

StoresInit ==
    /\ part \in {"raft", "quota", "webhooks"}
    /\ Init /\ QuotaInit /\ WebhookInit

RaftStep == part = "raft" /\ Next /\ UNCHANGED <<part, quota, webhookVars>>
QuotaStep == part = "quota" /\ QuotaNext /\ UNCHANGED <<part, vars, webhookVars>>
WebhookStep == part = "webhooks" /\ WebhookNext /\ UNCHANGED <<part, vars, quota>>

(* The fairness of WebhookOutbox, in the behaviours that exercise it. *)
StoresSpec ==
    /\ StoresInit
    /\ [][RaftStep \/ QuotaStep \/ WebhookStep]_allVars
    /\ WF_allVars(part = "webhooks" /\ Work /\ UNCHANGED <<part, vars, quota>>)
    /\ WF_allVars(part = "webhooks" /\ Pass /\ UNCHANGED <<part, vars, quota>>)

=============================================================================
