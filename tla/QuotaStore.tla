----------------------------- MODULE QuotaStore -----------------------------
(***************************************************************************)
(* The quota operations of the metadata store as its callers invoke them:  *)
(* the drivers' publications and deletions, the repair at startup and the  *)
(* recurring repair of the write-ledger job.  The bodies of the driver     *)
(* transactions are left out; which of their reservations they report as   *)
(* written is an input.                                                    *)
(***************************************************************************)
EXTENDS QuotaLedger

CONSTANT RepairBatch  \* QUOTA_REPAIR_BATCH: releases of one repair transaction

VARIABLE quota

QuotaInit == quota = NoQuota

Reserve(id, q) ==
    /\ id \notin Live(quota)
    /\ Admits(quota, q)
    /\ quota' = reserve_quota(quota, id, q)

commit_quota_reservation(id) ==
    /\ id \in Pending(quota)
    /\ quota' = commit_reservation(quota, id)

(***************************************************************************)
(* commit_driver_txn_with_quotas, and with one reservation                 *)
(* commit_driver_txn_with_quota and its _if and _if_commit variants.       *)
(***************************************************************************)
CommitDriverTxn(order, committed) ==
    /\ Settles(quota, Range(order))
    /\ quota' = settle_reservations(quota, order, committed)

release_quota_reservation(id) ==
    /\ id \in Live(quota)
    /\ quota' = release(quota, id)

commit_driver_txn_release_allocation(key) ==
    /\ key \in DOMAIN quota.allocation
    /\ quota' = release_committed_allocation(quota, key)

(* Which pending reservations are old enough is the caller's clock: an input. *)
repair_abandoned_quota_reservations(eligible) ==
    /\ eligible \subseteq Pending(quota)
    /\ Cardinality(eligible) \in 1..RepairBatch
    /\ quota' = settle_reservations(quota, InOrder(eligible), {})

QuotaNext ==
    \/ \E id \in Ids, q \in Requests : Reserve(id, q)
    \/ \E id \in Ids : commit_quota_reservation(id)
    \/ \E ids \in SUBSET Pending(quota) \ {{}} :
         \E order \in Bijection(1..Cardinality(ids), ids), committed \in SUBSET ids :
             CommitDriverTxn(order, committed)
    \/ \E id \in Ids : release_quota_reservation(id)
    \/ \E key \in DOMAIN quota.allocation : commit_driver_txn_release_allocation(key)
    \/ \E eligible \in SUBSET Live(quota) : repair_abandoned_quota_reservations(eligible)

QuotaSpec == QuotaInit /\ [][QuotaNext]_quota

----------------------------------------------------------------------------
(* What the counters stand for, read off the reservations themselves. *)

(* The reservations in a state that ask for one of these requests. *)
Holding(rs, state, asks) == {id \in DOMAIN rs : rs[id].state = state /\ rs[id].request \in asks}

(* What the reservations add up to, each on its own. *)
Split(rs, asks, weight) ==
    LET of == [id \in DOMAIN rs |-> weight[rs[id].request]]
    IN  [committed |-> SumFunctionOnSet(of, Holding(rs, "committed", asks)),
         reserved |-> SumFunctionOnSet(of, Holding(rs, "reserved", asks))]

(* Each shared key counts once, under the strongest state referencing it. *)
KeysHeld(rs, state, asks, key) == {key[rs[id].request] : id \in Holding(rs, state, asks)}

Shared(rs, asks, key, weight) ==
    LET settled == KeysHeld(rs, "committed", asks, key)
        waiting == KeysHeld(rs, "reserved", asks, key) \ settled
        holder(k) == CHOOSE id \in DOMAIN rs : rs[id].request \in asks /\ key[rs[id].request] = k
        of == [k \in settled \cup waiting |-> weight[rs[holder(k)].request]]
    IN  [committed |-> SumFunctionOnSet(of, settled), reserved |-> SumFunctionOnSet(of, waiting)]

OfRepository(r) == {q \in Requests : q.repository = r}
OfResource(k) == {q \in Requests : ResourceKey(q) = k}
OfGroup(k) == {q \in Requests : GroupKey(q) = k}
OfBlob(k) == {q \in Requests : BlobKey(q) = k}
Metered(asks) == {q \in asks : q.max_resource_artifact_bytes # None}
InResource(asks) == {q \in asks : q.resource # None}
InGroup(asks) == {q \in asks : q.group # None}

ByResource == [q \in Requests |-> ResourceKey(q)]
ByGroup == [q \in Requests |-> GroupKey(q)]
ByBlob == [q \in Requests |-> BlobKey(q)]
One == [q \in Requests |-> 1]
Bytes == [q \in Requests |-> q.bytes]

(* The rows a scan of the reservations would find. *)
UsageOf(rs, r) ==
    [artifact_bytes |-> Split(rs, OfRepository(r), Bytes),
     accounted_bytes |-> Shared(rs, OfRepository(r), ByBlob, Bytes),
     resources |-> Shared(rs, InResource(OfRepository(r)), ByResource, One)]

ResourceOf(rs, k) ==
    [references |-> Split(rs, OfResource(k), One),
     artifact_bytes |-> Split(rs, Metered(OfResource(k)), Bytes),
     groups |-> Shared(rs, InGroup(OfResource(k)), ByGroup, One)]

Counted(L) ==
    /\ \A r \in Repositories : L.usage[r] = UsageOf(L.reservations, r)
    /\ \A k \in Resources : L.resource[k] = ResourceOf(L.reservations, k)
    /\ \A k \in Groups : L.group[k] = Split(L.reservations, OfGroup(k), One)
    /\ \A k \in Blobs : L.blob[k].references = Split(L.reservations, OfBlob(k), One)
    /\ \A id \in Live(L) :
         LET q == L.reservations[id].request IN L.blob[BlobKey(q)].bytes = q.bytes

(***************************************************************************)
(* The running counters are the sums they stand for: after any history of  *)
(* reservations, commits, releases and repairs, in any order, every        *)
(* counter that a limit is checked against equals what a scan of the       *)
(* reservations would count, with shared digests, resources and groups     *)
(* counted once and under the committed side as soon as one holder is      *)
(* (transition, rebalance_or_remove).                                      *)
(***************************************************************************)
CountersMatch == Counted(quota)

(***************************************************************************)
(* An enforced limit holds for what is reserved and committed together: a  *)
(* repository outside audit mode never holds more accounted bytes, more    *)
(* resources or more groups in a resource than its policy allows, however  *)
(* reservations that share a digest, resource or group are settled and     *)
(* released around each other (limit_violations).                          *)
(***************************************************************************)
Within(limit, v) == limit = None \/ Total(v) <= limit
LimitsHold ==
    \A r \in {r \in Repositories : ~Limits[r].audit} :
      /\ Within(Limits[r].max_accounted_bytes, quota.usage[r].accounted_bytes)
      /\ Within(Limits[r].max_resources, quota.usage[r].resources)
      /\ \A k \in Resources : k[1] = r =>
           Within(Limits[r].max_groups_per_resource, quota.resource[k].groups)

(***************************************************************************)
(* No counter can overflow when a reservation settles: committed and       *)
(* reserved together fit a u64, so the checked_add of move_value and       *)
(* rebalance_or_remove cannot fail halfway through a commit, not even in   *)
(* audit mode, where a limit stops nothing.                                *)
(***************************************************************************)
TotalsFit ==
    /\ \A r \in Repositories : \A f \in DOMAIN quota.usage[r] :
         Total(quota.usage[r][f]) <= MaxU64
    /\ \A k \in Resources : \A f \in DOMAIN quota.resource[k] :
         Total(quota.resource[k][f]) <= MaxU64

(***************************************************************************)
(* The deletion index names only committed reservations of its own key:    *)
(* deleting an object never releases what another object, or a write still *)
(* in flight, was charged (forget_allocation keeps an entry that a later   *)
(* duplicate replaced, and removes its own).                               *)
(***************************************************************************)
AllocationIsLive ==
    \A key \in DOMAIN quota.allocation :
      LET id == quota.allocation[key]
      IN  id \in Committed(quota) /\ allocation_key(quota.reservations[id].request) = key

=============================================================================
