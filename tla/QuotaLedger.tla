---------------------------- MODULE QuotaLedger ----------------------------
(***************************************************************************)
(* The storage quota ledger of the metadata store                          *)
(* (peryx-storage/src/meta/quota.rs).                                      *)
(*                                                                         *)
(* A write reserves capacity before it becomes visible, and the            *)
(* reservation is later committed with the driver rows or released.  The   *)
(* ledger never scans its reservations to answer a limit: it keeps running *)
(* counters per repository, per resource, per group and per blob, each     *)
(* split into a committed and a reserved part, and moves amounts between   *)
(* the parts as reservations change state.  A digest is charged once per   *)
(* repository however many reservations name it, and a resource and a      *)
(* group are counted once while anything references them.                  *)
(*                                                                         *)
(* Every operation is one redb write transaction, so it is one step.  A    *)
(* refused operation commits nothing and is a guard here.                  *)
(***************************************************************************)
EXTENDS Integers, FiniteSets, Functions, Sequences, TLC

CONSTANTS
    Ids,        \* reservation ids (fresh UUIDs in the code)
    Requests,   \* what a write may ask for: records of the fields of Request
    Limits,     \* QuotaLimits of each repository's policy
    MaxU64,     \* the largest value of a counter
    None        \* an absent resource, group or limit

Repositories == {q.repository : q \in Requests}
Resources == {<<q.repository, q.resource>> : q \in {r \in Requests : r.resource # None}}
Groups == {<<q.repository, q.resource, q.group>> : q \in {r \in Requests : r.group # None}}
Blobs == {<<q.repository, q.digest>> : q \in Requests}

ASSUME LimitAssumption ==
    /\ MaxU64 \in Nat /\ None \notin Nat
    /\ \A r \in Repositories :
         /\ Limits[r].max_accounted_bytes \in Nat \cup {None}
         /\ Limits[r].max_resources \in Nat \cup {None}
         /\ Limits[r].max_groups_per_resource \in Nat \cup {None}

(* validate_request refuses a group without a resource. *)
ASSUME RequestsValid ==
    \A q \in Requests : q.bytes \in 0..MaxU64 /\ (q.group # None => q.resource # None)

(***************************************************************************)
(* The ledger is one record of its tables:                                 *)
(*   usage         QUOTA_USAGE: per repository                             *)
(*   resource      QUOTA_RESOURCE: per resource                            *)
(*   group         QUOTA_GROUP: references of a group                      *)
(*   blob          QUOTA_BLOB: size and references of a digest             *)
(*   reservations  QUOTA_RESERVATION: id -> request and state              *)
(*   allocation    QUOTA_ALLOCATION: allocation key -> id                  *)
(* An absent counter row reads as its default.                             *)
(***************************************************************************)
Zero == [committed |-> 0, reserved |-> 0]
Total(v) == v.committed + v.reserved

ResourceKey(q) == <<q.repository, q.resource>>
GroupKey(q) == <<q.repository, q.resource, q.group>>
BlobKey(q) == <<q.repository, q.digest>>
allocation_key(q) == <<q.repository, q.resource, q.group, q.digest>>

QuotaUsage == [artifact_bytes |-> Zero, accounted_bytes |-> Zero, resources |-> Zero]
ResourceUsage == [references |-> Zero, artifact_bytes |-> Zero, groups |-> Zero]
BlobUsage == [bytes |-> 0, references |-> Zero]

NoQuota ==
    [usage |-> [r \in Repositories |-> QuotaUsage],
     resource |-> [k \in Resources |-> ResourceUsage],
     group |-> [k \in Groups |-> Zero],
     blob |-> [k \in Blobs |-> BlobUsage],
     reservations |-> <<>>,
     allocation |-> <<>>]

Live(L) == DOMAIN L.reservations
InState(L, state) == {id \in Live(L) : L.reservations[id].state = state}
Pending(L) == InState(L, "reserved")
Committed(L) == InState(L, "committed")

----------------------------------------------------------------------------
(* Reserving *)

Over(limit, amount) == limit # None /\ amount > limit

(* ReservationAdds: what this reservation is the first to reference. *)
adds(L, q) ==
    [accounted_bytes |-> Total(L.blob[BlobKey(q)].references) = 0,
     resource |-> q.resource # None /\ Total(L.resource[ResourceKey(q)].references) = 0,
     group |-> q.group # None /\ Total(L.group[GroupKey(q)]) = 0]

(* Deliberately wrong variant: each part is checked on its own. *)
ensure_total_add_parts(v, amount) ==
    v.committed + amount <= MaxU64 /\ v.reserved + amount <= MaxU64

ensure_total_add(v, amount) == Total(v) + amount <= MaxU64

(* Whether every counter the reservation adds to can hold the sum. *)
Fits(L, q) ==
    LET u == L.usage[q.repository]
    IN  /\ ensure_total_add(u.artifact_bytes, q.bytes)
        /\ q.max_resource_artifact_bytes # None =>
             ensure_total_add(L.resource[ResourceKey(q)].artifact_bytes, q.bytes)
        /\ adds(L, q).accounted_bytes => ensure_total_add(u.accounted_bytes, q.bytes)
        /\ adds(L, q).resource => ensure_total_add(u.resources, 1)
        /\ adds(L, q).group => ensure_total_add(L.resource[ResourceKey(q)].groups, 1)

(* Deliberately wrong variant: bytes still reserved do not count. *)
Violates_committed(L, q) ==
    LET limits == Limits[q.repository]
        u == L.usage[q.repository]
    IN  \/ Over(limits.max_artifact_bytes, q.bytes)
        \/ /\ q.max_resource_artifact_bytes # None
           /\ Over(q.max_resource_artifact_bytes,
                   Total(L.resource[ResourceKey(q)].artifact_bytes) + q.bytes)
        \/ /\ adds(L, q).accounted_bytes
           /\ Over(limits.max_accounted_bytes, u.accounted_bytes.committed + q.bytes)
        \/ /\ adds(L, q).resource
           /\ Over(limits.max_resources, Total(u.resources) + 1)
        \/ /\ adds(L, q).group
           /\ Over(limits.max_groups_per_resource, Total(L.resource[ResourceKey(q)].groups) + 1)

(* limit_violations, and the resource-byte limit of the request. *)
Violates(L, q) ==
    LET limits == Limits[q.repository]
        u == L.usage[q.repository]
    IN  \/ Over(limits.max_artifact_bytes, q.bytes)
        \/ /\ q.max_resource_artifact_bytes # None
           /\ Over(q.max_resource_artifact_bytes,
                   Total(L.resource[ResourceKey(q)].artifact_bytes) + q.bytes)
        \/ /\ adds(L, q).accounted_bytes
           /\ Over(limits.max_accounted_bytes, Total(u.accounted_bytes) + q.bytes)
        \/ /\ adds(L, q).resource
           /\ Over(limits.max_resources, Total(u.resources) + 1)
        \/ /\ adds(L, q).group
           /\ Over(limits.max_groups_per_resource, Total(L.resource[ResourceKey(q)].groups) + 1)

(***************************************************************************)
(* A digest keeps the size it was accounted with, no counter overflows,    *)
(* and outside audit mode no limit is crossed.                             *)
(***************************************************************************)
Admits(L, q) ==
    /\ Total(L.blob[BlobKey(q)].references) > 0 => L.blob[BlobKey(q)].bytes = q.bytes
    /\ Fits(L, q)
    /\ Limits[q.repository].audit \/ ~Violates(L, q)

(* Tables: a row written, a row removed. *)
With(f, x, row) == [y \in DOMAIN f \cup {x} |-> IF y = x THEN row ELSE f[y]]
Without(f, x) == [y \in DOMAIN f \ {x} |-> f[y]]

reserved_add(v, amount) == [v EXCEPT !.reserved = @ + amount]
If(condition, amount) == IF condition THEN amount ELSE 0

(* The rows ReservationRows::reserve makes of those it read. *)
UsageReserved(L, q) ==
    LET u == L.usage[q.repository]
    IN  [artifact_bytes |-> reserved_add(u.artifact_bytes, q.bytes),
         accounted_bytes |-> reserved_add(u.accounted_bytes, If(adds(L, q).accounted_bytes, q.bytes)),
         resources |-> reserved_add(u.resources, If(adds(L, q).resource, 1))]

ResourceReserved(L, q) ==
    LET u == L.resource[ResourceKey(q)]
    IN  [references |-> reserved_add(u.references, 1),
         artifact_bytes |-> reserved_add(u.artifact_bytes, If(q.max_resource_artifact_bytes # None, q.bytes)),
         groups |-> reserved_add(u.groups, If(adds(L, q).group, 1))]

BlobReserved(L, q) ==
    [bytes |-> q.bytes, references |-> reserved_add(L.blob[BlobKey(q)].references, 1)]

(* ReservationRows::write. *)
ReserveRows(L, q) ==
    [L EXCEPT !.usage[q.repository] = UsageReserved(L, q),
              !.blob[BlobKey(q)] = BlobReserved(L, q),
              !.resource[ResourceKey(q)] = ResourceReserved(L, q),
              !.group[GroupKey(q)] = reserved_add(@, 1)]

(* reserve_quota_inner of an admitted request. *)
reserve_quota(L, id, q) ==
    [ReserveRows(L, q) EXCEPT
       !.reservations = With(@, id, [request |-> q, state |-> "reserved"])]

----------------------------------------------------------------------------
(* Settling *)

move_value(v, amount) ==
    [committed |-> v.committed + amount, reserved |-> v.reserved - amount]

(* The first commit of a shared row moves it; later ones find it moved. *)
move_first(v, references, amount) ==
    IF references.committed = 0 THEN move_value(v, amount) ELSE v

subtract_value(v, state, amount) ==
    IF state = "committed" THEN [v EXCEPT !.committed = @ - amount]
                           ELSE [v EXCEPT !.reserved = @ - amount]

(* Deliberately wrong variant: a row whose committed holder leaves stays committed. *)
rebalance_or_remove_stuck(v, references, released, amount) ==
    IF Total(references) = 0 THEN subtract_value(v, released, amount) ELSE v

(* A shared row goes with its last reference, and back to reserved with its
   last committed one. *)
rebalance_or_remove(v, references, released, amount) ==
    IF Total(references) = 0 THEN subtract_value(v, released, amount)
    ELSE IF released = "committed" /\ references.committed = 0
    THEN [committed |-> v.committed - amount, reserved |-> v.reserved + amount]
    ELSE v

(* transition, transition_resource and transition_group of a commit. *)
UsageMoved(L, q) ==
    LET u == L.usage[q.repository]
    IN  [artifact_bytes |-> move_value(u.artifact_bytes, q.bytes),
         accounted_bytes |-> move_first(u.accounted_bytes, L.blob[BlobKey(q)].references, q.bytes),
         resources |-> IF q.resource = None THEN u.resources
                       ELSE move_first(u.resources, L.resource[ResourceKey(q)].references, 1)]

ResourceMoved(L, q) ==
    LET u == L.resource[ResourceKey(q)]
    IN  [references |-> move_value(u.references, 1),
         artifact_bytes |-> IF q.max_resource_artifact_bytes = None THEN u.artifact_bytes
                            ELSE move_value(u.artifact_bytes, q.bytes),
         groups |-> IF q.group = None THEN u.groups ELSE move_first(u.groups, L.group[GroupKey(q)], 1)]

CommitRows(L, q) ==
    [L EXCEPT !.usage[q.repository] = UsageMoved(L, q),
              !.blob[BlobKey(q)].references = move_value(@, 1),
              !.resource[ResourceKey(q)] = ResourceMoved(L, q),
              !.group[GroupKey(q)] = move_value(@, 1)]

(* subtract_reference on the rows of a request. *)
BlobLeft(L, q, s) == subtract_value(L.blob[BlobKey(q)].references, s, 1)
ResourceLeft(L, q, s) == subtract_value(L.resource[ResourceKey(q)].references, s, 1)
GroupLeft(L, q, s) == subtract_value(L.group[GroupKey(q)], s, 1)

(* A row nothing references any more is removed. *)
KeepIf(references, row, none) == IF Total(references) = 0 THEN none ELSE row

(* transition, transition_resource and transition_group of a release. *)
UsageDropped(L, q, s) ==
    LET u == L.usage[q.repository]
    IN  [artifact_bytes |-> subtract_value(u.artifact_bytes, s, q.bytes),
         accounted_bytes |-> rebalance_or_remove(u.accounted_bytes, BlobLeft(L, q, s), s, q.bytes),
         resources |-> IF q.resource = None THEN u.resources
                       ELSE rebalance_or_remove(u.resources, ResourceLeft(L, q, s), s, 1)]

ResourceDropped(L, q, s) ==
    LET u == L.resource[ResourceKey(q)]
    IN  KeepIf(ResourceLeft(L, q, s),
          [references |-> ResourceLeft(L, q, s),
           artifact_bytes |-> IF q.max_resource_artifact_bytes = None THEN u.artifact_bytes
                              ELSE subtract_value(u.artifact_bytes, s, q.bytes),
           groups |-> IF q.group = None THEN u.groups
                      ELSE rebalance_or_remove(u.groups, GroupLeft(L, q, s), s, 1)],
          ResourceUsage)

BlobDropped(L, q, s) ==
    KeepIf(BlobLeft(L, q, s), [L.blob[BlobKey(q)] EXCEPT !.references = BlobLeft(L, q, s)], BlobUsage)

ReleaseRows(L, q, s) ==
    [L EXCEPT !.usage[q.repository] = UsageDropped(L, q, s),
              !.blob[BlobKey(q)] = BlobDropped(L, q, s),
              !.resource[ResourceKey(q)] = ResourceDropped(L, q, s),
              !.group[GroupKey(q)] = GroupLeft(L, q, s)]

(* commit_reservation: an unknown or committed id answers false. *)
commit_reservation(L, id) ==
    LET q == L.reservations[id].request
    IN  IF id \notin Pending(L) THEN L
        ELSE [CommitRows(L, q) EXCEPT
               !.reservations[id].state = "committed",
               !.allocation = With(@, allocation_key(q), id)]

(* Deliberately wrong variant: the index entry outlives its reservation. *)
forget_allocation_never(L, id) == L.allocation

(* Preserves an index entry replaced by a later duplicate. *)
forget_allocation(L, id) ==
    LET key == allocation_key(L.reservations[id].request)
    IN  IF key \in DOMAIN L.allocation /\ L.allocation[key] = id
        THEN Without(L.allocation, key) ELSE L.allocation

(* release with ReleaseScope::Any: an unknown id answers false. *)
release(L, id) ==
    IF id \notin Live(L) THEN L
    ELSE LET r == L.reservations[id]
         IN  [ReleaseRows(L, r.request, r.state) EXCEPT
               !.reservations = Without(@, id),
               !.allocation = forget_allocation(L, id)]

release_committed_allocation(L, key) ==
    IF key \in DOMAIN L.allocation THEN release(L, L.allocation[key]) ELSE L

(* Some order of a set, for the transactions whose order does not matter. *)
InOrder(S) == CHOOSE order \in Bijection(1..Cardinality(S), S) : TRUE

(***************************************************************************)
(* settle_reservation over the reservations of one driver transaction, in  *)
(* the order the caller holds them: the ids whose rows were written are    *)
(* committed and the rest released.  An id that is not pending fails the   *)
(* transaction, which then writes nothing.                                 *)
(***************************************************************************)
Settles(L, ids) == ids \subseteq Pending(L)

settle_reservation(L, id, commit) == IF commit THEN commit_reservation(L, id) ELSE release(L, id)

settle_reservations(L, order, committed) ==
    LET after[n \in 0..Len(order)] ==
          IF n = 0 THEN L ELSE settle_reservation(after[n - 1], order[n], order[n] \in committed)
    IN  after[Len(order)]

=============================================================================
