--------------------------- MODULE OwnershipState ---------------------------
(***************************************************************************)
(* The authority half of the replicated ownership state machine            *)
(* (peryx-ha-distributed/src/ownership.rs).  A record maps one authority   *)
(* key to its home datacenter, its epoch and the write leases in flight.   *)
(* Every operator below is one branch of `OwnershipState::apply`: it takes *)
(* a record and returns the record the command leaves with the effect the  *)
(* proposer is answered.  Modules that need authorities apply them.        *)
(***************************************************************************)
EXTENDS LeaseClock, FiniteSets

CONSTANT Datacenters    \* the datacenters an authority may call home

ASSUME OwnershipAssumption ==
    /\ None \notin Datacenters
    /\ Skew \in Nat
    /\ LeaseSecs \in Nat

UNASSIGNED == 0

(* An absent map entry; `epoch` and `home` read it as zero and None. *)
Unowned == [home |-> None, epoch |-> UNASSIGNED, writes |-> {}]

Assigned(r) == r.home # None

Effect(r, e) == [record |-> r, effect |-> e]

(* Deliberately wrong variant: the skew is forgotten on the transfer side. *)
expire_writes_no_skew(r, t) ==
    [r EXCEPT !.writes = {l \in @ : l.expires > t}]

(* A write lease outlives its expiry by the clock skew. *)
expire_writes(r, t) ==
    [r EXCEPT !.writes = {l \in @ : l.expires + Skew > t}]

assign_home(r, home) ==
    IF Assigned(r)
    THEN Effect(r, "AlreadyAssigned")
    ELSE Effect([home |-> home, epoch |-> 1, writes |-> {}], "Assigned")

(* The shape shared by the three commands a live write lease blocks: lapsed *)
(* leases are dropped whether or not the command then goes through.         *)
WhenDrained(r, t, next, effect) ==
    LET live == expire_writes(r, t)
    IN  IF live.writes # {}
        THEN Effect(live, "WritesInFlight")
        ELSE Effect(next, effect)

advance_epoch(r, t) ==
    IF ~Assigned(r)
    THEN Effect(r, "NotAssigned")
    ELSE WhenDrained(r, t,
            [home |-> r.home, epoch |-> r.epoch + 1, writes |-> {}],
            "EpochAdvanced")

(* Deliberately wrong variant: the home moves under the old epoch. *)
transfer_same_epoch(r, newHome, t) ==
    IF ~Assigned(r) THEN Effect(r, "NotAssigned")
    ELSE IF r.home = newHome THEN Effect(r, "SameHome")
    ELSE WhenDrained(r, t,
            [home |-> newHome, epoch |-> r.epoch, writes |-> {}],
            "Transferred")

transfer(r, newHome, t) ==
    IF ~Assigned(r) THEN Effect(r, "NotAssigned")
    ELSE IF r.home = newHome THEN Effect(r, "SameHome")
    ELSE WhenDrained(r, t,
            [home |-> newHome, epoch |-> r.epoch + 1, writes |-> {}],
            "Transferred")

forget(r, t) ==
    IF ~Assigned(r)
    THEN Effect(r, "AlreadyForgotten")
    ELSE WhenDrained(r, t, Unowned, "Forgotten")

begin_write(r, epoch, id, issued, expires) ==
    LET live == expire_writes(r, issued)
        lease == [id |-> id, epoch |-> epoch, expires |-> expires]
    IN  IF ~Assigned(r) THEN Effect(r, "NotAssigned")
        ELSE IF live.epoch # epoch THEN Effect(live, "EpochMismatch")
        ELSE IF expires <= issued \/ expires - issued > LeaseSecs THEN Effect(live, "InvalidLease")
        ELSE Effect([live EXCEPT !.writes = {l \in @ : l.id # id} \cup {lease}], "WriteLeased")

finish_write(r, epoch, id) ==
    IF ~Assigned(r) THEN Effect(r, "NotAssigned")
    ELSE IF \E l \in r.writes : l.id = id /\ l.epoch # epoch THEN Effect(r, "EpochMismatch")
    ELSE Effect([r EXCEPT !.writes = {l \in @ : l.id # id}], "WriteFinished")

=============================================================================
