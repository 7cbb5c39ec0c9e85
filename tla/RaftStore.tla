------------------------------ MODULE RaftStore ------------------------------
(***************************************************************************)
(* What one consensus member keeps on disk and in memory: the log and its  *)
(* markers (peryx-ha-distributed/src/raft/persistence.rs, log_store.rs)    *)
(* and the applied state with its snapshots (raft/state_machine.rs).       *)
(*                                                                         *)
(* A snapshot is taken under the state lock and written without it, so     *)
(* several may be on their way to the disk at once, out of order, while    *)
(* entries are applied; one transaction writes each, and the process may   *)
(* die between any two steps.  OpenRaft drives the store and is external:  *)
(* it appends, truncates what was never committed, applies what was, asks  *)
(* for a snapshot, installs a later one, and purges what a snapshot it was *)
(* handed covers.  Entries are their indices; a state is the number of     *)
(* entries replayed into it.                                               *)
(***************************************************************************)
EXTENDS Naturals, FiniteSets

CONSTANTS
    MaxIndex,   \* bound on log indices
    Rosters,    \* the indices that hold a membership entry
    MaxTasks,   \* bound on snapshots being stored at once
    MaxTaken,   \* bound on snapshots ever taken
    Absent

ASSUME StoreAssumption ==
    /\ MaxIndex \in Nat /\ MaxTasks \in Nat /\ MaxTaken \in Nat
    /\ Rosters \subseteq 1..MaxIndex
    /\ Absent \notin {"chosen", "stray"} /\ Absent \notin [at : Nat, publication : Nat]

VARIABLES
    committed,  \* the cluster's commit index
    log,        \* on disk: the entry at each index, Absent, "chosen" or "stray"
    purged,     \* on disk: the purge marker
    saved,      \* on disk: the snapshot record
    reserved,   \* on disk: the snapshot generation
    state,      \* the applied state
    applied,    \* last_applied
    members,    \* last_membership
    counters,   \* snapshot_generation and publications
    current,    \* the published snapshot and its rank
    durable,    \* the highest rank this process has written
    tasks,      \* snapshots taken and not yet published
    handed,     \* snapshots given to OpenRaft by this process
    named,      \* history: the snapshots ever built and handed out, numbered
    taken       \* history: how many snapshots were ever taken

disk == <<log, purged, saved, reserved>>
memory == <<state, applied, members, counters, current, durable, tasks, handed>>
vars == <<committed, disk, memory, named, taken>>

Max(S) == CHOOSE x \in S : \A y \in S : y <= x

(* The last membership entry among the first k. *)
Roster(k) == Max({0} \cup {r \in Rosters : r <= k})

(* meta and data; `id` is <<index, generation>>. *)
Snapshot(at, data, roster, id) == [at |-> at, data |-> data, roster |-> roster, id |-> id]

NoSnapshot == Snapshot(0, 0, 0, <<0, 0>>)

(* SnapshotRank: the log position decides, then the publication number. *)
Rank(at, publication) == [at |-> at, publication |-> publication]
Leq(r, s) == r.at < s.at \/ (r.at = s.at /\ r.publication <= s.publication)

Published(rank, snapshot) == [rank |-> rank, snapshot |-> snapshot]

(* Inner::load from what is on disk. *)
Load ==
    /\ state' = saved.data
    /\ applied' = saved.at
    /\ members' = saved.roster
    /\ counters' = [generation |-> reserved, publications |-> 0]
    /\ current' = Published(Rank(saved.at, 0), saved)
    /\ durable' = Absent
    /\ tasks' = {}
    /\ handed' = IF saved.at = 0 THEN {} ELSE {saved.at}

Init ==
    /\ committed = 0
    /\ log = [i \in 1..MaxIndex |-> Absent]
    /\ purged = 0
    /\ saved = NoSnapshot
    /\ reserved = 0
    /\ state = 0 /\ applied = 0 /\ members = 0
    /\ counters = [generation |-> 0, publications |-> 0]
    /\ current = Published(Rank(0, 0), NoSnapshot)
    /\ durable = Absent
    /\ tasks = {} /\ handed = {} /\ named = {} /\ taken = 0

-----------------------------------------------------------------------------
(* The log.                                                                *)

Held == {i \in 1..MaxIndex : log[i] # Absent}

(* log_state: the purge marker stands in for an empty log. *)
LastLog == IF Held = {} THEN purged ELSE Max(Held)

(* The cluster commits an entry, on this member's disk or elsewhere. *)
Commit ==
    /\ committed < MaxIndex
    /\ committed' = committed + 1
    /\ UNCHANGED <<disk, memory, named, taken>>

(* Entries follow the last, and one that is not committed may turn out to  *)
(* be a stray of a deposed leader.                                         *)
append(i, entry) ==
    /\ i = Max({LastLog, applied}) + 1
    /\ entry = "chosen" \/ i > committed
    /\ log' = [log EXCEPT ![i] = entry]
    /\ UNCHANGED <<committed, purged, saved, reserved, memory, named, taken>>

(* truncate_from: the conflicting entry and all that follow. *)
Truncate(i) ==
    /\ log[i] = "stray"
    /\ log' = [j \in 1..MaxIndex |-> IF j >= i THEN Absent ELSE log[j]]
    /\ UNCHANGED <<committed, purged, saved, reserved, memory, named, taken>>

(* purge_upto: entries and marker in one transaction.  OpenRaft purges     *)
(* what a snapshot it was handed covers.                                   *)
Purge(i) ==
    /\ i > purged /\ \E at \in handed : i <= at
    /\ log' = [j \in 1..MaxIndex |-> IF j <= i THEN Absent ELSE log[j]]
    /\ purged' = i
    /\ UNCHANGED <<committed, saved, reserved, memory, named, taken>>

-----------------------------------------------------------------------------
(* The applied state and its snapshots.                                    *)

Installing == \E t \in tasks : t.kind = "install"

(* OpenRaft's worker applies and installs in turn. *)
Apply ==
    LET i == applied + 1
    IN  /\ ~Installing
        /\ i <= committed /\ log[i] = "chosen"
        /\ state' = state + 1
        /\ applied' = i
        /\ members' = IF i \in Rosters THEN i ELSE members
        /\ UNCHANGED <<committed, disk, counters, current, durable, tasks, handed, named, taken>>

Task(kind, snapshot, rank, generation) ==
    [kind |-> kind, stage |-> "taken", snapshot |-> snapshot, rank |-> rank,
     generation |-> generation, number |-> taken + 1]

Take(task) ==
    /\ taken < MaxTaken /\ Cardinality(tasks) < MaxTasks
    /\ taken' = taken + 1
    /\ tasks' = tasks \cup {task}

(* snapshot_candidate, under the state lock. *)
Build ==
    LET g == counters.generation + 1
        p == counters.publications + 1
    IN  /\ Take(Task("build", Snapshot(applied, state, members, <<applied, g>>), Rank(applied, p), g))
        /\ counters' = [generation |-> g, publications |-> p]
        /\ UNCHANGED <<committed, disk, state, applied, members, current, durable, handed, named>>

(* install_snapshot up to the commit; the leader's snapshot is later than  *)
(* what was applied here.                                                  *)
Install(at) ==
    LET p == counters.publications + 1
    IN  /\ ~Installing
        /\ applied < at /\ at <= committed
        /\ Take(Task("install", Snapshot(at, at, Roster(at), Absent), Rank(at, p), counters.generation))
        /\ counters' = [counters EXCEPT !.publications = p]
        /\ UNCHANGED <<committed, disk, state, applied, members, current, durable, handed, named>>

(* Deliberately wrong variant: the last to finish wins. *)
superseded_never(rank) == FALSE

superseded(rank) == durable # Absent /\ Leq(rank, durable)

(* Deliberately wrong variant: the generation is left to the process. *)
save_snapshot_unreserved(t) == saved' = t.snapshot /\ UNCHANGED reserved

(* meta, data and generation in one transaction. *)
save_snapshot(t) == saved' = t.snapshot /\ reserved' = t.generation

(* commit_snapshot: one at a time, behind the `durable` lock. *)
CommitSnapshot(t) ==
    /\ t.stage = "taken"
    /\ IF superseded(t.rank)
       THEN UNCHANGED <<saved, reserved, durable>>
       ELSE save_snapshot(t) /\ durable' = t.rank
    /\ tasks' = (tasks \ {t}) \cup {[t EXCEPT !.stage = "stored"]}
    /\ UNCHANGED <<committed, log, purged, state, applied, members, counters, current, handed, named, taken>>

(* Deliberately wrong variant: the last to finish is published. *)
publish_last(t) == Published(t.rank, t.snapshot)

publish(t) == IF Leq(t.rank, current.rank) THEN current ELSE Published(t.rank, t.snapshot)

(* store_candidate after the commit: OpenRaft gets the snapshot. *)
FinishBuild(t) ==
    /\ t.kind = "build" /\ t.stage = "stored"
    /\ current' = publish(t)
    /\ handed' = handed \cup {t.snapshot.at}
    /\ named' = named \cup {[id |-> t.snapshot.id, number |-> t.number]}
    /\ tasks' = tasks \ {t}
    /\ UNCHANGED <<committed, disk, state, applied, members, counters, durable, taken>>

(* Deliberately wrong variant: the membership stays as it was. *)
FinishInstall_members(t) ==
    /\ t.kind = "install" /\ t.stage = "stored"
    /\ state' = t.snapshot.data
    /\ applied' = t.snapshot.at
    /\ current' = publish(t)
    /\ handed' = handed \cup {t.snapshot.at}
    /\ tasks' = tasks \ {t}
    /\ UNCHANGED <<committed, disk, members, counters, durable, named, taken>>

(* install_snapshot after the commit, under the state lock. *)
FinishInstall(t) ==
    /\ t.kind = "install" /\ t.stage = "stored"
    /\ state' = t.snapshot.data
    /\ applied' = t.snapshot.at
    /\ members' = t.snapshot.roster
    /\ current' = publish(t)
    /\ handed' = handed \cup {t.snapshot.at}
    /\ tasks' = tasks \ {t}
    /\ UNCHANGED <<committed, disk, counters, durable, named, taken>>

(* The process dies and is started again. *)
Restart ==
    /\ Load
    /\ UNCHANGED <<committed, disk, named, taken>>

Next ==
    \/ Commit
    \/ \E i \in 1..MaxIndex : \/ \E entry \in {"chosen", "stray"} : append(i, entry)
                              \/ Truncate(i) \/ Purge(i) \/ Install(i)
    \/ Apply \/ Build \/ Restart
    \/ \E t \in tasks : CommitSnapshot(t) \/ FinishBuild(t) \/ FinishInstall(t)

Spec == Init /\ [][Next]_vars

-----------------------------------------------------------------------------
(* Properties.                                                             *)

(* Whatever step the process dies at, every entry it ever purged is in the *)
(* snapshot it restarts from, and in the one it offers its followers, so a *)
(* snapshot that is written late never replaces one the log was cut to     *)
(* (commit_snapshot, publish); and the entries kept follow each other from *)
(* behind the marker, or from behind the applied state.                    *)
PurgedIsCovered ==
    /\ purged <= saved.at /\ purged <= current.snapshot.at
    /\ \A i \in Held : i > purged
    /\ \A i \in Held, j \in Held : i < j => i + 1 \in Held \/ i <= applied

(* The state, the membership and the position a member reports belong to   *)
(* each other, applied, saved or published, whatever was applied or        *)
(* installed between taking a snapshot and storing it.                     *)
StateIsReplay ==
    /\ state = applied /\ members = Roster(applied)
    /\ \A s \in {saved, current.snapshot} : s.data = s.at /\ s.roster = Roster(s.at)

(* Two snapshots this member builds never go out under one identifier,     *)
(* restarts included, so a follower never joins the chunks of two          *)
(* (state_machine.rs: "a replacement process never repeats an              *)
(* identifier").                                                           *)
IdsAreFresh == \A x, y \in named : x.id = y.id => x.number = y.number

(* The snapshot on disk never goes back to an earlier position. *)
NeverGoesBack == [][saved'.at >= saved.at]_vars
=============================================================================
