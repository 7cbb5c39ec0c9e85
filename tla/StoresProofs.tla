---------------------------- MODULE StoresProofs ----------------------------
(***************************************************************************)
(* Proofs about what a node stores: RaftStore, for logs of any length and  *)
(* any number of snapshots on their way to the disk, and WebhookOutbox,    *)
(* for any events, targets, failures and restarts.                         *)
(***************************************************************************)
EXTENDS RaftStore, WebhookOutbox, Integers, Sequences, FiniteSetTheorems, WellFoundedInduction, TLAPS

RankType == [at : Nat, publication : Nat]
SnapshotType == [at : Nat, data : Nat, roster : Nat, id : (Nat \X Nat) \cup {Absent}]
TaskType ==
    [kind : {"build", "install"}, stage : {"taken", "stored"}, snapshot : SnapshotType,
     rank : RankType, generation : Nat, number : Nat]

Types ==
    /\ committed \in 0..MaxIndex
    /\ log \in [1..MaxIndex -> {Absent, "chosen", "stray"}]
    /\ purged \in Nat /\ saved \in SnapshotType /\ reserved \in Nat
    /\ state \in Nat /\ applied \in Nat /\ members \in Nat
    /\ counters \in [generation : Nat, publications : Nat]
    /\ current \in [rank : RankType, snapshot : SnapshotType]
    /\ durable \in RankType \cup {Absent}
    /\ tasks \subseteq TaskType
    /\ handed \subseteq Nat
    /\ named \subseteq [id : Nat \X Nat, number : Nat]
    /\ taken \in Nat

Replays(s) == s.data = s.at /\ s.roster = Roster(s.at)

(* The ranks of what was written and published are their positions. *)
RanksOK ==
    /\ current.rank.at = current.snapshot.at
    /\ durable # Absent => durable.at = saved.at /\ durable.publication <= counters.publications
    /\ durable = Absent => saved.at <= applied

(* What a task holds, against the process it runs in. *)
TaskOK(t) ==
    /\ Replays(t.snapshot)
    /\ t.rank.at = t.snapshot.at
    /\ t.rank.publication <= counters.publications /\ t.generation <= counters.generation
    /\ t.kind = "build" => t.snapshot.id = <<t.snapshot.at, t.generation>>
    /\ t.kind = "install" => applied < t.snapshot.at
    /\ durable = Absent => saved.at <= t.snapshot.at

(* A stored task is covered by the disk, whether it was written or         *)
(* superseded, in its position and in its generation.                      *)
StoredOK(t) ==
    t.stage = "stored" =>
        /\ durable # Absent /\ Leq(t.rank, durable)
        /\ t.generation <= reserved \/ t.snapshot.at < saved.at

(* Tasks taken later have the later generations; two builds never share    *)
(* one.                                                                    *)
TasksOK ==
    /\ \A t \in tasks : TaskOK(t) /\ StoredOK(t)
    /\ \A t \in tasks : durable # Absent /\ t.rank.publication <= durable.publication => t.generation <= reserved
    /\ \A t, u \in tasks : t.rank.publication <= u.rank.publication => t.generation <= u.generation
    /\ \A t, u \in tasks : t.kind = "build" /\ u.kind = "build" /\ t.generation = u.generation => t = u
    /\ \A t, u \in tasks : t.kind = "install" /\ u.kind = "install" => t = u

(* An identifier that went out is behind, in its generation or in its      *)
(* position, what the next build takes: in this process, after a restart,  *)
(* and after a restart from any snapshot still to be written.              *)
NamedOK ==
    \A x \in named :
        /\ x.id[2] <= counters.generation \/ x.id[1] < applied
        /\ x.id[2] <= reserved \/ x.id[1] < saved.at
        /\ \A t \in tasks : \/ x.id[2] <= t.generation \/ x.id[1] < t.snapshot.at
                            \/ durable # Absent /\ Leq(t.rank, durable)
        /\ \A t \in tasks : t.kind = "build" => x.id # t.snapshot.id

(* What OpenRaft may purge is on disk and published. *)
HandedOK ==
    /\ \A at \in handed : at <= saved.at /\ at <= current.snapshot.at
    /\ purged <= saved.at /\ purged <= current.snapshot.at

(* The log: a gap, or an end of it behind the applied state, is behind the *)
(* snapshot on disk as well, and so is a stray entry the state has passed. *)
LogOK ==
    /\ \A i \in Held : i > purged
    /\ \A i, j \in Held : i < j => i + 1 \in Held \/ (i <= applied /\ i <= saved.at)
    /\ \A i \in Held : (\A j \in Held : j <= i) => applied <= i \/ i <= saved.at
    /\ \A i \in Held : log[i] = "stray" => i > applied \/ i <= saved.at

IInv ==
    /\ Types /\ RanksOK /\ TasksOK /\ NamedOK /\ HandedOK /\ LogOK
    /\ StateIsReplay /\ IdsAreFresh

-----------------------------------------------------------------------------
(* Ranks, rosters and the end of the log.                                  *)

LEMMA LeqFacts ==
    \A r, s, t \in RankType :
        /\ Leq(r, r)
        /\ Leq(r, s) \/ Leq(s, r)
        /\ Leq(r, s) /\ Leq(s, t) => Leq(r, t)
        /\ Leq(r, s) => r.at <= s.at
BY DEF Leq, RankType

LEMMA MaxIs ==
    ASSUME NEW S \in SUBSET Nat, NEW x \in S, \A y \in S : y <= x
    PROVE  Max(S) = x
<1>1. \A z \in S : (\A y \in S : y <= z) => z = x
  OBVIOUS
<1> QED
  BY <1>1, Zenon DEF Max

(* A nonempty set of indices has a last one. *)
LEMMA MaxOfIndices ==
    ASSUME NEW n \in Nat, NEW S \in SUBSET (0..n), S # {}
    PROVE  Max(S) \in S /\ \A y \in S : y <= Max(S)
<1> DEFINE T == {n - x : x \in S}
<1>1. T \in SUBSET Nat /\ T # {}
  <2>1. \A x \in S : x \in 0..n
    OBVIOUS
  <2>2. \A x \in S : n - x \in Nat
    BY <2>1
  <2> QED
    BY <2>2, Zenon
<1>2. PICK i \in T : \A j \in T : ~(<<j, i>> \in OpToRel(<, Nat))
  BY <1>1, NatLessThanWellFounded, WFMin, Zenon
<1>3. \A j \in T : ~(j < i)
  BY <1>1, <1>2, Zenon DEF OpToRel
<1>4. PICK x \in S : i = n - x
  BY <1>2, Zenon
<1>5. \A y \in S : y <= x
  <2> TAKE y \in S
  <2>1. n - y \in T
    OBVIOUS
  <2>2. ~(n - y < n - x)
    BY <1>3, <1>4, <2>1, Zenon
  <2> QED
    BY <2>2
<1>6. S \in SUBSET Nat
  OBVIOUS
<1>7. Max(S) = x
  BY <1>5, <1>6, MaxIs, Zenon
<1> QED
  BY <1>5, <1>7, Zenon

(* apply and the membership entry it meets. *)
LEMMA RosterStep ==
    /\ Roster(0) = 0
    /\ \A k \in Nat : Roster(k + 1) = IF k + 1 \in Rosters THEN k + 1 ELSE Roster(k)
<1>1. \A r \in Rosters : r \in Nat /\ r >= 1
  BY StoreAssumption
<1>2. Roster(0) = 0
  <2>1. {r \in Rosters : r <= 0} = {}
    BY <1>1
  <2>2. {0} \cup {} = {0}
    OBVIOUS
  <2>3. Max({0}) = 0
    BY MaxIs
  <2> QED
    BY <2>1, <2>2, <2>3, Zenon DEF Roster
<1>3. ASSUME NEW k \in Nat, k + 1 \in Rosters PROVE Roster(k + 1) = k + 1
  <2> DEFINE S == {0} \cup {r \in Rosters : r <= k + 1}
  <2>1. S \in SUBSET Nat /\ k + 1 \in S /\ \A y \in S : y <= k + 1
    BY <1>1, <1>3
  <2> HIDE DEF S
  <2>2. Max(S) = k + 1
    BY <2>1, MaxIs, Zenon
  <2> QED
    BY <2>2, Zenon DEF Roster, S
<1>4. ASSUME NEW k \in Nat, k + 1 \notin Rosters PROVE Roster(k + 1) = Roster(k)
  <2>1. \A r \in Rosters : r <= k + 1 <=> r <= k
    BY <1>1, <1>4
  <2>2. {r \in Rosters : r <= k + 1} = {r \in Rosters : r <= k}
    BY <2>1, Zenon
  <2> QED
    BY <2>2, Zenon DEF Roster
<1> QED
  BY <1>2, <1>3, <1>4, Zenon

LEMMA LastLogFact ==
    ASSUME Types
    PROVE  /\ LastLog \in Nat
           /\ Held = {} => LastLog = purged
           /\ Held # {} => LastLog \in Held /\ \A i \in Held : i <= LastLog
<1>1. Held \in SUBSET (0..MaxIndex) /\ MaxIndex \in Nat
  BY StoreAssumption DEF Held
<1>2. Held # {} => Max(Held) \in Held /\ \A i \in Held : i <= Max(Held)
  BY <1>1, MaxOfIndices, Zenon
<1> QED
  <2>1. \A i \in Held : i \in Nat
    BY <1>1
  <2> QED
    BY <1>2, <2>1, Zenon DEF LastLog, Types

(* The next entry goes behind the log and behind the applied state. *)
LEMMA MaxOfTwo ==
    ASSUME NEW x \in Nat, NEW y \in Nat
    PROVE  Max({x, y}) = IF x <= y THEN y ELSE x
<1>1. {x, y} \in SUBSET Nat
  OBVIOUS
<1>2. CASE x <= y
  <2>1. \A z \in {x, y} : z <= y
    BY <1>2
  <2> QED
    BY <1>1, <1>2, <2>1, MaxIs, Zenon
<1>3. CASE ~(x <= y)
  <2>1. \A z \in {x, y} : z <= x
    BY <1>3
  <2> QED
    BY <1>1, <1>3, <2>1, MaxIs, Zenon
<1> QED
  BY <1>2, <1>3, Zenon

-----------------------------------------------------------------------------
(* The invariant is inductive: the steps of the log.                       *)

LEMMA InitHolds == Init => IInv
<1> SUFFICES ASSUME Init PROVE IInv
  OBVIOUS
<1>1. NoSnapshot = [at |-> 0, data |-> 0, roster |-> 0, id |-> <<0, 0>>]
  BY Zenon DEF NoSnapshot, Snapshot
<1>2. /\ saved = [at |-> 0, data |-> 0, roster |-> 0, id |-> <<0, 0>>]
      /\ current = [rank |-> [at |-> 0, publication |-> 0],
                    snapshot |-> [at |-> 0, data |-> 0, roster |-> 0, id |-> <<0, 0>>]]
  BY <1>1, Zenon DEF Init, Published, Rank
<1>3. Types
  BY <1>2, StoreAssumption DEF Init, Types, SnapshotType, RankType
<1>4. Held = {}
  BY Zenon DEF Init, Held
<1>5. RanksOK /\ TasksOK /\ NamedOK /\ HandedOK /\ IdsAreFresh
  BY <1>2 DEF Init, RanksOK, TasksOK, NamedOK, HandedOK, IdsAreFresh
<1>6. LogOK
  BY <1>4, Zenon DEF LogOK
<1>7. StateIsReplay
  BY <1>2, RosterStep DEF Init, StateIsReplay
<1> QED
  BY <1>3, <1>5, <1>6, <1>7, Zenon DEF IInv

(* What the log's own steps leave alone. *)
LEMMA MemoryKept ==
    ASSUME IInv, UNCHANGED <<saved, reserved, memory, named, taken>>
    PROVE  /\ RanksOK' /\ TasksOK' /\ NamedOK' /\ StateIsReplay' /\ IdsAreFresh'
           /\ purged' = purged => HandedOK'
<1>1. /\ saved' = saved /\ reserved' = reserved /\ state' = state /\ applied' = applied
      /\ members' = members /\ counters' = counters /\ current' = current /\ durable' = durable
      /\ tasks' = tasks /\ handed' = handed /\ named' = named
  BY Zenon DEF memory
<1>2. RanksOK' /\ StateIsReplay' /\ IdsAreFresh' /\ (purged' = purged => HandedOK')
  BY <1>1, Zenon DEF IInv, RanksOK, HandedOK, StateIsReplay, IdsAreFresh
<1>3. TasksOK'
  BY <1>1 DEF IInv, TasksOK, TaskOK, StoredOK
<1>4. NamedOK'
  BY <1>1, Zenon DEF IInv, NamedOK
<1> QED
  BY <1>2, <1>3, <1>4, Zenon

LEMMA AppendHolds ==
    ASSUME IInv, NEW i \in 1..MaxIndex, NEW entry \in {"chosen", "stray"}, append(i, entry)
    PROVE  IInv'
<1>1. /\ log' = [log EXCEPT ![i] = entry]
      /\ UNCHANGED <<committed, purged, saved, reserved, memory, named, taken>>
  BY Zenon DEF append
<1>2. applied' = applied /\ saved' = saved /\ purged' = purged
  BY <1>1, Zenon DEF memory
<1>3. RanksOK' /\ TasksOK' /\ NamedOK' /\ StateIsReplay' /\ IdsAreFresh' /\ HandedOK'
  BY <1>1, MemoryKept, Zenon
<1>4. Types'
  BY <1>1, Zenon DEF IInv, Types, memory
<1>5. /\ LastLog \in Nat /\ (Held = {} => LastLog = purged)
      /\ (Held # {} => LastLog \in Held /\ \A k \in Held : k <= LastLog)
      /\ applied \in Nat /\ purged \in Nat /\ saved.at \in Nat
  BY LastLogFact, SMTT(30) DEF IInv, Types, SnapshotType
<1>6. i = (IF LastLog <= applied THEN applied ELSE LastLog) + 1
  BY <1>5, MaxOfTwo, Zenon DEF append
<1>7. i > applied /\ i > LastLog /\ (i = applied + 1 \/ i = LastLog + 1)
  BY <1>5, <1>6
<1>8. entry # Absent
  BY StoreAssumption, Zenon
<1>9. Held' = Held \cup {i} /\ (\A k \in Held : k # i /\ log'[k] = log[k]) /\ \A k \in Held : k \in Nat
  <2>1. \A k \in Held : k \in 1..MaxIndex /\ k <= LastLog
    BY <1>5, Zenon DEF Held
  <2>2. \A k \in Held : k \in Nat /\ k # i
    BY <1>5, <1>7, <2>1
  <2>3. \A k \in 1..MaxIndex : log'[k] = IF k = i THEN entry ELSE log[k]
    BY <1>1, Zenon DEF IInv, Types
  <2>4. Held' = Held \cup {i}
    BY <1>8, <2>3, Zenon DEF Held
  <2> QED
    BY <2>1, <2>2, <2>3, <2>4, Zenon
<1>10. LogOK'
  <2>1. \A k \in Held' : k > purged
    <3>1. i > purged
      BY <1>5, <1>7 DEF IInv, LogOK
    <3> QED
      BY <1>9, <3>1, Zenon DEF IInv, LogOK
  <2>2. ASSUME NEW k \in Held', NEW j \in Held', k < j, k + 1 \notin Held'
        PROVE  k <= applied /\ k <= saved.at
    <3>1. k \in Held /\ k + 1 \notin Held
      BY <1>5, <1>7, <1>9, <2>2
    <3>2. CASE k = LastLog
      <4>1. i # LastLog + 1
        BY <1>9, <2>2, <3>2, Zenon
      <4>2. LastLog < applied
        BY <1>5, <1>7, <4>1
      <4>3. LastLog <= saved.at
        BY <1>5, <3>1, <4>2 DEF IInv, LogOK
      <4> QED
        BY <1>5, <3>2, <4>2, <4>3
    <3>3. CASE k # LastLog
      <4>1. LastLog \in Held /\ k < LastLog
        BY <1>5, <1>9, <3>1, <3>3
      <4> QED
        BY <3>1, <4>1, Zenon DEF IInv, LogOK
    <3> QED
      BY <3>2, <3>3, Zenon
  <2>3. \A k \in Held' : (\A j \in Held' : j <= k) => applied <= k
    <3> SUFFICES ASSUME NEW k \in Held', i <= k PROVE applied <= k
      BY <1>9, Zenon
    <3> QED
      BY <1>5, <1>7, <1>9
  <2>4. \A k \in Held' : log'[k] = "stray" => k > applied \/ k <= saved.at
    BY <1>7, <1>9, Zenon DEF IInv, LogOK
  <2> QED
    BY <1>2, <2>1, <2>2, <2>3, <2>4, Zenon DEF LogOK
<1> QED
  BY <1>3, <1>4, <1>10, Zenon DEF IInv

(* The log keeps its beginning. *)
LEMMA TruncateHolds ==
    ASSUME IInv, NEW i \in 1..MaxIndex, Truncate(i)
    PROVE  IInv'
<1>1. /\ log' = [j \in 1..MaxIndex |-> IF j >= i THEN Absent ELSE log[j]] /\ log[i] = "stray"
      /\ UNCHANGED <<committed, purged, saved, reserved, memory, named, taken>>
  BY Zenon DEF Truncate
<1>2. applied' = applied /\ saved' = saved /\ purged' = purged
  BY <1>1, Zenon DEF memory
<1>3. RanksOK' /\ TasksOK' /\ NamedOK' /\ StateIsReplay' /\ IdsAreFresh' /\ HandedOK'
  BY <1>1, MemoryKept, Zenon
<1>4. Types'
  BY <1>1, Zenon DEF IInv, Types, memory
<1>5. applied \in Nat /\ saved.at \in Nat /\ \A k \in Held : k \in Nat
  BY DEF IInv, Types, SnapshotType, Held
<1>6. \A k \in Nat : k \in Held' <=> k \in Held /\ k < i
  BY <1>1 DEF Held
<1>7. \A k \in Held' : k \in Held /\ k < i /\ k \in Nat /\ log'[k] = log[k]
  BY <1>1 DEF Held
<1>8. i \in Held /\ i \in Nat
  BY <1>1, StoreAssumption DEF Held
<1>9. LogOK'
  <2>1. \A k \in Held' : k > purged
    BY <1>7, Zenon DEF IInv, LogOK
  <2>2. ASSUME NEW k \in Held', NEW j \in Held', k < j, k + 1 \notin Held'
        PROVE  k <= applied /\ k <= saved.at
    <3>1. k \in Held /\ j \in Held /\ k \in Nat /\ j \in Nat /\ k + 1 < i
      BY <1>7, <1>8, <2>2
    <3>2. k + 1 \notin Held
      BY <1>6, <2>2, <3>1
    <3> QED
      BY <2>2, <3>1, <3>2, Zenon DEF IInv, LogOK
  <2>3. ASSUME NEW k \in Held', \A j \in Held' : j <= k
        PROVE  applied <= k \/ k <= saved.at
    <3>1. k \in Held /\ k < i /\ k \in Nat
      BY <1>7, Zenon
    <3>2. CASE k + 1 \in Held
      <4>1. k + 1 = i
        <5>1. ~(k + 1 < i)
          BY <1>6, <2>3, <3>1, <3>2
        <5> QED
          BY <1>8, <3>1, <5>1
      <4>2. i > applied \/ i <= saved.at
        BY <1>1, <1>8, Zenon DEF IInv, LogOK
      <4> QED
        BY <1>5, <3>1, <4>1, <4>2
    <3>3. CASE k + 1 \notin Held
      BY <1>8, <3>1, <3>3, Zenon DEF IInv, LogOK
    <3> QED
      BY <3>2, <3>3, Zenon
  <2>4. \A k \in Held' : log'[k] = "stray" => k > applied \/ k <= saved.at
    BY <1>7, Zenon DEF IInv, LogOK
  <2> QED
    BY <1>2, <2>1, <2>2, <2>3, <2>4, Zenon DEF LogOK
<1> QED
  BY <1>3, <1>4, <1>9, Zenon DEF IInv

LEMMA PurgeHolds ==
    ASSUME IInv, NEW i \in 1..MaxIndex, Purge(i)
    PROVE  IInv'
<1>1. /\ log' = [j \in 1..MaxIndex |-> IF j <= i THEN Absent ELSE log[j]] /\ purged' = i /\ i > purged
      /\ UNCHANGED <<committed, saved, reserved, memory, named, taken>>
  BY Zenon DEF Purge
<1>2. applied' = applied /\ saved' = saved /\ current' = current /\ handed' = handed
  BY <1>1, Zenon DEF memory
<1>3. RanksOK' /\ TasksOK' /\ NamedOK' /\ StateIsReplay' /\ IdsAreFresh'
  BY <1>1, MemoryKept, Zenon
<1>4. Types'
  BY <1>1 DEF IInv, Types, memory
<1>5. HandedOK'
  <2>1. PICK at \in handed : i <= at
    BY Zenon DEF Purge
  <2>2. /\ at \in Nat /\ saved.at \in Nat /\ current.snapshot.at \in Nat
        /\ at <= saved.at /\ at <= current.snapshot.at
    BY Zenon DEF IInv, Types, HandedOK, SnapshotType
  <2>3. i <= saved.at /\ i <= current.snapshot.at
    BY <2>1, <2>2
  <2> QED
    BY <1>1, <1>2, <2>3, Zenon DEF IInv, HandedOK
<1>6. \A k \in Held' : k \in Held /\ k > i /\ k \in Nat /\ log'[k] = log[k]
  BY <1>1 DEF Held
<1>7. \A k \in Held : k > i => k \in Held'
  BY <1>1 DEF Held
<1>8. LogOK'
  <2>1. \A k \in Held' : k > purged'
    BY <1>1, <1>6, Zenon
  <2>2. ASSUME NEW k \in Held', NEW j \in Held', k < j, k + 1 \notin Held'
        PROVE  k <= applied /\ k <= saved.at
    <3>1. k \in Held /\ j \in Held /\ k + 1 > i
      BY <1>6
    <3>2. k + 1 \notin Held
      BY <1>7, <2>2, <3>1, Zenon
    <3> QED
      BY <2>2, <3>1, <3>2, Zenon DEF IInv, LogOK
  <2>3. ASSUME NEW k \in Held', \A j \in Held' : j <= k
        PROVE  applied <= k \/ k <= saved.at
    <3>1. \A j \in Held : j \in Nat
      BY DEF Held
    <3>2. \A j \in Held : j <= k
      BY <1>6, <1>7, <2>3, <3>1
    <3> QED
      BY <1>6, <3>2, Zenon DEF IInv, LogOK
  <2>4. \A k \in Held' : log'[k] = "stray" => k > applied \/ k <= saved.at
    BY <1>6, Zenon DEF IInv, LogOK
  <2> QED
    BY <1>2, <2>1, <2>2, <2>3, <2>4, Zenon DEF LogOK
<1> QED
  BY <1>3, <1>4, <1>5, <1>8, Zenon DEF IInv

LEMMA CommitHolds ==
    ASSUME IInv, Commit
    PROVE  IInv'
<1>1. committed' \in 0..MaxIndex /\ UNCHANGED <<disk, memory, named, taken>>
  BY StoreAssumption DEF Commit, IInv, Types
<1>2. UNCHANGED <<log, purged, saved, reserved, memory, named, taken, applied>>
  BY <1>1, Zenon DEF disk, memory
<1>3. Types'
  BY <1>1, Zenon DEF IInv, Types, disk, memory
<1>4. LogOK'
  BY <1>2, Zenon DEF IInv, LogOK, Held
<1> QED
  BY <1>2, <1>3, <1>4, MemoryKept, Zenon DEF IInv

-----------------------------------------------------------------------------
(* The applied state and the snapshots.                                    *)

LEMMA ApplyHolds ==
    ASSUME IInv, Apply
    PROVE  IInv'
<1> DEFINE i == applied + 1
<1>1. /\ ~Installing /\ i <= committed /\ log[i] = "chosen" /\ state' = state + 1 /\ applied' = i
      /\ members' = IF i \in Rosters THEN i ELSE members
      /\ UNCHANGED <<committed, disk, counters, current, durable, tasks, handed, named, taken>>
  BY Zenon DEF Apply
<1>2. /\ applied \in Nat /\ state \in Nat /\ members \in Nat /\ i \in 1..MaxIndex /\ i \in Held /\ i \in Nat
      /\ saved.at \in Nat
  BY <1>1, StoreAssumption DEF IInv, Types, Held, SnapshotType
<1>3. saved' = saved /\ reserved' = reserved /\ log' = log /\ purged' = purged /\ Held' = Held
  BY <1>1, Zenon DEF disk, Held
<1>4. Types'
  BY <1>1, <1>2, <1>3 DEF IInv, Types
<1>5. RanksOK' /\ HandedOK' /\ IdsAreFresh'
  BY <1>1, <1>2, <1>3 DEF IInv, RanksOK, HandedOK, IdsAreFresh
<1>6. TasksOK'
  <2>1. \A t \in tasks : t.kind # "install"
    BY <1>1, Zenon DEF Installing
  <2>2. \A t \in tasks : TaskOK(t)'
    BY <1>1, <1>3, <2>1, Zenon DEF IInv, TasksOK, TaskOK
  <2>3. \A t \in tasks : StoredOK(t)'
    BY <1>1, <1>3, Zenon DEF IInv, TasksOK, StoredOK
  <2> QED
    BY <1>1, <1>3, <2>2, <2>3, Zenon DEF IInv, TasksOK
<1>7. NamedOK'
  <2>1. \A x \in named : x.id[1] \in Nat
    BY Zenon DEF IInv, Types
  <2>2. \A x \in named : x.id[1] < applied => x.id[1] < i
    BY <1>2, <2>1
  <2> QED
    BY <1>1, <1>3, <2>2, Zenon DEF IInv, NamedOK
<1>8. LogOK'
  <2>1. \A k \in Held : k \in Nat
    BY DEF Held
  <2>2. \A k \in Held : (\A j \in Held : j <= k) => i <= k
    BY <1>2, Zenon
  <2>3. \A k \in Held : log[k] = "stray" => k > i \/ k <= saved.at
    BY <1>1, <1>2, <2>1 DEF IInv, LogOK
  <2>4. ASSUME NEW k \in Held, NEW j \in Held, k < j, k + 1 \notin Held
        PROVE  k <= i /\ k <= saved.at
    BY <1>2, <2>1, <2>4 DEF IInv, LogOK
  <2>5. \A k \in Held : k > purged
    BY Zenon DEF IInv, LogOK
  <2> QED
    BY <1>1, <1>3, <2>2, <2>3, <2>4, <2>5, Zenon DEF LogOK
<1>9. StateIsReplay'
  <2>1. Roster(i) = IF i \in Rosters THEN i ELSE Roster(applied)
    BY <1>2, RosterStep, Zenon
  <2> QED
    BY <1>1, <1>3, <2>1, Zenon DEF IInv, StateIsReplay
<1> QED
  BY <1>4, <1>5, <1>6, <1>7, <1>8, <1>9, Zenon DEF IInv

(* A new task has the last publication number, and none of the earlier     *)
(* ones' generations if it is a build.                                     *)
LEMMA TakeHolds ==
    ASSUME IInv, NEW t \in TaskType, Take(t),
           counters' \in [generation : Nat, publications : Nat],
           counters'.publications = counters.publications + 1,
           counters'.generation >= counters.generation,
           t.stage = "taken", Replays(t.snapshot), t.rank.at = t.snapshot.at,
           t.rank.publication = counters'.publications, t.generation = counters'.generation,
           applied <= t.snapshot.at,
           t.kind = "build" => /\ t.snapshot.id = <<t.snapshot.at, t.generation>>
                               /\ t.generation = counters.generation + 1,
           t.kind = "install" => applied < t.snapshot.at /\ ~Installing,
           UNCHANGED <<committed, disk, state, applied, members, current, durable, handed, named>>
    PROVE  IInv'
<1>1. /\ saved' = saved /\ reserved' = reserved /\ log' = log /\ purged' = purged /\ Held' = Held
      /\ tasks' = tasks \cup {t} /\ taken' = taken + 1
  BY Zenon DEF disk, Held, Take
<1>2. /\ counters \in [generation : Nat, publications : Nat] /\ applied \in Nat /\ saved.at \in Nat
      /\ tasks \subseteq TaskType /\ durable \in RankType \cup {Absent} /\ reserved \in Nat
  BY Zenon DEF IInv, Types, SnapshotType
<1>3. Types'
  BY <1>1, SMTT(30) DEF IInv, Types
<1>4. RanksOK' /\ HandedOK' /\ IdsAreFresh' /\ StateIsReplay' /\ LogOK'
  <2>1. HandedOK' /\ IdsAreFresh' /\ StateIsReplay' /\ LogOK'
    BY <1>1, SMTT(30), Zenon DEF IInv, HandedOK, IdsAreFresh, StateIsReplay, LogOK
  <2>2. RanksOK'
    BY <1>1, <1>2, SMTT(60), Zenon DEF IInv, RanksOK, RankType
  <2> QED
    BY <2>1, <2>2, SMTT(30), Zenon
<1>5. ASSUME NEW u \in tasks
      PROVE  /\ u.rank.publication <= counters.publications /\ u.generation <= counters.generation
             /\ u.rank.publication \in Nat /\ u.generation \in Nat
  BY <1>2 DEF IInv, TasksOK, TaskOK, TaskType, RankType
<1>6. TasksOK'
  <2>1. ASSUME NEW u \in tasks PROVE TaskOK(u)' /\ StoredOK(u)'
    <3>1. TaskOK(u)'
      BY <1>1, <1>2, <1>5, SMTT(60), Zenon DEF IInv, TasksOK, TaskOK
    <3>2. StoredOK(u)'
      BY <1>1, Zenon DEF IInv, TasksOK, StoredOK
    <3> QED
      BY <3>1, <3>2, ZenonT(60)
  <2>2. TaskOK(t)' /\ StoredOK(t)'
    <3>1. durable = Absent => saved.at <= t.snapshot.at
      BY <1>2, SMTT(30), Zenon DEF IInv, RanksOK, TaskType, SnapshotType
    <3> QED
      BY <1>1, <1>2, <3>1 DEF TaskOK, StoredOK, TaskType, RankType, Replays
  <2>3. \A u \in tasks' : durable' # Absent /\ u.rank.publication <= durable'.publication => u.generation <= reserved'
    <3>1. durable # Absent => durable.publication <= counters.publications /\ durable.publication \in Nat
      BY <1>2, Zenon DEF IInv, RanksOK, RankType
    <3>2. durable # Absent => ~(t.rank.publication <= durable.publication)
      BY <1>2, <3>1
    <3> QED
      BY <1>1, <3>2, SMTT(30), Zenon DEF IInv, TasksOK
  <2>4. \A u, v \in tasks' : u.rank.publication <= v.rank.publication => u.generation <= v.generation
    <3>1. \A u, v \in tasks : u.rank.publication <= v.rank.publication => u.generation <= v.generation
      BY SMTT(30), Zenon DEF IInv, TasksOK
    <3>2. \A u \in tasks : u.generation <= t.generation /\ ~(t.rank.publication <= u.rank.publication)
      BY <1>2, <1>5
    <3>3. t.generation <= t.generation
      BY <1>2
    <3> QED
      BY <1>1, <3>1, <3>2, <3>3, Zenon
  <2>5. \A u, v \in tasks' : u.kind = "build" /\ v.kind = "build" /\ u.generation = v.generation => u = v
    <3>1. t.kind = "build" => \A u \in tasks : u.generation # t.generation
      BY <1>2, <1>5
    <3> QED
      BY <1>1, <3>1 DEF IInv, TasksOK
  <2>6. \A u, v \in tasks' : u.kind = "install" /\ v.kind = "install" => u = v
    BY <1>1, SMTT(30), Zenon DEF IInv, TasksOK, Installing
  <2> QED
    BY <1>1, <2>1, <2>2, <2>3, <2>4, <2>5, <2>6, ZenonT(60), Zenon DEF TasksOK
<1>7. NamedOK'
  <2> SUFFICES ASSUME NEW x \in named
               PROVE  /\ x.id[2] <= counters'.generation \/ x.id[1] < applied
                      /\ x.id[2] <= reserved \/ x.id[1] < saved.at
                      /\ \A u \in tasks' : \/ x.id[2] <= u.generation \/ x.id[1] < u.snapshot.at
                                           \/ durable # Absent /\ Leq(u.rank, durable)
                      /\ \A u \in tasks' : u.kind = "build" => x.id # u.snapshot.id
    BY <1>1 DEF NamedOK
  <2>1. x.id \in Nat \X Nat /\ x.id[1] \in Nat /\ x.id[2] \in Nat
    BY Zenon DEF IInv, Types
  <2>2. x.id[2] <= counters.generation \/ x.id[1] < applied
    BY Zenon DEF IInv, NamedOK
  <2>3. t.snapshot.at \in Nat
    BY Zenon DEF TaskType, SnapshotType
  <2>4. x.id[2] <= t.generation \/ x.id[1] < t.snapshot.at
    BY <1>2, <2>1, <2>2, <2>3
  <2>5. t.kind = "build" => x.id # t.snapshot.id
    <3>1. t.kind = "build" => x.id[2] # t.generation \/ x.id[1] # t.snapshot.at
      BY <1>2, <2>1, <2>2, <2>3
    <3> QED
      BY <3>1
  <2>6. x.id[2] <= counters'.generation \/ x.id[1] < applied
    BY <1>2, <2>1, <2>2
  <2> QED
    BY <1>1, <2>4, <2>5, <2>6, Zenon DEF IInv, NamedOK
<1> QED
  BY <1>3, <1>4, <1>6, <1>7, Zenon DEF IInv

LEMMA BuildHolds ==
    ASSUME IInv, Build
    PROVE  IInv'
<1> DEFINE g == counters.generation + 1
           p == counters.publications + 1
           t == Task("build", Snapshot(applied, state, members, <<applied, g>>), Rank(applied, p), g)
<1>1. /\ Take(t) /\ counters' = [generation |-> g, publications |-> p]
      /\ UNCHANGED <<committed, disk, state, applied, members, current, durable, handed, named>>
  BY Zenon DEF Build
<1>2. /\ counters \in [generation : Nat, publications : Nat] /\ g \in Nat /\ p \in Nat
      /\ applied \in Nat /\ state \in Nat /\ members \in Nat /\ taken + 1 \in Nat
  BY DEF IInv, Types
<1>3. /\ t.kind = "build" /\ t.stage = "taken" /\ t.snapshot.at = applied /\ t.snapshot.data = state
      /\ t.snapshot.roster = members /\ t.snapshot.id = <<applied, g>> /\ t.rank.at = applied
      /\ t.rank.publication = p /\ t.generation = g
  BY Zenon DEF Task, Snapshot, Rank
<1>4. t \in TaskType
  <2>1. Snapshot(applied, state, members, <<applied, g>>) \in SnapshotType
    BY <1>2, Zenon DEF Snapshot, SnapshotType
  <2>2. Rank(applied, p) \in RankType
    BY <1>2, SMTT(30), Zenon DEF Rank, RankType
  <2> QED
    BY <1>2, <2>1, <2>2, Zenon DEF Task, TaskType
<1>5. Replays(t.snapshot)
  BY <1>3, Zenon DEF Replays, IInv, StateIsReplay
<1> HIDE DEF t
<1>6. /\ counters' \in [generation : Nat, publications : Nat] /\ counters'.generation = g
      /\ counters'.publications = p /\ counters'.generation >= counters.generation
      /\ applied <= t.snapshot.at
  BY <1>1, <1>2, <1>3
<1> QED
  BY <1>1, <1>3, <1>4, <1>5, <1>6, TakeHolds, Zenon

LEMMA InstallHolds ==
    ASSUME IInv, NEW at \in 1..MaxIndex, Install(at)
    PROVE  IInv'
<1> DEFINE p == counters.publications + 1
           t == Task("install", Snapshot(at, at, Roster(at), Absent), Rank(at, p), counters.generation)
<1>1. /\ Take(t) /\ counters' = [counters EXCEPT !.publications = p] /\ ~Installing /\ applied < at
      /\ UNCHANGED <<committed, disk, state, applied, members, current, durable, handed, named>>
  BY Zenon DEF Install
<1>2. /\ counters \in [generation : Nat, publications : Nat] /\ p \in Nat
      /\ applied \in Nat /\ at \in Nat /\ taken + 1 \in Nat
  BY DEF IInv, Types
<1>3. /\ t.kind = "install" /\ t.stage = "taken" /\ t.snapshot.at = at /\ t.snapshot.data = at
      /\ t.snapshot.roster = Roster(at) /\ t.rank.at = at /\ t.rank.publication = p
      /\ t.generation = counters.generation
  BY Zenon DEF Task, Snapshot, Rank
<1>4. t \in TaskType
  <2>1. Roster(at) \in Nat
    <3> DEFINE S == {0} \cup {r \in Rosters : r <= at}
    <3>1. S \in SUBSET (0..at) /\ S # {}
      <4>1. \A r \in Rosters : r \in Nat
        BY StoreAssumption
      <4>2. \A r \in S : r \in 0..at
        BY <1>2, <4>1
      <4> QED
        BY <4>2, Zenon
    <3> HIDE DEF S
    <3>2. Max(S) \in S
      BY <1>2, <3>1, MaxOfIndices, Zenon
    <3>3. Roster(at) \in 0..at
      BY <3>1, <3>2, Zenon DEF Roster, S
    <3> QED
      BY <3>3
  <2>2. Snapshot(at, at, Roster(at), Absent) \in SnapshotType
    BY <1>2, <2>1, Zenon DEF Snapshot, SnapshotType
  <2>3. Rank(at, p) \in RankType
    BY <1>2, SMTT(30), Zenon DEF Rank, RankType
  <2> QED
    BY <1>2, <2>2, <2>3, Zenon DEF Task, TaskType
<1>5. Replays(t.snapshot)
  BY <1>3, Zenon DEF Replays
<1> HIDE DEF t
<1>6. /\ counters' \in [generation : Nat, publications : Nat] /\ counters'.generation = counters.generation
      /\ counters'.publications = p /\ counters'.generation >= counters.generation
      /\ applied <= t.snapshot.at
  BY <1>1, <1>2, <1>3, SMTT(30), Zenon
<1> QED
  BY <1>1, <1>3, <1>4, <1>5, <1>6, TakeHolds, Zenon

(* commit_snapshot: what is not written is covered by what was, and what   *)
(* is written is ahead of everything written or named before it.           *)
LEMMA CommitSnapshotHolds ==
    ASSUME IInv, NEW t \in tasks, CommitSnapshot(t)
    PROVE  IInv' /\ saved'.at >= saved.at
<1> DEFINE n == [t EXCEPT !.stage = "stored"]
<1>1. /\ t.stage = "taken" /\ tasks' = (tasks \ {t}) \cup {n}
      /\ UNCHANGED <<committed, log, purged, state, applied, members, counters, current, handed, named, taken>>
  BY Zenon DEF CommitSnapshot
<1>2. /\ t \in TaskType /\ t.rank \in RankType /\ t.snapshot \in SnapshotType /\ t.generation \in Nat
      /\ t.snapshot.at \in Nat /\ t.rank.publication \in Nat
      /\ tasks \subseteq TaskType /\ durable \in RankType \cup {Absent} /\ reserved \in Nat
      /\ saved \in SnapshotType /\ saved.at \in Nat /\ applied \in Nat
  BY ZenonT(60) DEF IInv, Types, TaskType, SnapshotType, RankType
<1>3. /\ n \in TaskType /\ n.kind = t.kind /\ n.stage = "stored" /\ n.snapshot = t.snapshot
      /\ n.rank = t.rank /\ n.generation = t.generation
  BY <1>2, Zenon DEF TaskType
<1> HIDE DEF n
<1>4. TaskOK(t) /\ t.rank.at = t.snapshot.at /\ t.rank.publication <= counters.publications
  BY Zenon DEF IInv, TasksOK, TaskOK
<1>5. ASSUME NEW u \in tasks
      PROVE  /\ u \in TaskType /\ u.rank \in RankType /\ u.generation \in Nat /\ u.snapshot.at \in Nat
             /\ u.rank.publication \in Nat /\ u.rank.at = u.snapshot.at
             /\ (u.rank.publication <= t.rank.publication => u.generation <= t.generation)
  BY <1>2 DEF IInv, TasksOK, TaskOK, TaskType, RankType, SnapshotType
(* The disk afterwards. *)
<1>6. /\ durable' \in RankType /\ durable' # Absent /\ durable'.at = saved'.at
      /\ durable'.publication <= counters.publications
      /\ Leq(t.rank, durable') /\ (durable # Absent => Leq(durable, durable'))
      /\ saved' \in SnapshotType /\ saved'.at \in Nat /\ reserved' \in Nat
      /\ saved'.at >= saved.at
      /\ saved'.data = saved'.at /\ saved'.roster = Roster(saved'.at)
      /\ \A u \in tasks : u.rank.publication <= durable'.publication => u.generation <= reserved'
      /\ (saved' = saved /\ reserved' = reserved /\ durable' = durable)
           \/ (~superseded(t.rank) /\ saved' = t.snapshot /\ reserved' = t.generation /\ durable' = t.rank)
  <2>1. CASE superseded(t.rank)
    <3>1. saved' = saved /\ reserved' = reserved /\ durable' = durable /\ durable # Absent /\ Leq(t.rank, durable)
      BY <2>1, Zenon DEF CommitSnapshot, superseded
    <3>2. durable \in RankType /\ durable.at = saved.at /\ durable.publication <= counters.publications
      BY <1>2, <3>1, Zenon DEF IInv, RanksOK
    <3>3. Leq(durable, durable)
      BY <3>2, LeqFacts, Zenon
    <3>4. saved.data = saved.at /\ saved.roster = Roster(saved.at)
      BY Zenon DEF IInv, StateIsReplay
    <3>5. \A u \in tasks : u.rank.publication <= durable.publication => u.generation <= reserved
      BY <3>1, SMTT(30), Zenon DEF IInv, TasksOK
    <3> QED
      BY <1>2, <3>1, <3>2, <3>3, <3>4, <3>5
  <2>2. CASE ~superseded(t.rank)
    <3>1. saved' = t.snapshot /\ reserved' = t.generation /\ durable' = t.rank
      BY <2>2, Zenon DEF CommitSnapshot, save_snapshot
    <3>2. t.rank # Absent
      BY <1>2, StoreAssumption, Zenon DEF RankType
    <3>3. durable # Absent => Leq(durable, t.rank) /\ durable.at <= t.rank.at
      BY <1>2, <2>2, LeqFacts, Zenon DEF superseded
    <3>4. saved.at <= t.snapshot.at
      <4>1. CASE durable = Absent
        BY <1>4, <4>1, Zenon DEF TaskOK
      <4>2. CASE durable # Absent
        BY <1>4, <3>3, <4>2, Zenon DEF IInv, RanksOK
      <4> QED
        BY <4>1, <4>2, Zenon
    <3>5. Leq(t.rank, t.rank)
      BY <1>2, LeqFacts, Zenon
    <3>6. t.snapshot.data = t.snapshot.at /\ t.snapshot.roster = Roster(t.snapshot.at)
      BY <1>4, Zenon DEF TaskOK, Replays
    <3>7. \A u \in tasks : u.rank.publication <= t.rank.publication => u.generation <= t.generation
      BY <1>5, Zenon
    <3>8. t.snapshot.at >= saved.at
      BY <1>2, <3>4, SMTT(30)
    <3> QED
      BY <1>2, <1>4, <2>2, <3>1, <3>2, <3>3, <3>5, <3>6, <3>7, <3>8, Zenon
  <2> QED
    BY <2>1, <2>2, Zenon
<1>7. Types'
  BY <1>1, <1>3, <1>6, SMTT(30), Zenon DEF IInv, Types
<1>8. RanksOK' /\ StateIsReplay' /\ IdsAreFresh'
  BY <1>1, <1>6, ZenonT(60), Zenon DEF IInv, RanksOK, StateIsReplay, IdsAreFresh
<1>9. ASSUME NEW u \in tasks, durable # Absent, Leq(u.rank, durable)
      PROVE  Leq(u.rank, durable')
  BY <1>2, <1>5, <1>6, <1>9, LeqFacts
<1>10. ASSUME NEW u \in tasks, Leq(u.rank, durable')
       PROVE  u.generation <= reserved' \/ u.snapshot.at < saved'.at
  BY <1>5, <1>6, <1>10, SMTT(30) DEF Leq, RankType
<1>11. TasksOK'
  <2>1. ASSUME NEW u \in tasks PROVE TaskOK(u)'
    BY <1>1, <1>6, ZenonT(60) DEF IInv, TasksOK, TaskOK
  <2>2. ASSUME NEW u \in tasks PROVE StoredOK(u)'
    BY <1>6, <1>9, <1>10, SMTT(30) DEF IInv, TasksOK, StoredOK
  <2>3. TaskOK(n)'
    BY <1>1, <1>3, <1>6, <2>1, SMTT(30) DEF TaskOK
  <2>4. StoredOK(n)'
    BY <1>3, <1>6, <1>10, ZenonT(60), Zenon DEF StoredOK
  <2>5. \A u \in tasks' : u.rank.publication <= durable'.publication => u.generation <= reserved'
    BY <1>1, <1>3, <1>6, Zenon
  <2>6. \A u, v \in tasks' : u.rank.publication <= v.rank.publication => u.generation <= v.generation
    <3>1. \A u, v \in tasks : u.rank.publication <= v.rank.publication => u.generation <= v.generation
      BY Zenon DEF IInv, TasksOK
    <3> QED
      BY <1>1, <1>3, <3>1
  <2>7. \A u, v \in tasks' : u.kind = "build" /\ v.kind = "build" /\ u.generation = v.generation => u = v
    <3>1. \A u, v \in tasks : u.kind = "build" /\ v.kind = "build" /\ u.generation = v.generation => u = v
      BY Zenon DEF IInv, TasksOK
    <3> QED
      BY <1>1, <1>3, <3>1
  <2>8. \A u, v \in tasks' : u.kind = "install" /\ v.kind = "install" => u = v
    <3>1. \A u, v \in tasks : u.kind = "install" /\ v.kind = "install" => u = v
      BY SMTT(30), Zenon DEF IInv, TasksOK
    <3> QED
      BY <1>1, <1>3, <3>1
  <2> QED
    BY <1>1, <2>1, <2>2, <2>3, <2>4, <2>5, <2>6, <2>7, <2>8, SMTT(30) DEF TasksOK
<1>12. NamedOK'
  <2> SUFFICES ASSUME NEW x \in named
               PROVE  /\ x.id[2] <= counters.generation \/ x.id[1] < applied
                      /\ x.id[2] <= reserved' \/ x.id[1] < saved'.at
                      /\ \A u \in tasks' : \/ x.id[2] <= u.generation \/ x.id[1] < u.snapshot.at
                                           \/ durable' # Absent /\ Leq(u.rank, durable')
                      /\ \A u \in tasks' : u.kind = "build" => x.id # u.snapshot.id
    BY <1>1, Zenon DEF NamedOK
  <2>1. /\ x.id[2] <= counters.generation \/ x.id[1] < applied
        /\ x.id[2] <= reserved \/ x.id[1] < saved.at
        /\ \A u \in tasks : \/ x.id[2] <= u.generation \/ x.id[1] < u.snapshot.at
                            \/ durable # Absent /\ Leq(u.rank, durable)
        /\ \A u \in tasks : u.kind = "build" => x.id # u.snapshot.id
    BY DEF IInv, NamedOK
  <2>2. x.id[2] <= reserved' \/ x.id[1] < saved'.at
    BY <1>6, <2>1, SMTT(30) DEF superseded
  <2>3. \A u \in tasks : \/ x.id[2] <= u.generation \/ x.id[1] < u.snapshot.at
                         \/ durable' # Absent /\ Leq(u.rank, durable')
    BY <1>6, <1>9, <2>1, SMTT(30)
  <2> QED
    BY <1>1, <1>3, <2>1, <2>2, <2>3, SMTT(30)
<1>13. HandedOK'
  <2>1. \A at \in handed : at \in Nat /\ at <= saved.at
    BY SMTT(30), Zenon DEF IInv, Types, HandedOK
  <2>2. \A at \in handed : at <= saved'.at
    BY <1>2, <1>6, <2>1
  <2>3. purged <= saved'.at
    BY <1>2, <1>6 DEF IInv, Types, HandedOK
  <2> QED
    BY <1>1, <2>2, <2>3 DEF IInv, HandedOK
<1>14. LogOK'
  <2>1. Held' = Held /\ (\A k \in Held : k \in Nat /\ (k <= saved.at => k <= saved'.at))
    BY <1>1, <1>2, <1>6 DEF Held
  <2>2. \A i, j \in Held : i < j => i + 1 \in Held \/ (i <= applied /\ i <= saved'.at)
    BY <2>1 DEF IInv, LogOK
  <2>3. \A i \in Held : (\A j \in Held : j <= i) => applied <= i \/ i <= saved'.at
    BY <2>1, Zenon DEF IInv, LogOK
  <2>4. \A i \in Held : log[i] = "stray" => i > applied \/ i <= saved'.at
    BY <2>1 DEF IInv, LogOK
  <2>5. \A i \in Held : i > purged
    BY SMTT(30), Zenon DEF IInv, LogOK
  <2> QED
    BY <1>1, <2>1, <2>2, <2>3, <2>4, <2>5, SMTT(30), Zenon DEF LogOK
<1> QED
  BY <1>6, <1>7, <1>8, <1>11, <1>12, <1>13, <1>14, Zenon DEF IInv

(* publish: what is published never goes back, and covers the task. *)
LEMMA PublishFact ==
    ASSUME IInv, NEW t \in tasks
    PROVE  /\ publish(t) \in [rank : RankType, snapshot : SnapshotType]
           /\ publish(t).rank.at = publish(t).snapshot.at
           /\ publish(t).snapshot.at >= current.snapshot.at
           /\ publish(t).snapshot.at >= t.snapshot.at
           /\ publish(t).snapshot \in {current.snapshot, t.snapshot}
<1>1. /\ t.rank \in RankType /\ t.snapshot \in SnapshotType /\ t.rank.at = t.snapshot.at
      /\ t.snapshot.at \in Nat
      /\ current \in [rank : RankType, snapshot : SnapshotType] /\ current.rank.at = current.snapshot.at
      /\ current.rank \in RankType /\ current.snapshot.at \in Nat
  BY SMTT(30) DEF IInv, Types, TaskType, TasksOK, TaskOK, RanksOK, SnapshotType
<1>2. CASE Leq(t.rank, current.rank)
  <2>1. t.snapshot.at <= current.snapshot.at
    BY <1>1, <1>2, LeqFacts, SMTT(30), Zenon
  <2>2. publish(t) = current
    BY <1>2, Zenon DEF publish
  <2>3. /\ current.snapshot.at >= current.snapshot.at
        /\ current.snapshot.at >= t.snapshot.at
    BY <1>1, <2>1
  <2>4. current.snapshot \in {current.snapshot, t.snapshot}
    OBVIOUS
  <2> QED
    BY <1>1, <2>2, <2>3, <2>4, Zenon
<1>3. CASE ~Leq(t.rank, current.rank)
  <2>1. current.snapshot.at <= t.snapshot.at
    BY <1>1, <1>3, LeqFacts, Zenon
  <2>2. publish(t) = Published(t.rank, t.snapshot)
    BY <1>3, Zenon DEF publish
  <2>3. publish(t).rank = t.rank /\ publish(t).snapshot = t.snapshot
    BY <2>2 DEF Published
  <2>4. publish(t) \in [rank : RankType, snapshot : SnapshotType]
    BY <1>1, <2>2 DEF Published
  <2>5. /\ t.snapshot.at >= current.snapshot.at
        /\ t.snapshot.at >= t.snapshot.at
    BY <1>1, <2>1
  <2>6. t.snapshot \in {current.snapshot, t.snapshot}
    OBVIOUS
  <2> QED
    BY <1>1, <2>3, <2>4, <2>5, <2>6, Zenon
<1> QED
  BY <1>2, <1>3

(* A finished task leaves the others as they were. *)
LEMMA FinishTasks ==
    ASSUME IInv, NEW t \in tasks, t.stage = "stored", tasks' = tasks \ {t},
           UNCHANGED <<disk, counters, durable>>,
           applied' = applied \/ (t.kind = "install" /\ applied' = t.snapshot.at)
    PROVE  /\ TasksOK'
           /\ applied' \in Nat /\ applied <= applied'
           /\ applied' # applied => applied' <= saved.at
           /\ t.snapshot.at <= saved.at
<1>1. /\ saved' = saved /\ reserved' = reserved
      /\ applied \in Nat /\ t.snapshot.at \in Nat /\ t.rank \in RankType /\ durable \in RankType \cup {Absent}
  BY SMTT(30) DEF disk, IInv, Types, TaskType, SnapshotType
<1>2. TaskOK(t) /\ StoredOK(t)
  BY Zenon DEF IInv, TasksOK
<1>3. t.snapshot.at <= saved.at
  <2>1. durable # Absent /\ Leq(t.rank, durable) /\ durable.at = saved.at /\ t.rank.at = t.snapshot.at
    BY <1>2, SMTT(30), Zenon DEF StoredOK, TaskOK, IInv, RanksOK
  <2> QED
    BY <1>1, <2>1, LeqFacts, SMTT(30), Zenon
<1>4. \A u \in tasks' : TaskOK(u)' /\ StoredOK(u)'
  <2> SUFFICES ASSUME NEW u \in tasks, u # t PROVE TaskOK(u)' /\ StoredOK(u)'
    BY SMTT(30), Zenon
  <2>1. TaskOK(u) /\ StoredOK(u)
    BY SMTT(30), Zenon DEF IInv, TasksOK
  <2>2. u.kind = "install" => applied' < u.snapshot.at
    BY <2>1, ZenonT(60), Zenon DEF IInv, TasksOK, TaskOK
  <2> QED
    BY <1>1, <2>1, <2>2, Zenon DEF TaskOK, StoredOK
<1>5. TasksOK'
  BY <1>1, <1>4, ZenonT(60) DEF IInv, TasksOK
<1>6. applied' \in Nat /\ applied <= applied' /\ (applied' # applied => applied' <= saved.at)
  BY <1>1, <1>2, <1>3 DEF TaskOK
<1> QED
  BY <1>3, <1>5, <1>6

LEMMA FinishLog ==
    ASSUME IInv, UNCHANGED disk, applied' \in Nat, applied <= applied',
           applied' # applied => applied' <= saved.at
    PROVE  LogOK'
<1>1. log' = log /\ purged' = purged /\ saved' = saved /\ Held' = Held
  BY Zenon DEF disk, Held
<1>2. applied \in Nat /\ saved.at \in Nat /\ \A k \in Held : k \in Nat
  BY DEF IInv, Types, SnapshotType, Held
<1>3. \A i, j \in Held : i < j => i + 1 \in Held \/ (i <= applied' /\ i <= saved.at)
  BY <1>2 DEF IInv, LogOK
<1>4. \A i \in Held : (\A j \in Held : j <= i) => applied' <= i \/ i <= saved.at
  BY <1>2 DEF IInv, LogOK
<1>5. \A i \in Held : log[i] = "stray" => i > applied' \/ i <= saved.at
  BY <1>2 DEF IInv, LogOK
<1>6. \A i \in Held : i > purged
  BY DEF IInv, LogOK
<1> QED
  BY <1>1, <1>3, <1>4, <1>5, <1>6 DEF LogOK

LEMMA FinishBuildHolds ==
    ASSUME IInv, NEW t \in tasks, FinishBuild(t)
    PROVE  IInv'
<1> DEFINE y == [id |-> t.snapshot.id, number |-> t.number]
<1>1. /\ t.kind = "build" /\ t.stage = "stored" /\ current' = publish(t)
      /\ handed' = handed \cup {t.snapshot.at} /\ named' = named \cup {y} /\ tasks' = tasks \ {t}
      /\ UNCHANGED <<committed, disk, state, applied, members, counters, durable, taken>>
  BY Zenon DEF FinishBuild
<1>2. saved' = saved /\ reserved' = reserved /\ purged' = purged /\ log' = log
  BY <1>1, SMTT(30), Zenon DEF disk
<1>3. TasksOK' /\ applied \in Nat /\ t.snapshot.at <= saved.at
  BY <1>1, FinishTasks
<1>4. LogOK'
  <2>1. applied' \in Nat /\ applied <= applied' /\ applied' = applied
    BY <1>1, <1>3, SMTT(30)
  <2> QED
    BY <1>1, <2>1, FinishLog, SMTT(30)
<1>5. /\ current' \in [rank : RankType, snapshot : SnapshotType]
      /\ current'.rank.at = current'.snapshot.at
      /\ current'.snapshot.at >= current.snapshot.at /\ current'.snapshot.at >= t.snapshot.at
      /\ current'.snapshot \in {current.snapshot, t.snapshot}
  BY <1>1, PublishFact, ZenonT(60)
<1>6. /\ t \in TaskType /\ t.snapshot.at \in Nat /\ t.generation \in Nat /\ t.number \in Nat /\ TaskOK(t) /\ StoredOK(t)
      /\ t.snapshot.id = <<t.snapshot.at, t.generation>> /\ current.snapshot.at \in Nat /\ saved.at \in Nat
      /\ current'.snapshot.at \in Nat /\ t.rank \in RankType
  BY <1>1, <1>5, ZenonT(60) DEF IInv, Types, TaskType, SnapshotType, TasksOK, TaskOK
<1>7. y \in [id : Nat \X Nat, number : Nat] /\ y.id = <<t.snapshot.at, t.generation>>
      /\ y.id[1] = t.snapshot.at /\ y.id[2] = t.generation
  BY <1>6, SMTT(60), Zenon
<1>8. Types'
  BY <1>1, <1>2, <1>5, <1>6, <1>7, ZenonT(60) DEF IInv, Types
<1>9. RanksOK'
  BY <1>1, <1>2, <1>5, ZenonT(60) DEF IInv, RanksOK
<1>10. StateIsReplay'
  BY <1>1, <1>2, <1>5, <1>6, ZenonT(60) DEF IInv, StateIsReplay, TaskOK, Replays
<1>11. HandedOK'
  <2>1. \A at \in handed : at \in Nat /\ at <= saved.at /\ at <= current.snapshot.at
    BY SMTT(30) DEF IInv, Types, HandedOK
  <2>2. \A at \in handed : at <= current'.snapshot.at
    BY <1>5, <1>6, <2>1, SMTT(60)
  <2>3. purged \in Nat /\ purged <= saved.at /\ purged <= current'.snapshot.at
    BY <1>5, <1>6, SMTT(60) DEF IInv, Types, HandedOK
  <2>4. t.snapshot.at <= current'.snapshot.at
    BY <1>5, <1>6, ZenonT(60), Zenon
  <2> QED
    BY <1>1, <1>2, <1>3, <2>1, <2>2, <2>3, <2>4, Zenon DEF HandedOK
<1> HIDE DEF y
<1>12. \A x \in named : x.id # y.id
  BY <1>1, <1>6, <1>7, Zenon DEF IInv, NamedOK
<1>13. IdsAreFresh'
  BY <1>1, <1>12, SMTT(30) DEF IInv, IdsAreFresh
<1>14. NamedOK'
  <2>1. ASSUME NEW x \in named
        PROVE  /\ x.id[2] <= counters.generation \/ x.id[1] < applied
               /\ x.id[2] <= reserved \/ x.id[1] < saved.at
               /\ \A u \in tasks : \/ x.id[2] <= u.generation \/ x.id[1] < u.snapshot.at
                                   \/ durable # Absent /\ Leq(u.rank, durable)
               /\ \A u \in tasks : u.kind = "build" => x.id # u.snapshot.id
    BY Zenon DEF IInv, NamedOK
  <2>2. /\ y.id[2] <= counters.generation \/ y.id[1] < applied
        /\ y.id[2] <= reserved \/ y.id[1] < saved.at
    BY <1>1, <1>6, <1>7, ZenonT(60), Zenon DEF TaskOK, StoredOK
  <2>3. ASSUME NEW u \in tasks
        PROVE  \/ y.id[2] <= u.generation \/ y.id[1] < u.snapshot.at
               \/ durable # Absent /\ Leq(u.rank, durable)
    <3>1. /\ u.rank \in RankType /\ u.rank.at = u.snapshot.at /\ t.rank.at = t.snapshot.at
          /\ (t.rank.publication <= u.rank.publication => t.generation <= u.generation)
          /\ durable # Absent /\ durable \in RankType /\ Leq(t.rank, durable)
      BY <1>1, <1>6, ZenonT(60), Zenon DEF IInv, Types, TaskType, TasksOK, TaskOK, StoredOK
    <3>2. CASE Leq(u.rank, t.rank)
      BY <1>6, <3>1, <3>2, LeqFacts, ZenonT(60)
    <3>3. CASE ~Leq(u.rank, t.rank)
      <4>1. t.rank.at < u.rank.at \/ (t.rank.at = u.rank.at /\ t.rank.publication <= u.rank.publication)
        BY <1>6, <3>1, <3>3 DEF Leq, RankType
      <4> QED
        BY <1>7, <3>1, <4>1, SMTT(30)
    <3> QED
      BY <3>2, <3>3, ZenonT(60), Zenon
  <2>4. ASSUME NEW u \in tasks, u # t, u.kind = "build"
        PROVE  y.id # u.snapshot.id
    <3>1. u.generation # t.generation /\ u.snapshot.id = <<u.snapshot.at, u.generation>>
      BY <1>1, <2>4, ZenonT(60) DEF IInv, TasksOK, TaskOK
    <3> QED
      BY <1>7, <3>1, SMTT(30), Zenon
  <2> QED
    BY <1>1, <1>2, <2>1, <2>2, <2>3, <2>4, ZenonT(60) DEF NamedOK
<1> QED
  BY <1>3, <1>4, <1>8, <1>9, <1>10, <1>11, <1>13, <1>14, SMTT(30) DEF IInv

LEMMA FinishInstallHolds ==
    ASSUME IInv, NEW t \in tasks, FinishInstall(t)
    PROVE  IInv'
<1>1. /\ t.kind = "install" /\ t.stage = "stored" /\ current' = publish(t)
      /\ state' = t.snapshot.data /\ applied' = t.snapshot.at /\ members' = t.snapshot.roster
      /\ handed' = handed \cup {t.snapshot.at} /\ tasks' = tasks \ {t}
      /\ UNCHANGED <<committed, disk, counters, durable, named, taken>>
  BY Zenon DEF FinishInstall
<1>2. saved' = saved /\ reserved' = reserved /\ purged' = purged /\ log' = log
  BY <1>1, SMTT(30), Zenon DEF disk
<1>3. /\ TasksOK' /\ applied' \in Nat /\ applied <= applied' /\ (applied' # applied => applied' <= saved.at)
      /\ t.snapshot.at <= saved.at
  BY <1>1, FinishTasks, SMTT(30), Zenon
<1>4. LogOK'
  BY <1>1, <1>3, FinishLog, SMTT(30), Zenon
<1>5. /\ current' \in [rank : RankType, snapshot : SnapshotType]
      /\ current'.rank.at = current'.snapshot.at
      /\ current'.snapshot.at >= current.snapshot.at /\ current'.snapshot.at >= t.snapshot.at
      /\ current'.snapshot \in {current.snapshot, t.snapshot}
  BY <1>1, PublishFact, ZenonT(60), Zenon
<1>6. /\ t.snapshot \in SnapshotType /\ t.snapshot.at \in Nat /\ TaskOK(t) /\ StoredOK(t)
      /\ current.snapshot.at \in Nat /\ saved.at \in Nat /\ current'.snapshot.at \in Nat /\ applied \in Nat
  BY <1>5, SMTT(30), Zenon DEF IInv, Types, TaskType, SnapshotType, TasksOK
<1>7. Types'
  BY <1>1, <1>2, <1>5, <1>6, ZenonT(60), Zenon DEF IInv, Types, SnapshotType
<1>8. RanksOK'
  BY <1>1, <1>2, <1>3, <1>5, <1>6, ZenonT(60), Zenon DEF IInv, RanksOK, StoredOK
<1>9. StateIsReplay' /\ IdsAreFresh'
  BY <1>1, <1>2, <1>5, <1>6, ZenonT(60), Zenon DEF IInv, StateIsReplay, IdsAreFresh, TaskOK, Replays
<1>10. HandedOK'
  <2>1. \A at \in handed : at \in Nat /\ at <= saved.at /\ at <= current.snapshot.at
    BY Zenon DEF IInv, Types, HandedOK
  <2>2. \A at \in handed : at <= current'.snapshot.at
    BY <1>5, <1>6, <2>1, SMTT(30), Zenon
  <2>3. purged \in Nat /\ purged <= saved.at /\ purged <= current'.snapshot.at
    BY <1>5, <1>6, SMTT(60), Zenon DEF IInv, Types, HandedOK
  <2>4. t.snapshot.at <= current'.snapshot.at
    BY <1>5, <1>6, Zenon
  <2> QED
    BY <1>1, <1>2, <1>3, <2>1, <2>2, <2>3, <2>4, ZenonT(60), Zenon DEF HandedOK
<1>11. NamedOK'
  <2>1. \A x \in named : x.id[1] \in Nat
    BY Zenon DEF IInv, Types
  <2>2. \A x \in named : x.id[1] < applied => x.id[1] < applied'
    BY <1>3, <1>6, <2>1
  <2> QED
    BY <1>1, <1>2, <2>2, Zenon DEF IInv, NamedOK
<1> QED
  BY <1>3, <1>4, <1>7, <1>8, <1>9, <1>10, <1>11, ZenonT(60) DEF IInv

(* A restart forgets the tasks and goes on from the disk. *)
LEMMA RestartHolds ==
    ASSUME IInv, Restart
    PROVE  IInv'
<1>1. /\ state' = saved.data /\ applied' = saved.at /\ members' = saved.roster
      /\ counters' = [generation |-> reserved, publications |-> 0]
      /\ current' = [rank |-> [at |-> saved.at, publication |-> 0], snapshot |-> saved]
      /\ durable' = Absent /\ tasks' = {}
      /\ handed' = IF saved.at = 0 THEN {} ELSE {saved.at}
      /\ UNCHANGED <<committed, disk, named, taken>>
  BY SMTT(30), Zenon DEF Restart, Load, Published, Rank
<1>2. saved' = saved /\ reserved' = reserved /\ purged' = purged /\ log' = log /\ Held' = Held
  BY <1>1, Zenon DEF disk, Held
<1>3. saved \in SnapshotType /\ saved.at \in Nat /\ saved.data \in Nat /\ saved.roster \in Nat /\ reserved \in Nat
  BY Zenon DEF IInv, Types, SnapshotType
<1>4. Types'
  BY <1>1, <1>2, <1>3, ZenonT(60), Zenon DEF IInv, Types, RankType
<1>5. RanksOK' /\ TasksOK'
  BY <1>1, <1>2, <1>3, SMTT(60), Zenon DEF RanksOK, TasksOK
<1>6. StateIsReplay' /\ IdsAreFresh'
  BY <1>1, <1>2, ZenonT(60), Zenon DEF IInv, StateIsReplay, IdsAreFresh
<1>7. HandedOK'
  BY <1>1, <1>2, <1>3, SMTT(60), Zenon DEF IInv, HandedOK
<1>8. NamedOK'
  BY <1>1, <1>2, ZenonT(60), Zenon DEF IInv, NamedOK
<1>9. LogOK'
  <2>1. \A k \in Held : k \in Nat /\ k > purged
    BY DEF Held, IInv, LogOK
  <2>2. \A i, j \in Held : i < j => i + 1 \in Held \/ i <= saved.at
    BY Zenon DEF IInv, LogOK
  <2>3. \A i \in Held : saved.at <= i \/ i <= saved.at
    BY <1>3, <2>1
  <2>4. \A i \in Held : i > saved.at \/ i <= saved.at
    BY <1>3, <2>1
  <2> QED
    BY <1>1, <1>2, <2>1, <2>2, <2>3, <2>4, Zenon DEF LogOK
<1> QED
  BY <1>4, <1>5, <1>6, <1>7, <1>8, <1>9, SMTT(30), Zenon DEF IInv

LEMMA StepHolds ==
    ASSUME IInv, [Next]_vars
    PROVE  IInv' /\ (saved' = saved \/ saved'.at >= saved.at)
<1>1. ASSUME NEW i \in 1..MaxIndex, NEW entry \in {"chosen", "stray"}, append(i, entry)
      PROVE  IInv' /\ saved' = saved
  BY <1>1, AppendHolds, Zenon DEF append
<1>2. ASSUME NEW i \in 1..MaxIndex, Truncate(i) \/ Purge(i) \/ Install(i)
      PROVE  IInv' /\ saved' = saved
  BY <1>2, TruncateHolds, PurgeHolds, InstallHolds, Zenon DEF Truncate, Purge, Install, disk
<1>3. CASE Commit \/ Apply \/ Build \/ Restart
  BY <1>3, CommitHolds, ApplyHolds, BuildHolds, RestartHolds, Zenon DEF Commit, Apply, Build, Restart, disk
<1>4. ASSUME NEW t \in tasks, CommitSnapshot(t)
      PROVE  IInv' /\ saved'.at >= saved.at
  BY <1>4, CommitSnapshotHolds, SMTT(30), Zenon
<1>5. ASSUME NEW t \in tasks, FinishBuild(t) \/ FinishInstall(t)
      PROVE  IInv' /\ saved' = saved
  BY <1>5, FinishBuildHolds, FinishInstallHolds, Zenon DEF FinishBuild, FinishInstall, disk
<1>6. CASE UNCHANGED vars
  <2>1. UNCHANGED <<committed, log, purged, saved, reserved, memory, named, taken>>
    BY <1>6, Zenon DEF vars, disk
  <2>2. UNCHANGED <<state, applied, members, counters, current, durable, tasks, handed>>
    BY <1>6, SMTT(30), Zenon DEF vars, memory
  <2>3. Types'
    BY <2>1, <2>2, SMTT(30), Zenon DEF IInv, Types
  <2>4. LogOK'
    BY <2>1, <2>2, Zenon DEF IInv, LogOK, Held
  <2> QED
    BY <2>1, <2>3, <2>4, MemoryKept, Zenon DEF IInv
<1> QED
  BY <1>1, <1>2, <1>3, <1>4, <1>5, <1>6, SMTT(30), Zenon DEF Next

-----------------------------------------------------------------------------
(* The theorems.                                                           *)

LEMMA InvariantHolds == Spec => []IInv
<1>1. IInv /\ [Next]_vars => IInv'
  BY StepHolds, Zenon
<1> QED
  BY <1>1, InitHolds, PTL DEF Spec

(* Whatever step the process dies at, every entry it ever purged is in the *)
(* snapshot it restarts from and in the one it offers its followers, and   *)
(* the entries kept follow each other from there (purge_upto,              *)
(* commit_snapshot, publish).                                              *)
THEOREM PurgedEntriesAreCovered == Spec => []PurgedIsCovered
<1>1. IInv => PurgedIsCovered
  BY Zenon DEF IInv, HandedOK, LogOK, PurgedIsCovered
<1> QED
  BY <1>1, InvariantHolds, PTL

(* Applied, saved or published, the state, the membership and the position *)
(* belong to each other, whatever was applied or installed while a         *)
(* snapshot was being stored (apply, snapshot_candidate, install_snapshot). *)
THEOREM StatesAreReplays == Spec => []StateIsReplay
<1>1. IInv => StateIsReplay
  BY Zenon DEF IInv
<1> QED
  BY <1>1, InvariantHolds, PTL

(* No two snapshots built by this member, in one process or in successive  *)
(* ones, go out under one identifier: a generation that was not reserved   *)
(* on disk belongs to a position the disk has passed                       *)
(* (snapshot_candidate, save_snapshot).                                    *)
THEOREM SnapshotIdsAreFresh == Spec => []IdsAreFresh
<1>1. IInv => IdsAreFresh
  BY Zenon DEF IInv
<1> QED
  BY <1>1, InvariantHolds, PTL

(* The snapshot on disk never goes back to an earlier position, in         *)
(* whatever order the tasks finish (commit_snapshot).                      *)
THEOREM SavedNeverGoesBack == Spec => NeverGoesBack
<1>1. IInv /\ [Next]_vars => [saved'.at >= saved.at]_vars
  <2> SUFFICES ASSUME IInv, [Next]_vars PROVE saved'.at >= saved.at
    OBVIOUS
  <2>1. saved.at \in Nat
    BY Zenon DEF IInv, Types, SnapshotType
  <2> QED
    BY <2>1, StepHolds
<1> QED
  BY <1>1, InvariantHolds, PTL DEF Spec, NeverGoesBack

-----------------------------------------------------------------------------
(* WebhookOutbox, whose Configured is what it assumes of its constants.    *)

HookSteps == {"recover", "retry", "scan", "await", "next", "wait", "backoff"}
HookTargets == UNION {Range(TargetsOf[e]) : e \in Events}
WorkerFields == {"pc", "inFlight", "busy", "held", "retried", "failed", "scanFailed", "timed"}

(* What the process sends, or has a result of that is not written yet. *)
Unwritten == worker.held \cup worker.retried
Active == Named(worker.inFlight \cup Unwritten)

OutboxRow == [event : Events, rest : Seq(HookTargets)]

(* The events of the outbox, each with targets it was not fanned out to. *)
OutboxOK ==
    /\ outbox \in Seq(OutboxRow)
    /\ \A i \in DOMAIN outbox :
         /\ outbox[i].rest # <<>> /\ IsInjective(outbox[i].rest)
         /\ Range(outbox[i].rest) \subseteq Range(TargetsOf[outbox[i].event])
         /\ mutation[outbox[i].event] # "new"
    /\ \A i, j \in DOMAIN outbox : outbox[i].event = outbox[j].event => i = j

QueueOK ==
    /\ mutation \in [Events -> {"new", "committed", "answered"}]
    /\ queue \in [Queued -> Nat] /\ IsFiniteSet(Queued)
    /\ OutboxOK
    /\ QueueIsExact

(* With the queue q, the deliveries A in flight and the results U that are *)
(* still to be written: what is active is queued as the worker knows it,   *)
(* and each target has one.                                                *)
InTurn(q, A, U) ==
    /\ IsFiniteSet(A) /\ IsFiniteSet(U)
    /\ \A r \in A : r.delivery \in DOMAIN q /\ r.attempts = q[r.delivery]
    /\ \A u \in U : u.delivery \in DOMAIN q /\ (u.status = "pending" => q[u.delivery] + 1 < MaxAttempts)
    /\ \A r, s \in A : r.delivery.target = s.delivery.target => r = s
    /\ \A u, v \in U : u.delivery.target = v.delivery.target => u = v
    /\ \A r \in A, u \in U : r.delivery.target # u.delivery.target

(* A delivery was sent as often as it was recorded, and once more while it *)
(* is active.                                                              *)
SentOnce(q, s, active) ==
    /\ DOMAIN s = Deliveries
    /\ \A d \in DOMAIN q : q[d] < MaxAttempts
    /\ \A d \in Deliveries :
         s[d] = IF d \in active THEN q[d] + 1 ELSE IF d \in DOMAIN q THEN q[d] ELSE 0

(* Where the worker may be with what it remembers. *)
PlaceOK ==
    /\ DOMAIN worker = WorkerFields /\ worker.pc \in HookSteps
    /\ worker.inFlight # {} => worker.pc \in {"scan", "await"}
    /\ worker.retried # {} => worker.pc = "retry"
    /\ worker.held \cap worker.retried = {}
    /\ worker.pc \in {"scan", "await"} =>
         \A x \in worker.inFlight \cup worker.held : x.delivery.target \in worker.busy

ActiveOK == InTurn(queue, worker.inFlight, Unwritten)
SentOK == SentOnce(queue, sent, Active)

HookInv == QueueOK /\ PlaceOK /\ ActiveOK /\ SentOK

-----------------------------------------------------------------------------
(* What the queue does with a recorded attempt. *)
LEMMA UpdateRecords ==
    ASSUME queue \in [Queued -> Nat], DOMAIN sent = Deliveries,
           due = {Deadline(x, queue[x]) : x \in Queued},
           NEW u, u.delivery \in Queued, update_webhook_delivery(u)
    PROVE  LET d == u.delivery
               again == u.status = "pending"
           IN  /\ Queued' = IF again THEN Queued ELSE Queued \ {d}
               /\ \A x \in Queued' : queue'[x] = IF x = d THEN queue[d] + 1 ELSE queue[x]
               /\ queue' \in [Queued' -> Nat]
               /\ settled' = IF again THEN settled ELSE settled \cup {d}
               /\ due' = {Deadline(x, queue'[x]) : x \in Queued'}
               /\ DOMAIN sent' = Deliveries
               /\ \A x \in Deliveries : sent'[x] = IF x = d /\ ~again THEN 0 ELSE sent[x]
<1>. DEFINE d == u.delivery
            again == u.status = "pending"
            retried == IF again THEN {d} ELSE {}
            left == (Queued \ {d}) \cup retried
<1>1. Queued \cap {u.delivery} = {d}
  BY Zenon
<1>2. /\ queue' = [x \in left |-> IF x \in {d} THEN queue[x] + 1 ELSE queue[x]]
      /\ due' = (due \ {Deadline(x, queue[x]) : x \in {d}})
                    \cup {Deadline(x, queue[x] + 1) : x \in retried}
      /\ settled' = settled \cup ({d} \ retried)
      /\ sent' = [x \in Deliveries |-> IF x \in {d} \ retried THEN 0 ELSE sent[x]]
  BY <1>1, Zenon DEF update_webhook_delivery
<1>3. Queued' = left /\ left = IF again THEN Queued ELSE Queued \ {d}
  BY <1>2 DEF Queued
<1>4. \A x \in left : queue'[x] = IF x = d THEN queue[d] + 1 ELSE queue[x]
  BY <1>2
<1>5. queue' \in [left -> Nat]
  BY <1>2
<1>6. due' = {Deadline(x, queue'[x]) : x \in left}
  <2>1. ASSUME NEW y \in due' PROVE \E x \in left : y = Deadline(x, queue'[x])
    <3>1. CASE y \in due \ {Deadline(x, queue[x]) : x \in {d}}
      <4>1. PICK x \in Queued : y = Deadline(x, queue[x])
        BY <3>1, Zenon
      <4>2. x # d
        BY <3>1, <4>1, Zenon
      <4>. QED
        BY <1>4, <4>1, <4>2, Zenon
    <3>2. CASE y \in {Deadline(x, queue[x] + 1) : x \in retried}
      BY <1>4, <3>2
    <3>. QED
      BY <1>2, <2>1, <3>1, <3>2, Zenon
  <2>2. ASSUME NEW x \in left PROVE Deadline(x, queue'[x]) \in due'
    <3>1. CASE x = d
      <4>1. x \in retried /\ queue'[x] = queue[x] + 1
        BY <1>4, <2>2, <3>1
      <4>. QED
        BY <1>2, <4>1, Zenon
    <3>2. CASE x # d
      <4>1. x \in Queued /\ queue'[x] = queue[x]
        BY <1>4, <2>2, <3>2
      <4>2. Deadline(x, queue[x]) # Deadline(d, queue[d])
        BY <3>2 DEF Deadline
      <4>. QED
        BY <1>2, <4>1, <4>2, Zenon
    <3>. QED
      BY <3>1, <3>2, Zenon
  <2>. HIDE DEF left
  <2>. QED
    BY <2>1, <2>2, Zenon
<1>7. settled' = IF again THEN settled ELSE settled \cup {d}
  BY <1>2
<1>8. DOMAIN sent' = Deliveries /\ \A x \in Deliveries : sent'[x] = IF x = d /\ ~again THEN 0 ELSE sent[x]
  BY <1>2
<1>. HIDE DEF left
<1>. QED
  BY <1>3, <1>4, <1>5, <1>6, <1>7, <1>8, Zenon

LEMMA OutboxRows ==
    ASSUME OutboxOK
    PROVE  /\ Len(outbox) \in Nat /\ DOMAIN outbox = 1..Len(outbox)
           /\ \A i \in DOMAIN outbox :
                /\ outbox[i] \in OutboxRow /\ outbox[i].event \in Events
                /\ outbox[i].rest \in Seq(HookTargets)
<1>1. Len(outbox) \in Nat /\ DOMAIN outbox = 1..Len(outbox) /\ \A i \in DOMAIN outbox : outbox[i] \in OutboxRow
  BY DEF OutboxOK
<1>2. \A x \in OutboxRow : x.event \in Events /\ x.rest \in Seq(HookTargets)
  BY DEF OutboxRow
<1>. QED
  BY <1>1, <1>2, Zenon

(* The deliveries that a row of the outbox, and the rows of a sequence, name. *)
NamedBy(x) == {Delivery(x.event, a) : a \in Range(x.rest)}
NamedIn(q) == UNION {NamedBy(x) : x \in Range(q)}

LEMMA NamedInRows ==
    /\ Outboxed = NamedIn(outbox)
    /\ \A q, d : d \in NamedIn(q) <=> \E i \in DOMAIN q : d \in NamedBy(q[i])
<1>1. Outboxed = NamedIn(outbox)
  BY Zenon DEF Outboxed, NamedIn, NamedBy
<1>2. \A q, d : d \in NamedIn(q) <=> \E x \in Range(q) : d \in NamedBy(x)
  BY DEF NamedIn
<1>. QED
  BY <1>1, <1>2, Zenon DEF Range

(* The deliveries of the events that are committed. *)
Told == UNION {DeliveriesOf(e) : e \in {x \in Events : mutation[x] # "new"}}

LEMMA ToldNames ==
    \A d : d \in Told <=> \E e \in Events : mutation[e] # "new" /\ d \in DeliveriesOf(e)
BY DEF Told

LEMMA DeliveryFields ==
    /\ \A e, a : Delivery(e, a).event = e /\ Delivery(e, a).target = a
    /\ \A e : \A d \in DeliveriesOf(e) : d.event = e /\ d.target \in Range(TargetsOf[e]) /\ d = Delivery(e, d.target)
<1>1. \A e, a : Delivery(e, a).event = e /\ Delivery(e, a).target = a
  BY DEF Delivery
<1>. QED
  BY <1>1, Zenon DEF DeliveriesOf

(* A step that leaves the store alone and commits nothing. *)
LEMMA QueueQuiet ==
    ASSUME QueueOK, UNCHANGED <<outbox, queue, due, settled>>,
           mutation' \in [Events -> {"new", "committed", "answered"}],
           \A e \in Events : mutation'[e] = "new" <=> mutation[e] = "new"
    PROVE  QueueOK'
<1>1. Outboxed' = Outboxed /\ Queued' = Queued
  BY DEF Outboxed, Queued
<1>2. {x \in Events : mutation'[x] # "new"} = {x \in Events : mutation[x] # "new"}
  OBVIOUS
<1>3. QueueIsExact'
  BY <1>1, <1>2 DEF QueueOK, QueueIsExact
<1>4. OutboxOK'
  <2>1. \A i \in DOMAIN outbox : outbox[i].event \in Events /\ mutation[outbox[i].event] # "new"
    BY OutboxRows, Zenon DEF QueueOK, OutboxOK
  <2>2. \A i \in DOMAIN outbox : mutation'[outbox[i].event] # "new"
    BY <2>1, Zenon
  <2>. QED
    BY <2>2, Zenon DEF QueueOK, OutboxOK
<1>. QED
  BY <1>1, <1>3, <1>4 DEF QueueOK

LEMMA CommitQueues ==
    ASSUME Configured, QueueOK, NEW e \in Events, CommitEvent(e)
    PROVE  QueueOK'
<1>. DEFINE n == Len(outbox)
            row == [event |-> e, rest |-> TargetsOf[e]]
<1>1. /\ mutation[e] = "new" /\ mutation' = [mutation EXCEPT ![e] = "committed"]
      /\ outbox' = Append(outbox, row)
      /\ UNCHANGED <<queue, due, settled>>
  BY DEF CommitEvent, history
<1>2. mutation' \in [Events -> {"new", "committed", "answered"}] /\ mutation'[e] # "new"
      /\ \A x \in Events \ {e} : mutation'[x] = mutation[x]
  BY <1>1 DEF QueueOK
<1>3. row.event = e /\ row.rest = TargetsOf[e] /\ row.rest # <<>> /\ IsInjective(row.rest) /\ row \in OutboxRow
  <2>1. TargetsOf[e] \in Seq(Range(TargetsOf[e])) /\ TargetsOf[e] # <<>> /\ IsInjective(TargetsOf[e])
    BY Zenon DEF Configured
  <2>2. Range(TargetsOf[e]) \subseteq HookTargets
    BY Zenon DEF HookTargets
  <2>3. TargetsOf[e] \in Seq(HookTargets)
    BY <2>1, <2>2
  <2>. QED
    BY <2>1, <2>3 DEF OutboxRow
<1>. HIDE DEF row
<1>4. /\ n \in Nat /\ DOMAIN outbox = 1..n /\ outbox \in Seq(OutboxRow)
      /\ \A i \in 1..n : outbox[i].event \in Events /\ mutation[outbox[i].event] # "new"
  BY OutboxRows, Zenon DEF QueueOK, OutboxOK
<1>5. /\ outbox' \in Seq(OutboxRow) /\ DOMAIN outbox' = 1..(n + 1) /\ outbox'[n + 1] = row
      /\ \A i \in 1..n : outbox'[i] = outbox[i]
  BY <1>1, <1>3, <1>4
<1>. HIDE DEF n
<1>6. \A i \in 1..n : outbox[i].event # e
  BY <1>1, <1>4, Zenon
<1>7. \A i \in 1..(n + 1) : i = n + 1 \/ i \in 1..n
  BY <1>4
<1>8. OutboxOK'
  <2>1. ASSUME NEW i \in 1..(n + 1)
        PROVE  /\ outbox'[i].rest # <<>> /\ IsInjective(outbox'[i].rest)
               /\ Range(outbox'[i].rest) \subseteq Range(TargetsOf[outbox'[i].event])
               /\ mutation'[outbox'[i].event] # "new"
    <3>1. CASE i = n + 1
      BY <1>2, <1>3, <1>5, <3>1, Zenon
    <3>2. CASE i \in 1..n
      BY <1>2, <1>4, <1>5, <1>6, <3>2, Zenon DEF QueueOK, OutboxOK
    <3>. QED
      BY <1>7, <3>1, <3>2, Zenon
  <2>2. ASSUME NEW i \in 1..(n + 1), NEW j \in 1..(n + 1), outbox'[i].event = outbox'[j].event
        PROVE  i = j
    <3>1. CASE i \in 1..n /\ j \in 1..n
      BY <1>4, <1>5, <2>2, <3>1, Zenon DEF QueueOK, OutboxOK
    <3>. QED
      BY <1>3, <1>5, <1>6, <1>7, <2>2, <3>1, Zenon
  <2>. QED
    BY <1>5, <2>1, <2>2, Zenon DEF OutboxOK
<1>9. Outboxed' = Outboxed \cup DeliveriesOf(e)
  <2>1. Outboxed' = NamedIn(outbox')
    BY Zenon DEF Outboxed, NamedIn, NamedBy
  <2>2. NamedBy(row) = DeliveriesOf(e)
    BY <1>3, Zenon DEF DeliveriesOf, NamedBy
  <2>3. 1..n \subseteq 1..(n + 1) /\ n + 1 \in 1..(n + 1)
    BY <1>4
  <2>4. ASSUME NEW d \in NamedIn(outbox') PROVE d \in NamedIn(outbox) \cup DeliveriesOf(e)
    <3>1. PICK i \in DOMAIN outbox' : d \in NamedBy(outbox'[i])
      BY NamedInRows, Zenon
    <3>. QED
      BY <1>4, <1>5, <1>7, <2>2, <3>1, NamedInRows, Zenon
  <2>5. ASSUME NEW d \in NamedIn(outbox) PROVE d \in NamedIn(outbox')
    <3>1. PICK i \in DOMAIN outbox : d \in NamedBy(outbox[i])
      BY NamedInRows, Zenon
    <3>. QED
      BY <1>4, <1>5, <2>3, <3>1, NamedInRows, Zenon
  <2>6. ASSUME NEW d \in DeliveriesOf(e) PROVE d \in NamedIn(outbox')
    BY <1>5, <2>2, <2>3, <2>6, NamedInRows, Zenon
  <2>. QED
    BY <2>1, <2>4, <2>5, <2>6, NamedInRows, Zenon
<1>10. Told' = Told \cup DeliveriesOf(e) /\ Told \cap DeliveriesOf(e) = {}
  <2>1. \A d : d \in Told' <=> \E x \in Events : mutation'[x] # "new" /\ d \in DeliveriesOf(x)
    BY DEF Told, DeliveriesOf
  <2>2. ASSUME NEW d \in Told PROVE d \notin DeliveriesOf(e)
    <3>1. PICK x \in Events : mutation[x] # "new" /\ d \in DeliveriesOf(x)
      BY ToldNames, Zenon
    <3>2. d.event = x /\ (d \in DeliveriesOf(e) => d.event = e)
      BY <3>1, DeliveryFields, Zenon
    <3>. QED
      BY <1>1, <3>1, <3>2, Zenon
  <2>. QED
    BY <1>2, <2>1, <2>2, ToldNames, Zenon
<1>11. QueueIsExact'
  <2>1. Queued' = Queued /\ settled' = settled /\ due' = due /\ queue' = queue
    BY <1>1 DEF Queued
  <2>2. Outboxed \cup Queued \cup settled = Told /\ Outboxed \cap Queued = {} /\ (Outboxed \cup Queued) \cap settled = {}
    BY Zenon DEF QueueOK, QueueIsExact, Told
  <2>3. Outboxed' \cup Queued' \cup settled' = Told'
    BY <1>9, <1>10, <2>1, <2>2, Zenon
  <2>4. Outboxed' \cap Queued' = {} /\ (Outboxed' \cup Queued') \cap settled' = {}
    BY <1>9, <1>10, <2>1, <2>2, Zenon
  <2>5. due = {Deadline(d, queue[d]) : d \in Queued}
    BY Zenon DEF QueueOK, QueueIsExact
  <2>. QED
    BY <2>1, <2>3, <2>4, <2>5, Zenon DEF QueueIsExact, Told
<1>. QED
  BY <1>1, <1>2, <1>8, <1>11, Zenon DEF QueueOK, Queued

LEMMA TailOfRest ==
    ASSUME NEW S, NEW r \in Seq(S), r # <<>>, IsInjective(r)
    PROVE  /\ Head(r) \in Range(r) /\ Tail(r) \in Seq(S) /\ IsInjective(Tail(r))
           /\ Range(Tail(r)) = Range(r) \ {Head(r)}
           /\ IF Len(r) = 1 THEN Range(r) = {Head(r)} ELSE Tail(r) # <<>>
<1>1. /\ Len(r) \in Nat /\ Len(r) > 0 /\ DOMAIN r = 1..Len(r) /\ Head(r) = r[1]
      /\ Tail(r) \in Seq(S) /\ DOMAIN Tail(r) = 1..(Len(r) - 1) /\ Len(Tail(r)) = Len(r) - 1
      /\ \A i \in 1..(Len(r) - 1) : Tail(r)[i] = r[i + 1]
  OBVIOUS
<1>2. \A i, j \in 1..Len(r) : r[i] = r[j] => i = j
  BY <1>1, Zenon DEF IsInjective
<1>3. IsInjective(Tail(r))
  <2>1. ASSUME NEW i \in 1..(Len(r) - 1), NEW j \in 1..(Len(r) - 1), Tail(r)[i] = Tail(r)[j] PROVE i = j
    <3>1. i + 1 \in 1..Len(r) /\ j + 1 \in 1..Len(r) /\ r[i + 1] = r[j + 1]
      BY <1>1, <2>1
    <3>2. i + 1 = j + 1
      BY <1>2, <3>1, Zenon
    <3>. QED
      BY <3>2
  <2>. QED
    BY <1>1, <2>1, Zenon DEF IsInjective
<1>4. \A x : x \in Range(r) <=> \E i \in 1..Len(r) : x = r[i]
  BY <1>1, Zenon DEF Range
<1>5. \A x : x \in Range(Tail(r)) <=> \E i \in 1..(Len(r) - 1) : x = Tail(r)[i]
  BY <1>1, Zenon DEF Range
<1>6. ASSUME NEW x \in Range(Tail(r)) PROVE x \in Range(r) /\ x # Head(r)
  <2>1. PICK i \in 1..(Len(r) - 1) : x = Tail(r)[i]
    BY <1>5, Zenon
  <2>2. i + 1 \in 1..Len(r) /\ x = r[i + 1] /\ i + 1 # 1 /\ 1 \in 1..Len(r)
    BY <1>1, <2>1
  <2>. QED
    BY <1>1, <1>2, <1>4, <2>2, Zenon
<1>7. ASSUME NEW x \in Range(r), x # Head(r) PROVE x \in Range(Tail(r))
  <2>1. PICK i \in 1..Len(r) : x = r[i]
    BY <1>4, Zenon
  <2>2. i - 1 \in 1..(Len(r) - 1) /\ x = Tail(r)[i - 1]
    <3>1. i # 1
      BY <1>1, <1>7, <2>1, Zenon
    <3>2. i - 1 \in 1..(Len(r) - 1) /\ (i - 1) + 1 = i
      BY <1>1, <3>1
    <3>. QED
      BY <1>1, <2>1, <3>2
  <2>. QED
    BY <1>5, <2>2, Zenon
<1>8. Head(r) \in Range(r)
  <2>1. 1 \in 1..Len(r)
    BY <1>1
  <2>. QED
    BY <1>1, <1>4, <2>1, Zenon
<1>9. Len(r) = 1 => Range(r) = {Head(r)}
  <2>1. Len(r) = 1 => 1..(Len(r) - 1) = {}
    OBVIOUS
  <2>. QED
    BY <1>5, <1>7, <1>8, <2>1, Zenon
<1>10. Len(r) # 1 => Tail(r) # <<>>
  <2>1. Len(r) # 1 => Len(Tail(r)) # 0
    BY <1>1
  <2>2. Len(<<>>) = 0
    OBVIOUS
  <2>. QED
    BY <2>1, <2>2, Zenon
<1>. QED
  BY <1>1, <1>3, <1>6, <1>7, <1>8, <1>9, <1>10, Zenon

(* What an event is fanned out to next leaves the outbox for the queue. *)
LEMMA FanOutQueues ==
    ASSUME Configured, QueueOK, outbox # <<>>, FanOut, mutation' = mutation, settled' = settled
    PROVE  /\ QueueOK'
           /\ \E d \in Outboxed : /\ Queued' = Queued \cup {d} /\ queue'[d] = 0
                                 /\ \A x \in Queued : queue'[x] = queue[x]
<1>. DEFINE n == Len(outbox)
            head == Head(outbox)
            rest == head.rest
            d == Delivery(head.event, Head(rest))
            last == Len(rest) = 1
            shorter == [head EXCEPT !.rest = Tail(rest)]
<1>1. /\ outbox' = IF last THEN Tail(outbox) ELSE [outbox EXCEPT ![1] = shorter]
      /\ queue' = [q \in Queued \cup {d} |-> IF q = d THEN 0 ELSE queue[q]]
      /\ due' = due \cup {Deadline(d, 0)}
  <2>1. outbox' = IF last THEN Tail(outbox) ELSE [outbox EXCEPT ![1].rest = Tail(rest)]
    BY Zenon DEF FanOut
  <2>2. [outbox EXCEPT ![1].rest = Tail(rest)] = [outbox EXCEPT ![1] = [outbox[1] EXCEPT !.rest = Tail(rest)]]
    BY Zenon
  <2>3. head = outbox[1]
    <3>1. outbox \in Seq(OutboxRow)
      BY Zenon DEF QueueOK, OutboxOK
    <3>. QED
      BY <3>1
  <2>4. /\ queue' = [q \in Queued \cup {d} |-> IF q = d THEN 0 ELSE queue[q]]
        /\ due' = due \cup {Deadline(d, 0)}
    BY Zenon DEF FanOut
  <2>. QED
    BY <2>1, <2>2, <2>3, <2>4, Zenon
<1>2. /\ n \in Nat /\ n > 0 /\ DOMAIN outbox = 1..n /\ outbox \in Seq(OutboxRow) /\ head = outbox[1]
      /\ 1 \in 1..n /\ head \in OutboxRow
  <2>1. outbox \in Seq(OutboxRow)
    BY Zenon DEF QueueOK, OutboxOK
  <2>. QED
    BY <2>1
<1>3. /\ \A i \in 1..n : /\ outbox[i].rest # <<>> /\ IsInjective(outbox[i].rest)
                         /\ Range(outbox[i].rest) \subseteq Range(TargetsOf[outbox[i].event])
                         /\ mutation[outbox[i].event] # "new"
      /\ \A i, j \in 1..n : outbox[i].event = outbox[j].event => i = j
  BY <1>2, Zenon DEF QueueOK, OutboxOK
<1>. HIDE DEF n, head
<1>4. rest \in Seq(HookTargets) /\ head.event \in Events /\ rest # <<>> /\ IsInjective(rest)
  BY <1>2, <1>3 DEF OutboxRow
<1>5. /\ Head(rest) \in Range(rest) /\ Tail(rest) \in Seq(HookTargets) /\ IsInjective(Tail(rest))
      /\ Range(Tail(rest)) = Range(rest) \ {Head(rest)}
      /\ IF last THEN Range(rest) = {Head(rest)} ELSE Tail(rest) # <<>>
  BY <1>4, TailOfRest, Zenon
<1>6. shorter \in OutboxRow /\ shorter.event = head.event /\ shorter.rest = Tail(rest)
  BY <1>2, <1>5, Zenon DEF OutboxRow
<1>. HIDE DEF rest, last, shorter
<1>7. NamedBy(shorter) = NamedBy(head) \ {d} /\ d \in NamedBy(head) /\ (last => NamedBy(head) = {d})
  <2>1. \A a \in Range(rest) : a # Head(rest) => Delivery(head.event, a) # d
    BY DEF Delivery
  <2>. QED
    BY <1>5, <1>6, <2>1, Zenon DEF NamedBy, rest
<1>8. \A i \in 1..n : \A x \in NamedBy(outbox[i]) : x.event = outbox[i].event
  <2>1. ASSUME NEW i \in 1..n, NEW x \in NamedBy(outbox[i]) PROVE x.event = outbox[i].event
    <3>1. PICK a \in Range(outbox[i].rest) : x = Delivery(outbox[i].event, a)
      BY Zenon DEF NamedBy
    <3>. QED
      BY <3>1, DeliveryFields, Zenon
  <2>. QED
    BY <2>1, Zenon
<1>9. \A i \in 1..n : i # 1 => d \notin NamedBy(outbox[i])
  <2>1. d.event = head.event
    BY DeliveryFields, Zenon
  <2>. QED
    BY <1>2, <1>3, <1>8, <2>1, Zenon
<1>. HIDE DEF d
<1>10. OutboxOK' /\ NamedIn(outbox') = NamedIn(outbox) \ {d}
  <2>1. CASE last
    <3>1. /\ outbox' \in Seq(OutboxRow) /\ DOMAIN outbox' = 1..(n - 1)
          /\ \A i \in 1..(n - 1) : outbox'[i] = outbox[i + 1] /\ i + 1 \in 1..n /\ i + 1 # 1
      <4>1. outbox' = Tail(outbox)
        BY <1>1, <2>1, Zenon
      <4>2. /\ Tail(outbox) \in Seq(OutboxRow) /\ DOMAIN Tail(outbox) = 1..(n - 1)
            /\ \A i \in 1..(n - 1) : Tail(outbox)[i] = outbox[i + 1]
        BY <1>2 DEF n
      <4>3. \A i \in 1..(n - 1) : i + 1 \in 1..n /\ i + 1 # 1
        BY <1>2
      <4>. QED
        BY <4>1, <4>2, <4>3, Zenon
    <3>2. \A i, j \in 1..(n - 1) : i + 1 = j + 1 => i = j
      BY <1>2
    <3>3. OutboxOK'
      <4>1. ASSUME NEW i \in 1..(n - 1), NEW j \in 1..(n - 1), outbox'[i].event = outbox'[j].event PROVE i = j
        <5>1. outbox[i + 1].event = outbox[j + 1].event /\ i + 1 \in 1..n /\ j + 1 \in 1..n
          BY <3>1, <4>1, Zenon
        <5>. QED
          BY <1>3, <3>2, <5>1, Zenon
      <4>2. ASSUME NEW i \in 1..(n - 1)
            PROVE  /\ outbox'[i].rest # <<>> /\ IsInjective(outbox'[i].rest)
                   /\ Range(outbox'[i].rest) \subseteq Range(TargetsOf[outbox'[i].event])
                   /\ mutation[outbox'[i].event] # "new"
        <5>1. outbox'[i] = outbox[i + 1] /\ i + 1 \in 1..n
          BY <3>1, Zenon
        <5>. QED
          BY <1>3, <5>1, Zenon
      <4>. QED
        BY <3>1, <4>1, <4>2, Zenon DEF OutboxOK
    <3>4. ASSUME NEW x \in NamedIn(outbox') PROVE x \in NamedIn(outbox) /\ x # d
      <4>1. PICK i \in 1..(n - 1) : x \in NamedBy(outbox'[i])
        BY <3>1, NamedInRows, Zenon
      <4>. QED
        BY <1>2, <1>9, <3>1, <4>1, NamedInRows, Zenon
    <3>5. ASSUME NEW x \in NamedIn(outbox), x # d PROVE x \in NamedIn(outbox')
      <4>1. PICK i \in 1..n : x \in NamedBy(outbox[i])
        BY <1>2, NamedInRows, Zenon
      <4>2. i # 1
        BY <1>2, <1>7, <2>1, <3>5, <4>1, Zenon
      <4>3. i - 1 \in 1..(n - 1) /\ (i - 1) + 1 = i
        BY <1>2, <4>2
      <4>4. outbox'[i - 1] = outbox[i]
        BY <3>1, <4>3
      <4>. QED
        BY <3>1, <4>1, <4>3, <4>4, NamedInRows, Zenon
    <3>. QED
      BY <3>3, <3>4, <3>5, Zenon
  <2>2. CASE ~last
    <3>1. /\ outbox' \in Seq(OutboxRow) /\ DOMAIN outbox' = 1..n /\ outbox'[1] = shorter
          /\ \A i \in 1..n : i # 1 => outbox'[i] = outbox[i]
      <4>1. outbox' = [outbox EXCEPT ![1] = shorter]
        BY <1>1, <2>2, Zenon
      <4>. QED
        BY <1>2, <1>6, <4>1
    <3>2. \A i \in 1..n : outbox'[i].event = outbox[i].event
      BY <1>2, <1>6, <3>1, Zenon
    <3>3. OutboxOK'
      <4>1. ASSUME NEW i \in 1..n
            PROVE  /\ outbox'[i].rest # <<>> /\ IsInjective(outbox'[i].rest)
                   /\ Range(outbox'[i].rest) \subseteq Range(TargetsOf[outbox'[i].event])
        <5>1. CASE i = 1
          <6>1. outbox'[i].rest = Tail(rest) /\ outbox'[i].event = head.event
            BY <1>2, <1>6, <3>1, <5>1, Zenon
          <6>2. Range(rest) \subseteq Range(TargetsOf[head.event])
            BY <1>2, <1>3, Zenon DEF rest
          <6>. QED
            BY <1>5, <2>2, <6>1, <6>2, Zenon
        <5>2. CASE i # 1
          BY <1>3, <3>1, <5>2, Zenon
        <5>. QED
          BY <5>1, <5>2, Zenon
      <4>. QED
        BY <1>3, <3>1, <3>2, <4>1, Zenon DEF OutboxOK
    <3>4. ASSUME NEW x \in NamedIn(outbox') PROVE x \in NamedIn(outbox) /\ x # d
      <4>1. PICK i \in 1..n : x \in NamedBy(outbox'[i])
        BY <3>1, NamedInRows, Zenon
      <4>. QED
        BY <1>2, <1>7, <1>9, <3>1, <4>1, NamedInRows, Zenon
    <3>5. ASSUME NEW x \in NamedIn(outbox), x # d PROVE x \in NamedIn(outbox')
      <4>1. PICK i \in 1..n : x \in NamedBy(outbox[i])
        BY <1>2, NamedInRows, Zenon
      <4>. QED
        BY <1>2, <1>7, <3>1, <3>5, <4>1, NamedInRows, Zenon
    <3>. QED
      BY <3>3, <3>4, <3>5, Zenon
  <2>. QED
    BY <2>1, <2>2, Zenon
<1>11. Outboxed' = Outboxed \ {d} /\ d \in Outboxed
  <2>1. Outboxed' = NamedIn(outbox')
    BY Zenon DEF Outboxed, NamedIn, NamedBy
  <2>2. d \in NamedIn(outbox)
    BY <1>2, <1>7, NamedInRows, Zenon
  <2>. QED
    BY <1>10, <2>1, <2>2, NamedInRows, Zenon
<1>12. d \notin Queued /\ d \notin settled
  BY <1>11, Zenon DEF QueueOK, QueueIsExact
<1>13. /\ Queued' = Queued \cup {d} /\ queue'[d] = 0 /\ queue' \in [Queued' -> Nat]
       /\ \A x \in Queued : queue'[x] = queue[x]
  <2>1. queue \in [Queued -> Nat]
    BY Zenon DEF QueueOK
  <2>. QED
    BY <1>1, <1>12, <2>1 DEF Queued
<1>14. IsFiniteSet(Queued')
  BY <1>13, FS_AddElement, Zenon DEF QueueOK
<1>15. QueueIsExact'
  <2>1. Outboxed \cup Queued \cup settled = Told /\ Outboxed \cap Queued = {} /\ (Outboxed \cup Queued) \cap settled = {}
    BY Zenon DEF QueueOK, QueueIsExact, Told
  <2>2. Told' = Told
    BY Zenon DEF Told
  <2>3. Outboxed' \cup Queued' \cup settled' = Told'
    BY <1>11, <1>13, <2>1, <2>2, Zenon
  <2>4. Outboxed' \cap Queued' = {} /\ (Outboxed' \cup Queued') \cap settled' = {}
    BY <1>11, <1>12, <1>13, <2>1, Zenon
  <2>5. due' = {Deadline(x, queue'[x]) : x \in Queued'}
    <3>1. due = {Deadline(x, queue[x]) : x \in Queued}
      BY Zenon DEF QueueOK, QueueIsExact
    <3>. QED
      BY <1>1, <1>13, <3>1, Zenon
  <2>. QED
    BY <2>3, <2>4, <2>5, Zenon DEF QueueIsExact, Told
<1>. QED
  BY <1>10, <1>11, <1>13, <1>14, <1>15, Zenon DEF QueueOK

(* A recorded attempt is counted, or its delivery settled. *)
LEMMA UpdateQueues ==
    ASSUME QueueOK, DOMAIN sent = Deliveries, NEW u, u.delivery \in Queued, update_webhook_delivery(u),
           mutation' = mutation, outbox' = outbox
    PROVE  QueueOK'
<1>. DEFINE d == u.delivery
            again == u.status = "pending"
<1>1. /\ Queued' = IF again THEN Queued ELSE Queued \ {d}
      /\ queue' \in [Queued' -> Nat]
      /\ settled' = IF again THEN settled ELSE settled \cup {d}
      /\ due' = {Deadline(x, queue'[x]) : x \in Queued'}
  BY UpdateRecords, Zenon DEF QueueOK, QueueIsExact
<1>. HIDE DEF again
<1>2. IsFiniteSet(Queued')
  BY <1>1, FS_Subset, Zenon DEF QueueOK
<1>3. Outboxed' = Outboxed /\ Told' = Told
  BY Zenon DEF Outboxed, Told
<1>4. OutboxOK'
  BY Zenon DEF QueueOK, OutboxOK
<1>5. QueueIsExact'
  <2>1. Outboxed \cup Queued \cup settled = Told /\ Outboxed \cap Queued = {} /\ (Outboxed \cup Queued) \cap settled = {}
    BY Zenon DEF QueueOK, QueueIsExact, Told
  <2>2. Outboxed' \cup Queued' \cup settled' = Told'
    BY <1>1, <1>3, <2>1, Zenon
  <2>3. Outboxed' \cap Queued' = {} /\ (Outboxed' \cup Queued') \cap settled' = {}
    BY <1>1, <1>3, <2>1, Zenon
  <2>. QED
    BY <1>1, <2>2, <2>3, Zenon DEF QueueIsExact, Told
<1>. QED
  BY <1>1, <1>2, <1>4, <1>5, Zenon DEF QueueOK

-----------------------------------------------------------------------------
(* The active deliveries. *)

LEMMA FewerInTurn ==
    ASSUME NEW q, NEW A, NEW U, InTurn(q, A, U), NEW B \in SUBSET A, NEW V \in SUBSET U
    PROVE  InTurn(q, B, V)
<1>1. IsFiniteSet(B) /\ IsFiniteSet(V)
  BY FS_Subset, Zenon DEF InTurn
<1>. QED
  BY <1>1, Zenon DEF InTurn

LEMMA GrownInTurn ==
    ASSUME NEW q, NEW A, NEW U, InTurn(q, A, U),
           NEW p, DOMAIN q \subseteq DOMAIN p, \A x \in DOMAIN q : p[x] = q[x]
    PROVE  InTurn(p, A, U)
BY Zenon DEF InTurn

(* The queues p and q have the same deliveries, d left aside. *)
SameBut(p, q, d) == DOMAIN q \ {d} \subseteq DOMAIN p /\ \A x \in DOMAIN q \ {d} : p[x] = q[x]

(* The result of z, in flight or still to be written, is recorded. *)
LEMMA RecordedInTurn ==
    ASSUME NEW q, NEW A, NEW U, InTurn(q, A, U), NEW z \in A \cup U,
           NEW p, SameBut(p, q, z.delivery)
    PROVE  InTurn(p, A \ {z}, U \ {z}) /\ \A x \in (A \cup U) \ {z} : x.delivery # z.delivery
<1>1. IsFiniteSet(A \ {z}) /\ IsFiniteSet(U \ {z})
  <2>1. IsFiniteSet(A) /\ IsFiniteSet(U)
    BY Zenon DEF InTurn
  <2>2. A \ {z} \in SUBSET A /\ U \ {z} \in SUBSET U
    BY Zenon
  <2>. QED
    BY <2>1, <2>2, FS_Subset, Zenon
<1>2. \A x \in (A \cup U) \ {z} : x.delivery.target # z.delivery.target
  BY Zenon DEF InTurn
<1>3. \A x \in (A \cup U) \ {z} : x.delivery # z.delivery
  BY <1>2, Zenon
<1>4. InTurn(p, A \ {z}, U \ {z})
  <2>1. \A r \in A \ {z} : r.delivery \in DOMAIN p /\ r.attempts = p[r.delivery]
    BY <1>3, Zenon DEF InTurn, SameBut
  <2>2. \A u \in U \ {z} : u.delivery \in DOMAIN p /\ (u.status = "pending" => p[u.delivery] + 1 < MaxAttempts)
    BY <1>3, Zenon DEF InTurn, SameBut
  <2>. QED
    BY <1>1, <2>1, <2>2, Zenon DEF InTurn
<1>. QED
  BY <1>3, <1>4, Zenon

(* The result u of the delivery r in flight is held. *)
LEMMA HeldInTurn ==
    ASSUME NEW q, NEW A, NEW U, InTurn(q, A, U), NEW r \in A, NEW u, u.delivery = r.delivery,
           u.status = "pending" => q[r.delivery] + 1 < MaxAttempts
    PROVE  InTurn(q, A \ {r}, U \cup {u})
<1>1. IsFiniteSet(A \ {r}) /\ IsFiniteSet(U \cup {u})
  BY FS_Subset, FS_AddElement, Zenon DEF InTurn
<1>2. /\ \A x \in A \ {r} : x.delivery.target # u.delivery.target
      /\ \A x \in U : x.delivery.target # u.delivery.target
  BY Zenon DEF InTurn
<1>3. \A x \in U \cup {u} : x.delivery \in DOMAIN q /\ (x.status = "pending" => q[x.delivery] + 1 < MaxAttempts)
  BY Zenon DEF InTurn
<1>4. \A x, y \in U \cup {u} : x.delivery.target = y.delivery.target => x = y
  BY <1>2, Zenon DEF InTurn
<1>5. \A x \in A \ {r}, y \in U \cup {u} : x.delivery.target # y.delivery.target
  BY <1>2, Zenon DEF InTurn
<1>6. InTurn(q, A \ {r}, U \cup {u})
  <2>1. \A x \in A \ {r} : x.delivery \in DOMAIN q /\ x.attempts = q[x.delivery]
    BY Zenon DEF InTurn
  <2>2. \A x, y \in A \ {r} : x.delivery.target = y.delivery.target => x = y
    BY Zenon DEF InTurn
  <2>. QED
    BY <1>1, <1>3, <1>4, <1>5, <2>1, <2>2, Zenon DEF InTurn
<1>. QED
  BY <1>6, Zenon

(* Deliveries ds that the scan read, of targets that have none, are sent. *)
LEMMA StartedInTurn ==
    ASSUME NEW A, NEW U, InTurn(queue, A, U), NEW ds \in SUBSET Queued, IsFiniteSet(ds),
           \A d, f \in ds : d.target = f.target => d = f,
           \A d \in ds : \A x \in A \cup U : x.delivery.target # d.target
    PROVE  InTurn(queue, A \cup {Read(d) : d \in ds}, U)
<1>. DEFINE new == {Read(d) : d \in ds}
<1>1. \A d : Read(d).delivery = d /\ Read(d).attempts = queue[d]
  BY DEF Read
<1>2. IsFiniteSet(new)
  <2>. DEFINE f == [d \in ds |-> Read(d)]
  <2>1. f \in Surjection(ds, new)
    BY DEF Surjection
  <2>. HIDE DEF f
  <2>. QED
    BY <2>1, FS_Surjection, Zenon
<1>3. IsFiniteSet(A \cup new)
  BY <1>2, FS_Union, Zenon DEF InTurn
<1>4. \A x \in new : x.delivery \in ds /\ x = Read(x.delivery)
  BY <1>1
<1>5. \A d \in ds : Read(d) \in new
  BY Zenon
<1>. HIDE DEF new
<1>. DEFINE B == A \cup new
<1>6. \A x \in A \cup new : x.delivery \in DOMAIN queue /\ x.attempts = queue[x.delivery]
  BY <1>1, <1>4 DEF InTurn, Queued
<1>7. \A x, y \in A \cup new : x.delivery.target = y.delivery.target => x = y
  <2>1. ASSUME NEW x \in A \cup new, NEW y \in A \cup new, x.delivery.target = y.delivery.target PROVE x = y
    <3>1. CASE x \in A /\ y \in A
      BY <2>1, <3>1, Zenon DEF InTurn
    <3>2. CASE x \in A /\ y \in new
      BY <1>4, <2>1, <3>2, Zenon
    <3>3. CASE x \in new /\ y \in A
      BY <1>4, <2>1, <3>3, Zenon
    <3>4. CASE x \in new /\ y \in new
      BY <1>4, <2>1, <3>4, Zenon
    <3>. QED
      BY <3>1, <3>2, <3>3, <3>4, Zenon
  <2>. QED
    BY <2>1, Zenon
<1>8. \A x \in A \cup new, u \in U : x.delivery.target # u.delivery.target
  BY <1>4, Zenon DEF InTurn
<1>9. InTurn(queue, A \cup new, U)
  <2>1. /\ IsFiniteSet(U)
        /\ \A u \in U : u.delivery \in DOMAIN queue /\ (u.status = "pending" => queue[u.delivery] + 1 < MaxAttempts)
        /\ \A u, v \in U : u.delivery.target = v.delivery.target => u = v
    BY Zenon DEF InTurn
  <2>. HIDE DEF B
  <2>. QED
    BY <1>3, <1>6, <1>7, <1>8, <2>1, Zenon DEF InTurn, B
<1>. QED
  BY <1>9, Zenon DEF new

-----------------------------------------------------------------------------
(* The steps of the worker. *)

LEMMA ActiveAreQueued ==
    ASSUME ActiveOK PROVE Active \subseteq Queued
<1>1. \A x \in worker.inFlight \cup Unwritten : x.delivery \in Queued
  BY Zenon DEF ActiveOK, InTurn, Queued
<1>. QED
  BY <1>1, Zenon DEF Active, Named

(* A step that neither starts nor ends a delivery. *)
LEMMA WorkerMoves ==
    ASSUME HookInv, UNCHANGED <<mutation, outbox, queue, due, settled, sent>>,
           worker'.inFlight = worker.inFlight, Unwritten' = Unwritten, PlaceOK'
    PROVE  HookInv'
<1>1. QueueOK'
  <2>1. mutation' = mutation /\ mutation \in [Events -> {"new", "committed", "answered"}]
    BY Zenon DEF HookInv, QueueOK
  <2>. QED
    BY <2>1, QueueQuiet, Zenon DEF HookInv
<1>2. ActiveOK'
  BY Zenon DEF HookInv, ActiveOK
<1>3. Active' = Active
  BY Zenon DEF Active
<1>4. SentOK'
  BY <1>3, Zenon DEF HookInv, SentOK
<1>. QED
  BY <1>1, <1>2, <1>4, Zenon DEF HookInv

(* The result u of an active delivery is recorded. *)
LEMMA RecordedSent ==
    ASSUME HookInv, NEW u, u.delivery \in Queued, update_webhook_delivery(u), u.delivery \in Active,
           Active' = Active \ {u.delivery},
           u.status = "pending" => queue[u.delivery] + 1 < MaxAttempts
    PROVE  SentOK'
<1>. DEFINE d == u.delivery
            again == u.status = "pending"
<1>1. /\ queue \in [Queued -> Nat] /\ DOMAIN sent = Deliveries
      /\ due = {Deadline(x, queue[x]) : x \in Queued}
  BY Zenon DEF HookInv, QueueOK, QueueIsExact, SentOK, SentOnce
<1>2. /\ Queued' = IF again THEN Queued ELSE Queued \ {d}
      /\ \A x \in Queued' : queue'[x] = IF x = d THEN queue[d] + 1 ELSE queue[x]
      /\ DOMAIN sent' = Deliveries
      /\ \A x \in Deliveries : sent'[x] = IF x = d /\ ~again THEN 0 ELSE sent[x]
  BY <1>1, UpdateRecords, Zenon
<1>3. /\ \A x \in Queued : queue[x] < MaxAttempts
      /\ \A x \in Deliveries :
           sent[x] = IF x \in Active THEN queue[x] + 1 ELSE IF x \in Queued THEN queue[x] ELSE 0
  BY Zenon DEF HookInv, SentOK, SentOnce, Queued
<1>4. Active \subseteq Queued
  BY ActiveAreQueued, Zenon DEF HookInv
<1>5. \A x \in Queued' : queue'[x] < MaxAttempts
  <2>1. ASSUME NEW x \in Queued' PROVE queue'[x] < MaxAttempts
    <3>1. CASE x = d
      <4>1. again /\ queue'[x] = queue[d] + 1
        BY <1>2, <3>1, Zenon
      <4>. QED
        BY <4>1, Zenon
    <3>2. CASE x # d
      BY <1>2, <1>3, <3>2, Zenon
    <3>. QED
      BY <3>1, <3>2, Zenon
  <2>. QED
    BY <2>1, Zenon
<1>6. ASSUME NEW x \in Deliveries
      PROVE  sent'[x] = IF x \in Active' THEN queue'[x] + 1 ELSE IF x \in Queued' THEN queue'[x] ELSE 0
  <2>1. CASE x = d /\ again
    <3>1. x \notin Active' /\ x \in Queued' /\ queue'[x] = queue[d] + 1 /\ sent'[x] = sent[x]
      BY <1>2, <2>1, Zenon
    <3>2. sent[x] = queue[d] + 1
      BY <1>3, <2>1, Zenon
    <3>. QED
      BY <3>1, <3>2, Zenon
  <2>2. CASE x = d /\ ~again
    BY <1>2, <2>2, Zenon
  <2>3. CASE x # d
    <3>1. /\ x \in Active' <=> x \in Active
          /\ x \in Queued' <=> x \in Queued
          /\ sent'[x] = sent[x]
      BY <1>2, <2>3, Zenon
    <3>2. x \in Queued => queue'[x] = queue[x]
      BY <1>2, <2>3, <3>1, Zenon
    <3>. QED
      BY <1>3, <1>4, <3>1, <3>2, Zenon
  <2>. QED
    BY <2>1, <2>2, <2>3, Zenon
<1>. QED
  BY <1>2, <1>5, <1>6, Zenon DEF SentOK, SentOnce, Queued

LEMMA RecordedActive ==
    ASSUME ActiveOK, NEW z \in worker.inFlight \cup Unwritten, SameBut(queue', queue, z.delivery)
    PROVE  /\ InTurn(queue', worker.inFlight \ {z}, Unwritten \ {z})
           /\ \A x \in (worker.inFlight \cup Unwritten) \ {z} : x.delivery # z.delivery
BY RecordedInTurn DEF ActiveOK

(* The step that records the result u of z, which is then active no more. *)
LEMMA RecordedKeeps ==
    ASSUME HookInv, NEW z \in worker.inFlight \cup Unwritten, NEW u, u.delivery = z.delivery,
           update_webhook_delivery(u), u.status = "pending" => queue[u.delivery] + 1 < MaxAttempts,
           mutation' = mutation, outbox' = outbox, PlaceOK',
           worker'.inFlight = worker.inFlight \ {z}, Unwritten' = Unwritten \ {z}
    PROVE  HookInv'
<1>1. u.delivery \in Queued /\ u.delivery \in Active
  BY ActiveAreQueued, Zenon DEF HookInv, Active, Named
<1>2. QueueOK'
  BY <1>1, UpdateQueues, Zenon DEF HookInv, SentOK, SentOnce
<1>3. /\ queue \in [Queued -> Nat] /\ DOMAIN sent = Deliveries
      /\ due = {Deadline(x, queue[x]) : x \in Queued}
  BY Zenon DEF HookInv, QueueOK, QueueIsExact, SentOK, SentOnce
<1>4. /\ Queued' = IF u.status = "pending" THEN Queued ELSE Queued \ {u.delivery}
      /\ \A x \in Queued' : queue'[x] = IF x = u.delivery THEN queue[u.delivery] + 1 ELSE queue[x]
  BY <1>1, <1>3, UpdateRecords, Zenon
<1>5. SameBut(queue', queue, z.delivery)
  BY <1>4, Zenon DEF Queued, SameBut
<1>6. ActiveOK
  BY Zenon DEF HookInv
<1>7. InTurn(queue', worker.inFlight \ {z}, Unwritten \ {z})
      /\ \A x \in (worker.inFlight \cup Unwritten) \ {z} : x.delivery # z.delivery
  BY <1>5, <1>6, RecordedActive, Zenon
<1>8. ActiveOK' /\ Active' = Active \ {u.delivery}
  BY <1>7, Zenon DEF ActiveOK, Active, Named
<1>9. SentOK'
  BY <1>1, <1>8, RecordedSent, Zenon
<1>. QED
  BY <1>2, <1>8, <1>9, Zenon DEF HookInv

LEMMA RecoverKeeps ==
    ASSUME Configured, HookInv, Recover
    PROVE  HookInv'
<1>1. /\ worker.pc = "recover" /\ mutation' = mutation /\ UNCHANGED <<settled, sent>>
      /\ DOMAIN worker = WorkerFields /\ worker.inFlight = {} /\ worker.retried = {}
  BY DEF Recover, At, history, HookInv, PlaceOK
<1>2. CASE outbox # <<>> /\ FanOut /\ UNCHANGED <<worker, faults>>
  <2>1. QueueOK' /\ mutation' = mutation /\ settled' = settled /\ worker' = worker
    BY <1>1, <1>2, FanOutQueues, Zenon DEF HookInv
  <2>2. PICK d \in Outboxed : /\ Queued' = Queued \cup {d} /\ queue'[d] = 0
                              /\ \A x \in Queued : queue'[x] = queue[x]
    BY <1>1, <1>2, FanOutQueues, Zenon DEF HookInv
  <2>3. PlaceOK' /\ Active' = Active /\ Unwritten' = Unwritten
    BY <2>1, Zenon DEF HookInv, PlaceOK, Active, Unwritten
  <2>4. ActiveOK'
    <3>1. DOMAIN queue \subseteq DOMAIN queue' /\ \A x \in DOMAIN queue : queue'[x] = queue[x]
      BY <2>2, Zenon DEF Queued
    <3>2. InTurn(queue', worker.inFlight, Unwritten)
      BY <3>1, GrownInTurn, Zenon DEF HookInv, ActiveOK
    <3>. QED
      BY <2>1, <2>3, <3>2, Zenon DEF ActiveOK
  <2>5. d \notin Queued /\ d \notin Active
    <3>1. d \notin Queued
      BY Zenon DEF HookInv, QueueOK, QueueIsExact
    <3>. QED
      BY <3>1, ActiveAreQueued, Zenon DEF HookInv
  <2>6. SentOK'
    <3>1. /\ \A x \in Queued : queue[x] < MaxAttempts
          /\ DOMAIN sent = Deliveries
          /\ \A x \in Deliveries :
               sent[x] = IF x \in Active THEN queue[x] + 1 ELSE IF x \in Queued THEN queue[x] ELSE 0
      BY Zenon DEF HookInv, SentOK, SentOnce, Queued
    <3>2. 0 < MaxAttempts
      BY DEF Configured
    <3>3. \A x \in Queued' : queue'[x] < MaxAttempts
      BY <2>2, <3>1, <3>2, Zenon
    <3>4. ASSUME NEW x \in Deliveries
          PROVE  sent'[x] = IF x \in Active' THEN queue'[x] + 1 ELSE IF x \in Queued' THEN queue'[x] ELSE 0
      <4>1. sent'[x] = sent[x]
        BY <1>1, Zenon
      <4>2. CASE x = d
        BY <2>2, <2>3, <2>5, <3>1, <4>1, <4>2, Zenon
      <4>3. CASE x # d
        <5>1. (x \in Queued' <=> x \in Queued) /\ (x \in Queued => queue'[x] = queue[x])
          BY <2>2, <4>3, Zenon
        <5>2. x \in Active => x \in Queued
          BY ActiveAreQueued, Zenon DEF HookInv
        <5>. QED
          BY <2>3, <3>1, <4>1, <5>1, <5>2, Zenon
      <4>. QED
        BY <4>2, <4>3, Zenon
    <3>. QED
      BY <1>1, <3>1, <3>3, <3>4, Zenon DEF SentOK, SentOnce, Queued
  <2>. QED
    BY <2>1, <2>3, <2>4, <2>6, Zenon DEF HookInv
<1>3. CASE /\ worker' = [worker EXCEPT !.pc = "retry", !.retried = worker.held, !.held = {}, !.failed = FALSE]
           /\ UNCHANGED <<store, passed, faults>>
  <2>1. /\ DOMAIN worker' = WorkerFields /\ worker'.pc = "retry" /\ worker'.retried = worker.held
        /\ worker'.held = {} /\ worker'.inFlight = worker.inFlight
    BY <1>1, <1>3 DEF WorkerFields
  <2>2. PlaceOK'
    BY <1>1, <2>1 DEF PlaceOK, HookSteps
  <2>3. Unwritten' = Unwritten
    BY <1>1, <2>1, Zenon DEF Unwritten
  <2>4. UNCHANGED <<outbox, queue, due>>
    BY <1>3 DEF store
  <2>. QED
    BY <1>1, <2>1, <2>2, <2>3, <2>4, WorkerMoves, Zenon
<1>4. CASE Fault(Goto("backoff")) /\ UNCHANGED <<store, passed>>
  <2>1. /\ DOMAIN worker' = WorkerFields /\ worker'.pc = "backoff" /\ worker'.retried = worker.retried
        /\ worker'.held = worker.held /\ worker'.inFlight = worker.inFlight
    BY <1>1, <1>4 DEF Fault, Goto, WorkerFields
  <2>2. PlaceOK'
    BY <1>1, <2>1 DEF PlaceOK, HookSteps
  <2>3. Unwritten' = Unwritten
    BY <2>1, Zenon DEF Unwritten
  <2>4. UNCHANGED <<outbox, queue, due>>
    BY <1>4 DEF store
  <2>. QED
    BY <1>1, <2>1, <2>2, <2>3, <2>4, WorkerMoves, Zenon
<1>. QED
  BY <1>2, <1>3, <1>4, Zenon DEF Recover

LEMMA RetryKeeps ==
    ASSUME HookInv, retry_pending_updates
    PROVE  HookInv'
<1>1. /\ worker.pc = "retry" /\ DOMAIN worker = WorkerFields /\ worker.inFlight = {}
      /\ worker.held \cap worker.retried = {}
      /\ mutation' = mutation /\ outbox' = outbox
  BY DEF retry_pending_updates, At, HookInv, PlaceOK
<1>2. PICK u \in worker.retried :
        LET w == [worker EXCEPT !.retried = @ \ {u}]
        IN  \/ /\ update_webhook_delivery(u)
               /\ worker' = w
               /\ UNCHANGED faults
            \/ /\ Fault([w EXCEPT !.held = @ \cup {u}, !.failed = TRUE])
               /\ UNCHANGED <<queue, due, passed, history>>
  BY Zenon DEF retry_pending_updates
<1>3. u.delivery \in Queued /\ (u.status = "pending" => queue[u.delivery] + 1 < MaxAttempts) /\ u \in Unwritten
  BY Zenon DEF HookInv, ActiveOK, InTurn, Unwritten, Queued
<1>4. CASE update_webhook_delivery(u) /\ worker' = [worker EXCEPT !.retried = @ \ {u}]
  <2>1. /\ DOMAIN worker' = WorkerFields /\ worker'.pc = "retry" /\ worker'.retried = worker.retried \ {u}
        /\ worker'.held = worker.held /\ worker'.inFlight = {}
    BY <1>1, <1>4 DEF WorkerFields
  <2>2. PlaceOK'
    BY <1>1, <2>1 DEF PlaceOK, HookSteps
  <2>3. Unwritten' = Unwritten \ {u} /\ worker'.inFlight = worker.inFlight \ {u}
    BY <1>1, <2>1, Zenon DEF Unwritten
  <2>. QED
    BY <1>1, <1>3, <1>4, <2>2, <2>3, RecordedKeeps, Zenon
<1>5. CASE /\ worker' = [[worker EXCEPT !.retried = @ \ {u}] EXCEPT !.held = @ \cup {u}, !.failed = TRUE]
           /\ UNCHANGED <<queue, due, passed, history>>
  <2>1. /\ DOMAIN worker' = WorkerFields /\ worker'.pc = "retry" /\ worker'.retried = worker.retried \ {u}
        /\ worker'.held = worker.held \cup {u} /\ worker'.inFlight = worker.inFlight
    BY <1>1, <1>5 DEF WorkerFields
  <2>2. PlaceOK'
    BY <1>1, <2>1 DEF PlaceOK, HookSteps
  <2>3. Unwritten' = Unwritten
    BY <2>1, Zenon DEF Unwritten
  <2>4. UNCHANGED <<queue, due, settled, sent>>
    BY <1>5 DEF history
  <2>. QED
    BY <1>1, <2>1, <2>2, <2>3, <2>4, WorkerMoves, Zenon
<1>. QED
  BY <1>2, <1>4, <1>5, Zenon DEF Fault

LEMMA WorkerStill ==
    ASSUME HookInv, QueueOK', UNCHANGED <<worker, queue, sent>>
    PROVE  HookInv'
<1>1. PlaceOK' /\ Unwritten' = Unwritten /\ Active' = Active
  BY Zenon DEF HookInv, PlaceOK, Unwritten, Active
<1>2. ActiveOK' /\ SentOK'
  BY <1>1, Zenon DEF HookInv, ActiveOK, SentOK
<1>. QED
  BY <1>1, <1>2, Zenon DEF HookInv

LEMMA StartScanKeeps ==
    ASSUME HookInv, StartScan
    PROVE  HookInv'
<1>1. /\ worker.pc = "retry" /\ DOMAIN worker = WorkerFields /\ worker.inFlight = {} /\ worker.retried = {}
      /\ worker' = [worker EXCEPT !.pc = "scan", !.busy = BusyAtFirst, !.scanFailed = FALSE]
      /\ UNCHANGED <<mutation, outbox, queue, due, settled, sent>>
  BY DEF StartScan, At, HookInv, PlaceOK, store, history
<1>2. /\ DOMAIN worker' = WorkerFields /\ worker'.pc = "scan" /\ worker'.retried = worker.retried
      /\ worker'.held = worker.held /\ worker'.inFlight = worker.inFlight /\ worker'.busy = BusyAtFirst
  BY <1>1 DEF WorkerFields
<1>3. \A x \in worker.held : x.delivery.target \in BusyAtFirst
  BY Zenon DEF BusyAtFirst, Targets, Named
<1>4. PlaceOK'
  BY <1>1, <1>2, <1>3 DEF PlaceOK, HookSteps
<1>5. Unwritten' = Unwritten
  BY <1>2, Zenon DEF Unwritten
<1>. QED
  BY <1>1, <1>2, <1>4, <1>5, WorkerMoves, Zenon

(* The instance counts as the theorems on cardinalities do. *)
LEMMA SameCount == \A S : Cardinality(S) = Cardinality(S)
BY Zenon DEF Cardinality, Cardinality

(* As many targets as deliveries means a delivery per target. *)
LEMMA DistinctTargets ==
    ASSUME NEW ds, IsFiniteSet(ds)
    PROVE  Cardinality(Targets(ds)) = Cardinality(ds) <=> \A d, f \in ds : d.target = f.target => d = f
<1>. DEFINE to == [d \in ds |-> d.target]
<1>1. to \in Surjection(ds, Targets(ds))
  BY DEF Surjection, Targets
<1>2. \A d \in ds : to[d] = d.target
  BY Zenon
<1>. HIDE DEF to
<1>3. ASSUME Cardinality(Targets(ds)) = Cardinality(ds), NEW d \in ds, NEW f \in ds, d.target = f.target
      PROVE  d = f
  <2>1. to \in Injection(ds, Targets(ds))
    BY <1>1, <1>3, FS_SurjSameCardinalityImpliesInj, Zenon
  <2>. QED
    BY <1>2, <1>3, <2>1 DEF Injection, IsInjective
<1>4. ASSUME \A d, f \in ds : d.target = f.target => d = f
      PROVE  Cardinality(Targets(ds)) = Cardinality(ds)
  <2>1. to \in Injection(ds, Targets(ds))
    BY <1>1, <1>2, <1>4 DEF Injection, IsInjective, Surjection
  <2>2. to \in Bijection(ds, Targets(ds))
    BY <1>1, <2>1, Zenon DEF Bijection
  <2>3. ExistsBijection(ds, Targets(ds))
    BY <2>2, Zenon DEF ExistsBijection
  <2>. QED
    BY <2>3, FS_Bijection, Zenon
<1>. QED
  BY <1>3, <1>4, Zenon

LEMMA StartedActive ==
    ASSUME ActiveOK, NEW ds \in SUBSET Queued, IsFiniteSet(ds),
           \A d, f \in ds : d.target = f.target => d = f,
           \A d \in ds : \A x \in worker.inFlight \cup Unwritten : x.delivery.target # d.target
    PROVE  /\ InTurn(queue, worker.inFlight \cup {Read(d) : d \in ds}, Unwritten)
           /\ Named((worker.inFlight \cup {Read(d) : d \in ds}) \cup Unwritten) = Active \cup ds
<1>. DEFINE A == worker.inFlight
            U == Unwritten
<1>1. InTurn(queue, A, U) /\ \A d \in ds : \A x \in A \cup U : x.delivery.target # d.target
  BY Zenon DEF ActiveOK
<1>2. Active = Named(A \cup U)
  BY Zenon DEF Active
<1>. HIDE DEF A, U
<1>3. InTurn(queue, A \cup {Read(d) : d \in ds}, U)
  BY <1>1, StartedInTurn, Zenon
<1>4. Named((A \cup {Read(d) : d \in ds}) \cup U) = Named(A \cup U) \cup ds
  <2>1. Named((A \cup {Read(d) : d \in ds}) \cup U) = Named(A \cup U) \cup Named({Read(d) : d \in ds})
    BY Zenon DEF Named
  <2>2. Named({Read(d) : d \in ds}) = ds
    <3>1. \A d : Read(d).delivery = d
      BY DEF Read
    <3>2. ASSUME NEW d \in Named({Read(x) : x \in ds}) PROVE d \in ds
      <4>1. PICK x \in ds : d = Read(x).delivery
        BY Zenon DEF Named
      <4>. QED
        BY <3>1, <4>1, Zenon
    <3>3. ASSUME NEW d \in ds PROVE d \in Named({Read(x) : x \in ds})
      <4>1. Read(d).delivery \in Named({Read(x) : x \in ds})
        BY Zenon DEF Named
      <4>. QED
        BY <3>1, <4>1, Zenon
    <3>. QED
      BY <3>2, <3>3, Zenon
  <2>. QED
    BY <2>1, <2>2, Zenon
<1>. QED
  BY <1>2, <1>3, <1>4, Zenon DEF A, U

LEMMA ScanKeeps ==
    ASSUME HookInv, Scan
    PROVE  HookInv'
<1>1. /\ worker.pc = "scan" /\ DOMAIN worker = WorkerFields /\ worker.retried = {}
      /\ UNCHANGED <<mutation, outbox, queue, due, settled>>
      /\ \A x \in worker.inFlight \cup worker.held : x.delivery.target \in worker.busy
  BY Zenon DEF Scan, At, HookInv, PlaceOK, store
<1>2. ASSUME NEW ds \in SUBSET Ready, Scanned(ds),
             sent' = [d \in Deliveries |-> IF d \in ds THEN sent[d] + 1 ELSE sent[d]],
             worker' = [worker EXCEPT !.pc = IF ds = {} THEN "await" ELSE "scan",
                                      !.inFlight = @ \cup {Read(d) : d \in ds},
                                      !.busy = @ \cup Targets(ds)]
      PROVE  HookInv'
  <2>. DEFINE new == {Read(d) : d \in ds}
  <2>1. /\ DOMAIN worker' = WorkerFields /\ worker'.pc \in {"scan", "await"} /\ worker'.retried = {}
        /\ worker'.held = worker.held /\ worker'.inFlight = worker.inFlight \cup new
        /\ worker'.busy = worker.busy \cup Targets(ds)
    BY <1>1, <1>2 DEF WorkerFields
  <2>2. \A x \in new : x.delivery \in ds
    BY DEF Read
  <2>3. \A d \in ds : d \in Queued /\ d.target \notin worker.busy /\ d.target \in Targets(ds)
    BY Zenon DEF Ready, Targets
  <2>4. PlaceOK'
    <3>. HIDE DEF new
    <3>1. \A x \in worker'.inFlight \cup worker'.held : x.delivery.target \in worker'.busy
      BY <1>1, <2>1, <2>2, <2>3, Zenon
    <3>. QED
      BY <2>1, <3>1 DEF PlaceOK, HookSteps
  <2>5. IsFiniteSet(ds) /\ ds \in SUBSET Queued
    BY <2>3, FS_Subset, Zenon DEF HookInv, QueueOK
  <2>6. \A d, f \in ds : d.target = f.target => d = f
    <3>1. Cardinality(Targets(ds)) = Cardinality(ds)
      BY <1>2, SameCount, Zenon DEF Scanned
    <3>. QED
      BY <2>5, <3>1, DistinctTargets, Zenon
  <2>7. \A d \in ds : \A x \in worker.inFlight \cup Unwritten : x.delivery.target # d.target
    BY <1>1, <2>3, Zenon DEF Unwritten
  <2>8. /\ InTurn(queue, worker.inFlight \cup new, Unwritten)
        /\ Named((worker.inFlight \cup new) \cup Unwritten) = Active \cup ds
    BY <2>5, <2>6, <2>7, StartedActive, Zenon DEF HookInv
  <2>. HIDE DEF new
  <2>9. Unwritten' = Unwritten
    BY <1>1, <2>1, Zenon DEF Unwritten
  <2>10. ActiveOK' /\ Active' = Active \cup ds
    BY <1>1, <2>1, <2>8, <2>9, Zenon DEF ActiveOK, Active
  <2>11. \A d \in ds : d \notin Active
    BY <2>7, Zenon DEF Active, Named
  <2>12. SentOK'
    <3>1. /\ DOMAIN sent = Deliveries /\ \A x \in Queued : queue[x] < MaxAttempts
          /\ \A x \in Deliveries :
               sent[x] = IF x \in Active THEN queue[x] + 1 ELSE IF x \in Queued THEN queue[x] ELSE 0
      BY Zenon DEF HookInv, SentOK, SentOnce, Queued
    <3>2. ASSUME NEW x \in Deliveries
          PROVE  sent'[x] = IF x \in Active' THEN queue'[x] + 1 ELSE IF x \in Queued' THEN queue'[x] ELSE 0
      <4>1. sent'[x] = IF x \in ds THEN sent[x] + 1 ELSE sent[x]
        BY <1>2, Zenon
      <4>2. queue' = queue /\ Queued' = Queued
        BY <1>1, Zenon DEF Queued
      <4>3. CASE x \in ds
        BY <2>3, <2>10, <2>11, <3>1, <4>1, <4>2, <4>3, Zenon
      <4>4. CASE x \notin ds
        BY <2>10, <3>1, <4>1, <4>2, <4>4, Zenon
      <4>. QED
        BY <4>3, <4>4, Zenon
    <3>3. DOMAIN sent' = Deliveries
      BY <1>2, Zenon
    <3>. QED
      BY <1>1, <3>1, <3>2, <3>3, Zenon DEF SentOK, SentOnce, Queued
  <2>13. QueueOK'
    <3>1. mutation' = mutation /\ mutation \in [Events -> {"new", "committed", "answered"}]
      BY <1>1, Zenon DEF HookInv, QueueOK
    <3>. QED
      BY <1>1, <3>1, QueueQuiet, Zenon DEF HookInv
  <2>. QED
    BY <2>4, <2>10, <2>12, <2>13, Zenon DEF HookInv
<1>3. CASE /\ worker' = [worker EXCEPT !.pc = "await", !.failed = TRUE, !.scanFailed = TRUE]
           /\ UNCHANGED sent
  <2>1. /\ DOMAIN worker' = WorkerFields /\ worker'.pc = "await" /\ worker'.retried = worker.retried
        /\ worker'.held = worker.held /\ worker'.inFlight = worker.inFlight /\ worker'.busy = worker.busy
    BY <1>1, <1>3 DEF WorkerFields
  <2>2. PlaceOK'
    BY <1>1, <2>1 DEF PlaceOK, HookSteps
  <2>3. Unwritten' = Unwritten
    BY <2>1, Zenon DEF Unwritten
  <2>. QED
    BY <1>1, <1>3, <2>1, <2>2, <2>3, WorkerMoves, Zenon
<1>. QED
  BY <1>2, <1>3, Zenon DEF Scan, Fault

LEMMA HeldActive ==
    ASSUME ActiveOK, NEW r \in worker.inFlight, NEW u, u.delivery = r.delivery,
           u.status = "pending" => queue[r.delivery] + 1 < MaxAttempts
    PROVE  InTurn(queue, worker.inFlight \ {r}, Unwritten \cup {u})
BY HeldInTurn, Zenon DEF ActiveOK

LEMMA HeldNames ==
    ASSUME NEW r \in worker.inFlight, NEW u, u.delivery = r.delivery
    PROVE  Named((worker.inFlight \ {r}) \cup (Unwritten \cup {u})) = Active
<1>1. \A d : d \in Named((worker.inFlight \ {r}) \cup (Unwritten \cup {u})) <=> d \in Active
  BY DEF Named, Active
<1>. QED
  BY <1>1, Zenon

LEMMA FinishKeeps ==
    ASSUME HookInv, Finish
    PROVE  HookInv'
<1>1. /\ worker.pc = "await" /\ DOMAIN worker = WorkerFields /\ worker.retried = {}
      /\ mutation' = mutation /\ outbox' = outbox
      /\ \A x \in worker.inFlight \cup worker.held : x.delivery.target \in worker.busy
  BY Zenon DEF Finish, At, HookInv, PlaceOK
<1>2. PICK r \in worker.inFlight :
        \E status \in Outcomes(r) :
          LET u == Update(r.delivery, status)
              w == [worker EXCEPT !.pc = IF worker.scanFailed THEN "await" ELSE "scan", !.inFlight = @ \ {r}]
          IN  \/ /\ update_webhook_delivery(u)
                 /\ worker' = [w EXCEPT !.busy = @ \ {r.delivery.target}]
              \/ /\ worker' = [w EXCEPT !.held = @ \cup {u}, !.failed = TRUE]
                 /\ UNCHANGED <<queue, due, passed, history>>
  BY Zenon DEF Finish, Fault
<1>. SUFFICES ASSUME NEW status \in Outcomes(r),
          LET u == Update(r.delivery, status)
              w == [worker EXCEPT !.pc = IF worker.scanFailed THEN "await" ELSE "scan", !.inFlight = @ \ {r}]
          IN  \/ /\ update_webhook_delivery(u)
                 /\ worker' = [w EXCEPT !.busy = @ \ {r.delivery.target}]
              \/ /\ worker' = [w EXCEPT !.held = @ \cup {u}, !.failed = TRUE]
                 /\ UNCHANGED <<queue, due, passed, history>>
              PROVE  HookInv'
  BY <1>2, Zenon
<1>. DEFINE u == Update(r.delivery, status)
            to == IF worker.scanFailed THEN "await" ELSE "scan"
            w == [worker EXCEPT !.pc = to, !.inFlight = @ \ {r}]
<1>3. /\ DOMAIN w = WorkerFields /\ w.pc = to /\ w.inFlight = worker.inFlight \ {r}
      /\ w.held = worker.held /\ w.retried = {} /\ w.busy = worker.busy
  BY <1>1 DEF WorkerFields
<1>4. to \in {"scan", "await"}
  BY Zenon
<1>5. u.delivery = r.delivery /\ (u.status = "pending" => queue[r.delivery] + 1 < MaxAttempts)
  <2>1. u.delivery = r.delivery /\ u.status = status
    BY DEF Update
  <2>2. status = "pending" => r.attempts + 1 < MaxAttempts
    BY DEF Outcomes, record_failure
  <2>3. r.attempts = queue[r.delivery]
    BY Zenon DEF HookInv, ActiveOK, InTurn
  <2>. QED
    BY <2>1, <2>2, <2>3, Zenon
<1>6. /\ \A x \in worker.inFlight \ {r} : x.delivery.target # r.delivery.target
      /\ \A x \in Unwritten : x.delivery.target # r.delivery.target
  BY Zenon DEF HookInv, ActiveOK, InTurn
<1>. HIDE DEF u, w, to
<1>7. CASE update_webhook_delivery(u) /\ worker' = [w EXCEPT !.busy = @ \ {r.delivery.target}]
  <2>1. /\ DOMAIN worker' = WorkerFields /\ worker'.pc = to /\ worker'.inFlight = worker.inFlight \ {r}
        /\ worker'.held = worker.held /\ worker'.retried = {}
        /\ worker'.busy = worker.busy \ {r.delivery.target}
    BY <1>3, <1>7 DEF WorkerFields
  <2>2. PlaceOK'
    <3>1. \A x \in worker'.inFlight \cup worker'.held : x.delivery.target \in worker'.busy
      BY <1>1, <1>6, <2>1, Zenon DEF Unwritten
    <3>. QED
      BY <1>4, <2>1, <3>1 DEF PlaceOK, HookSteps
  <2>3. Unwritten' = Unwritten \ {r}
    <3>1. Unwritten' = Unwritten
      BY <1>1, <2>1, Zenon DEF Unwritten
    <3>2. r \notin Unwritten
      BY <1>6, Zenon
    <3>. QED
      BY <3>1, <3>2, Zenon
  <2>. QED
    BY <1>1, <1>5, <1>7, <2>1, <2>2, <2>3, RecordedKeeps, Zenon
<1>8. CASE /\ worker' = [w EXCEPT !.held = @ \cup {u}, !.failed = TRUE]
           /\ UNCHANGED <<queue, due, passed, history>>
  <2>1. /\ DOMAIN worker' = WorkerFields /\ worker'.pc = to /\ worker'.inFlight = worker.inFlight \ {r}
        /\ worker'.held = worker.held \cup {u} /\ worker'.retried = {} /\ worker'.busy = worker.busy
    BY <1>3, <1>8 DEF WorkerFields
  <2>2. PlaceOK'
    <3>1. \A x \in worker'.inFlight \cup worker'.held : x.delivery.target \in worker'.busy
      BY <1>1, <1>5, <2>1, Zenon
    <3>. QED
      BY <1>4, <2>1, <3>1 DEF PlaceOK, HookSteps
  <2>3. Unwritten' = Unwritten \cup {u}
    BY <1>1, <2>1, Zenon DEF Unwritten
  <2>4. UNCHANGED <<queue, due, settled, sent>>
    BY <1>8 DEF history
  <2>5. InTurn(queue, worker.inFlight \ {r}, Unwritten \cup {u})
    BY <1>5, HeldActive, Zenon DEF HookInv
  <2>6. Named((worker.inFlight \ {r}) \cup (Unwritten \cup {u})) = Active
    BY <1>5, HeldNames, Zenon
  <2>7. ActiveOK' /\ Active' = Active
    BY <2>1, <2>3, <2>4, <2>5, <2>6, Zenon DEF ActiveOK, Active
  <2>8. SentOK'
    BY <2>4, <2>7, Zenon DEF HookInv, SentOK
  <2>9. QueueOK'
    <3>1. mutation' = mutation /\ mutation \in [Events -> {"new", "committed", "answered"}]
      BY <1>1, Zenon DEF HookInv, QueueOK
    <3>. QED
      BY <1>1, <2>4, <3>1, QueueQuiet, Zenon DEF HookInv
  <2>. QED
    BY <2>2, <2>7, <2>8, <2>9, Zenon DEF HookInv
<1>. QED
  BY <1>7, <1>8, Zenon DEF u, w, to

(* The worker goes on afresh, with the results it holds. *)
LEMMA FreshKeeps ==
    ASSUME HookInv, worker.inFlight = {}, worker.pc # "retry",
           DOMAIN worker' = WorkerFields, worker'.pc \in {"recover", "next", "backoff"},
           worker'.inFlight = {}, worker'.held = worker.held, worker'.retried = {},
           UNCHANGED <<mutation, outbox, queue, due, settled, sent>>
    PROVE  HookInv'
<1>2. PlaceOK'
  BY DEF PlaceOK, HookSteps
<1>3. worker.retried = {}
  BY Zenon DEF HookInv, PlaceOK
<1>4. Unwritten' = Unwritten /\ worker'.inFlight = worker.inFlight
  BY <1>3, Zenon DEF Unwritten
<1>. QED
  BY <1>2, <1>4, WorkerMoves, Zenon

LEMMA EndDeliveryKeeps ==
    ASSUME HookInv, EndDelivery
    PROVE  HookInv'
<1>. DEFINE pc == IF worker.failed THEN "backoff" ELSE "next"
<1>1. /\ worker.pc = "await" /\ worker.inFlight = {}
      /\ worker' = [Fresh EXCEPT !.pc = pc, !.held = worker.held]
      /\ UNCHANGED <<mutation, outbox, queue, due, settled, sent>>
  BY Zenon DEF EndDelivery, At, store, history
<1>2. pc \in {"recover", "next", "backoff"}
  BY Zenon
<1>. HIDE DEF pc
<1>3. worker.pc # "retry"
  BY <1>1
<1>4. /\ DOMAIN worker' = WorkerFields /\ worker'.pc = pc /\ worker'.retried = {}
      /\ worker'.held = worker.held /\ worker'.inFlight = {}
  BY <1>1 DEF Fresh, WorkerFields
<1>. QED
  BY <1>1, <1>2, <1>3, <1>4, FreshKeeps, Zenon

LEMMA EnterWaitKeeps ==
    ASSUME HookInv, EnterWait
    PROVE  HookInv'
<1>1. /\ worker.pc = "next" /\ DOMAIN worker = WorkerFields /\ worker.inFlight = {} /\ worker.retried = {}
      /\ UNCHANGED <<mutation, outbox, queue, due, settled, sent>>
  BY Zenon DEF EnterWait, At, HookInv, PlaceOK, store, history
<1>2. \/ worker' = [worker EXCEPT !.pc = "wait", !.timed = due # {}]
      \/ worker' = [worker EXCEPT !.pc = "backoff"]
  BY Zenon DEF EnterWait, Fault, Goto
<1>3. /\ DOMAIN worker' = WorkerFields /\ worker'.pc \in {"wait", "backoff"} /\ worker'.retried = worker.retried
      /\ worker'.held = worker.held /\ worker'.inFlight = worker.inFlight
  BY <1>1, <1>2, Zenon DEF WorkerFields
<1>4. PlaceOK'
  BY <1>1, <1>3 DEF PlaceOK, HookSteps
<1>5. Unwritten' = Unwritten
  BY <1>3, Zenon DEF Unwritten
<1>. QED
  BY <1>1, <1>3, <1>4, <1>5, WorkerMoves, Zenon

LEMMA WakeKeeps ==
    ASSUME HookInv, Wake
    PROVE  HookInv'
<1>1. /\ worker.pc \in {"wait", "backoff"}
      /\ worker' = [Fresh EXCEPT !.held = worker.held]
      /\ UNCHANGED <<mutation, outbox, queue, due, settled, sent>>
  <2>1. worker.pc = "wait" \/ worker.pc = "backoff"
    BY Zenon DEF Wake, At
  <2>. QED
    BY <2>1, Zenon DEF Wake, store, history
<1>2. worker.inFlight = {} /\ worker.pc # "retry"
  BY <1>1 DEF HookInv, PlaceOK
<1>3. /\ DOMAIN worker' = WorkerFields /\ worker'.pc = "recover" /\ worker'.retried = {}
      /\ worker'.held = worker.held /\ worker'.inFlight = {}
  BY <1>1 DEF Fresh, WorkerFields
<1>. QED
  BY <1>1, <1>2, <1>3, FreshKeeps, Zenon

LEMMA CommitKeeps ==
    ASSUME Configured, HookInv, NEW e \in Events, CommitEvent(e)
    PROVE  HookInv'
<1>1. QueueOK'
  BY CommitQueues, Zenon DEF HookInv
<1>2. UNCHANGED <<worker, queue, sent>>
  BY DEF CommitEvent, history
<1>. QED
  BY <1>1, <1>2, WorkerStill, Zenon

LEMMA AnswerKeeps ==
    ASSUME HookInv, NEW e \in Events, Notify(e) \/ Leave(e)
    PROVE  HookInv'
<1>1. /\ mutation[e] = "committed" /\ mutation' = [mutation EXCEPT ![e] = "answered"]
      /\ UNCHANGED <<outbox, queue, due, settled, worker, sent>>
  BY DEF Notify, Leave, store, history
<1>2. mutation \in [Events -> {"new", "committed", "answered"}]
  BY Zenon DEF HookInv, QueueOK
<1>3. /\ mutation' \in [Events -> {"new", "committed", "answered"}]
      /\ \A x \in Events : mutation'[x] = "new" <=> mutation[x] = "new"
  BY <1>1, <1>2
<1>4. QueueOK'
  BY <1>1, <1>3, QueueQuiet, Zenon DEF HookInv
<1>. QED
  BY <1>1, <1>4, WorkerStill, Zenon

LEMMA PassKeeps ==
    ASSUME HookInv, Pass
    PROVE  HookInv'
<1>1. /\ UNCHANGED <<mutation, outbox, queue, due, settled, worker, sent>>
      /\ mutation \in [Events -> {"new", "committed", "answered"}]
  BY Zenon DEF Pass, store, history, HookInv, QueueOK
<1>2. QueueOK'
  BY <1>1, QueueQuiet, Zenon DEF HookInv
<1>. QED
  BY <1>1, <1>2, WorkerStill, Zenon

LEMMA RestartKeeps ==
    ASSUME HookInv, RestartProcess
    PROVE  HookInv'
<1>1. /\ worker' = Fresh
      /\ mutation' = [e \in Events |-> IF mutation[e] = "committed" THEN "answered" ELSE mutation[e]]
      /\ UNCHANGED <<outbox, queue, due, settled>>
  BY DEF RestartProcess, Fault, store
<1>2. mutation \in [Events -> {"new", "committed", "answered"}]
  BY Zenon DEF HookInv, QueueOK
<1>3. /\ mutation' \in [Events -> {"new", "committed", "answered"}]
      /\ \A x \in Events : mutation'[x] = "new" <=> mutation[x] = "new"
  BY <1>1, <1>2
<1>4. QueueOK'
  BY <1>1, <1>3, QueueQuiet, Zenon DEF HookInv
<1>5. /\ DOMAIN worker' = WorkerFields /\ worker'.pc = "recover" /\ worker'.retried = {}
      /\ worker'.held = {} /\ worker'.inFlight = {}
  BY <1>1 DEF Fresh, WorkerFields
<1>6. PlaceOK'
  BY <1>5 DEF PlaceOK, HookSteps
<1>7. Unwritten' = {} /\ Active' = {}
  BY <1>5, Zenon DEF Unwritten, Active, Named
<1>8. ActiveOK'
  <2>1. InTurn(queue, {}, {})
    <3>1. InTurn(queue, worker.inFlight, Unwritten)
      BY Zenon DEF HookInv, ActiveOK
    <3>. QED
      BY <3>1, FewerInTurn, Zenon
  <2>. QED
    BY <1>1, <1>5, <1>7, <2>1, Zenon DEF ActiveOK
<1>9. SentOK'
  <2>1. /\ \A x \in Queued : queue[x] < MaxAttempts
        /\ \A x \in Deliveries :
             sent[x] = IF x \in Active THEN queue[x] + 1 ELSE IF x \in Queued THEN queue[x] ELSE 0
    BY Zenon DEF HookInv, SentOK, SentOnce, Queued
  <2>2. /\ DOMAIN sent' = Deliveries
        /\ \A x \in Deliveries : sent'[x] = IF x \in Active THEN sent[x] - 1 ELSE sent[x]
    <3>1. worker.inFlight \cup worker.held \cup worker.retried = worker.inFlight \cup Unwritten
      BY Zenon DEF Unwritten
    <3>2. sent' = [d \in Deliveries |-> IF d \in Active THEN sent[d] - 1 ELSE sent[d]]
      BY <3>1, Zenon DEF RestartProcess, Active
    <3>. QED
      BY <3>2, Zenon
  <2>3. queue \in [Queued -> Nat] /\ Active \subseteq Queued
    BY ActiveAreQueued, Zenon DEF HookInv, QueueOK
  <2>4. ASSUME NEW x \in Deliveries
        PROVE  sent'[x] = IF x \in Active' THEN queue'[x] + 1 ELSE IF x \in Queued' THEN queue'[x] ELSE 0
    <3>1. Queued' = Queued /\ queue' = queue /\ x \notin Active'
      BY <1>1, <1>7, Zenon DEF Queued
    <3>2. CASE x \in Active
      <4>1. x \in Queued /\ queue[x] \in Nat /\ sent[x] = queue[x] + 1 /\ sent'[x] = sent[x] - 1
        BY <2>1, <2>2, <2>3, <3>2
      <4>2. sent'[x] = queue[x]
        BY <4>1
      <4>. QED
        BY <3>1, <4>1, <4>2, Zenon
    <3>3. CASE x \notin Active
      BY <2>1, <2>2, <3>1, <3>3, Zenon
    <3>. QED
      BY <3>2, <3>3, Zenon
  <2>. QED
    BY <1>1, <2>1, <2>2, <2>4, Zenon DEF SentOK, SentOnce, Queued
<1>. QED
  BY <1>4, <1>6, <1>8, <1>9, Zenon DEF HookInv

LEMMA HookInit ==
    ASSUME WebhookInit PROVE HookInv
<1>1. QueueOK
  <2>1. mutation \in [Events -> {"new", "committed", "answered"}] /\ \A e \in Events : mutation[e] = "new"
    BY DEF WebhookInit
  <2>2. Queued = {} /\ queue \in [Queued -> Nat] /\ IsFiniteSet(Queued)
    <3>1. Queued = {}
      BY DEF WebhookInit, Queued
    <3>2. queue \in [Queued -> Nat]
      BY DEF WebhookInit, Queued
    <3>. QED
      BY <3>1, <3>2, FS_EmptySet, Zenon
  <2>3. outbox \in Seq(OutboxRow) /\ DOMAIN outbox = {} /\ Range(outbox) = {}
    BY DEF WebhookInit, Range
  <2>4. OutboxOK
    BY <2>3, Zenon DEF OutboxOK
  <2>5. Outboxed = {} /\ settled = {} /\ due = {}
    BY <2>3, Zenon DEF WebhookInit, Outboxed
  <2>6. {x \in Events : mutation[x] # "new"} = {}
    BY <2>1, Zenon
  <2>7. QueueIsExact
    BY <2>2, <2>5, <2>6 DEF QueueIsExact
  <2>. QED
    BY <2>1, <2>2, <2>4, <2>7, Zenon DEF QueueOK
<1>2. /\ DOMAIN worker = WorkerFields /\ worker.pc = "recover" /\ worker.retried = {}
      /\ worker.held = {} /\ worker.inFlight = {}
  BY DEF WebhookInit, Fresh, WorkerFields
<1>3. PlaceOK
  BY <1>2 DEF PlaceOK, HookSteps
<1>4. Unwritten = {} /\ Active = {}
  BY <1>2, Zenon DEF Unwritten, Active, Named
<1>5. ActiveOK
  BY <1>2, <1>4, FS_EmptySet, Zenon DEF ActiveOK, InTurn
<1>6. SentOK
  <2>1. sent = [d \in Deliveries |-> 0] /\ DOMAIN queue = {}
    BY DEF WebhookInit
  <2>. QED
    BY <1>4, <2>1, Zenon DEF SentOK, SentOnce
<1>. QED
  BY <1>1, <1>3, <1>5, <1>6, Zenon DEF HookInv

LEMMA HookNext ==
    ASSUME Configured, HookInv, [WebhookNext]_webhookVars
    PROVE  HookInv'
<1>1. CASE \E e \in Events : CommitEvent(e) \/ Notify(e) \/ Leave(e)
  BY <1>1, CommitKeeps, AnswerKeeps, Zenon
<1>2. CASE Work
  BY <1>2, RecoverKeeps, RetryKeeps, StartScanKeeps, ScanKeeps, FinishKeeps, EndDeliveryKeeps,
     EnterWaitKeeps, WakeKeeps, Zenon DEF Work
<1>3. CASE Pass \/ RestartProcess
  BY <1>3, PassKeeps, RestartKeeps, Zenon
<1>4. CASE UNCHANGED webhookVars
  <2>1. UNCHANGED <<mutation, outbox, queue, due, settled, worker, sent>>
    BY <1>4 DEF webhookVars
  <2>2. QueueOK'
    <3>1. mutation \in [Events -> {"new", "committed", "answered"}]
      BY Zenon DEF HookInv, QueueOK
    <3>. QED
      BY <2>1, <3>1, QueueQuiet, Zenon DEF HookInv
  <2>. QED
    BY <2>1, <2>2, WorkerStill, Zenon
<1>. QED
  BY <1>1, <1>2, <1>3, <1>4, Zenon DEF WebhookNext

LEMMA HookInTurn ==
    ASSUME HookInv PROVE TargetsInTurn
<1>. DEFINE S == worker.inFlight \cup Unwritten
            active == Named(worker.inFlight) \cup Named(worker.held \cup worker.retried)
<1>1. active = Active
  BY Zenon DEF Active, Unwritten, Named
<1>2. /\ \A r, s \in worker.inFlight : r.delivery.target = s.delivery.target => r = s
      /\ \A u, v \in Unwritten : u.delivery.target = v.delivery.target => u = v
      /\ \A r \in worker.inFlight, u \in Unwritten : r.delivery.target # u.delivery.target
  BY Zenon DEF HookInv, ActiveOK, InTurn
<1>3. \A x, y \in S : x.delivery.target = y.delivery.target => x = y
  BY <1>2, Zenon
<1>4. \A d, f \in Active : d.target = f.target => d = f
  <2>1. ASSUME NEW d \in Active, NEW f \in Active, d.target = f.target PROVE d = f
    <3>1. PICK x \in S : d = x.delivery
      BY Zenon DEF Active, Named
    <3>2. PICK y \in S : f = y.delivery
      BY Zenon DEF Active, Named
    <3>. QED
      BY <1>3, <2>1, <3>1, <3>2, Zenon
  <2>. QED
    BY <2>1, Zenon
<1>5. IsFiniteSet(Active)
  BY ActiveAreQueued, FS_Subset, Zenon DEF HookInv, QueueOK
<1>6. Cardinality(Targets(Active)) = Cardinality(Active)
  BY <1>4, <1>5, DistinctTargets, Zenon
<1>7. Named(worker.inFlight) \cap Named(worker.held \cup worker.retried) = {}
  <2>1. ASSUME NEW d \in Named(worker.inFlight), d \in Named(Unwritten) PROVE FALSE
    <3>1. PICK r \in worker.inFlight : d = r.delivery
      BY Zenon DEF Named
    <3>2. PICK u \in Unwritten : d = u.delivery
      BY <2>1, Zenon DEF Named
    <3>. QED
      BY <1>2, <3>1, <3>2, Zenon
  <2>. QED
    BY <2>1, Zenon DEF Unwritten
<1>. HIDE DEF active
<1>8. Cardinality(Targets(active)) = Cardinality(active)
  BY <1>1, <1>6, Zenon
<1>. QED
  BY <1>7, <1>8, SameCount, Zenon DEF TargetsInTurn, active

LEMMA HookBounded ==
    ASSUME Configured, HookInv PROVE AttemptsBounded
<1>1. ASSUME NEW d \in Deliveries PROVE sent[d] <= MaxAttempts
  <2>1. /\ \A x \in Queued : queue[x] < MaxAttempts
        /\ sent[d] = IF d \in Active THEN queue[d] + 1 ELSE IF d \in Queued THEN queue[d] ELSE 0
    BY Zenon DEF HookInv, SentOK, SentOnce, Queued
  <2>2. queue \in [Queued -> Nat] /\ Active \subseteq Queued
    BY ActiveAreQueued, Zenon DEF HookInv, QueueOK
  <2>3. d \in Queued => queue[d] \in Nat /\ queue[d] < MaxAttempts
    BY <2>1, <2>2
  <2>4. d \in Active => d \in Queued
    BY <2>2, Zenon
  <2>. HIDE DEF Queued, Active
  <2>. QED
    BY <2>1, <2>3, <2>4 DEF Configured
<1>. QED
  BY <1>1, Zenon DEF AttemptsBounded

(* What holds of the deliveries and of the worker in every state: where a  *)
(* delivery is, whom the worker is telling, what it has a result of and    *)
(* how often each delivery was sent.                                       *)
THEOREM HookSafe == WebhookSpec => []HookInv
<1>1. WebhookInit => HookInv
  BY HookInit, WebhookAssumption, Zenon
<1>2. HookInv /\ [WebhookNext]_webhookVars => HookInv'
  BY HookNext, WebhookAssumption, Zenon
<1>. QED
  BY <1>1, <1>2, PTL DEF WebhookSpec

(* However many events, targets, failures and restarts there are, every    *)
(* delivery of a committed event is in the outbox, queued or settled, in   *)
(* one of them only, and a queued one has its deadline and no other        *)
(* (enqueue_next_webhook_event_delivery, update_webhook_delivery).         *)
THEOREM DeliveriesExact == WebhookSpec => []QueueIsExact
<1>1. HookInv => QueueIsExact
  BY Zenon DEF HookInv, QueueOK
<1>. QED
  BY <1>1, HookSafe, PTL

(* A target has one delivery at a time, in flight or with a result the     *)
(* store did not take yet (deliver_due, busy and pending_updates).         *)
THEOREM DeliveriesInTurn == WebhookSpec => []TargetsInTurn
<1>1. HookInv => TargetsInTurn
  BY HookInTurn, WebhookAssumption, Zenon
<1>. QED
  BY <1>1, HookSafe, PTL

(* A delivery is sent MAX_ATTEMPTS times at most (record_failure,          *)
(* retry_pending_updates).                                                 *)
THEOREM DeliveriesBounded == WebhookSpec => []AttemptsBounded
<1>1. HookInv => AttemptsBounded
  BY HookBounded, WebhookAssumption, Zenon
<1>. QED
  BY <1>1, HookSafe, PTL
=============================================================================
