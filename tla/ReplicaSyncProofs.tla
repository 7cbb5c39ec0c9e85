-------------------------- MODULE ReplicaSyncProofs --------------------------
(***************************************************************************)
(* Proofs about ReplicaSync, for histories of any length, any set of       *)
(* peers, pages of any size and any number of checkpoints and faults.      *)
(***************************************************************************)
EXTENDS ReplicaSync, WellFoundedInduction, TLAPS

(* The writer's rows after its first n changes. *)
Fold(n) == Applied(Empty, 1..n)

MemberType == [frontier : Nat, health : {"ready", "below", "waiting", "retired"}, due : BOOLEAN]
ReplyType == [kind : {"none", "asked", "unsynced", "below", "page", "lost"}, page : SUBSET Nat]
RoundType == [answered : BOOLEAN, failed : BOOLEAN, at : Nat \ {0}, evidence : SUBSET Nat]

Types ==
    /\ head \in Nat
    /\ published.serial \in 0..head
    /\ relay \in [serial : Nat, floor : Nat \ {0}] /\ relay.serial <= head
    /\ serial \in Nat /\ floor \in Nat
    /\ recovery \in [serial : Nat, left : SUBSET Nat]
    /\ views \in [search : Nat, blob : Nat]
    /\ members \in [Peers -> MemberType]
    /\ replies \in [Peers -> ReplyType]
    /\ round \in RoundType

(* A page holds changes the writer made. *)
PagesOK == \A p \in Peers : \A i \in replies[p].page : i \in 1..head

(* What a transfer stages is a state the writer had. *)
StagedOK == pc = "stage" => staged.manifest.serial \in Nat /\ staged.manifest.rows = Fold(staged.manifest.serial)

Backed == {0} \cup blobs \cup proved

(* Where no checkpoint's blobs are being looked for, the blob view has     *)
(* seen all that is below the journal, and the blob of every row up to it  *)
(* is backed.                                                              *)
SettledOK ==
    /\ floor <= views.blob + 1
    /\ \A k \in Keys : rows[k] \in Backed \/ rows[k] > views.blob

(* While they are, the view stays one short of the checkpoint, and what is *)
(* not backed is still to look for or came after it.                       *)
RecoveringOK ==
    /\ 0 \notin recovery.left
    /\ recovery.serial <= serial /\ floor = recovery.serial + 1
    /\ views.blob = IF recovery.serial = 0 THEN 0 ELSE recovery.serial - 1
    /\ \A k \in Keys : rows[k] \in Backed \cup recovery.left \/ rows[k] > recovery.serial

BlobsOK ==
    /\ views.blob <= serial
    /\ IF recovery = NoRecovery THEN SettledOK ELSE RecoveringOK

CycleOK ==
    /\ pc \in {"rebuild", "advance"} => recovery # NoRecovery /\ recovery.left \subseteq blobs
    /\ pc = "frontier" => recovery = NoRecovery
    /\ round.evidence \subseteq proved

IInv == Types /\ PagesOK /\ StateIsFold /\ StagedOK /\ BlobsOK /\ CycleOK

-----------------------------------------------------------------------------
(* Maxima and minima of bounded sets of serials.                           *)

LEMMA MaxIs ==
    ASSUME NEW S \in SUBSET Nat, NEW x \in S, \A y \in S : y <= x
    PROVE  Max(S) = x
<1>1. \A z \in S : (\A y \in S : z >= y) => z = x
  OBVIOUS
<1>2. \A y \in S : x >= y
  OBVIOUS
<1> QED
  BY <1>1, <1>2, Zenon DEF Max

LEMMA MinIs ==
    ASSUME NEW S \in SUBSET Nat, NEW x \in S, \A y \in S : x <= y
    PROVE  Min(S) = x
<1>1. \A z \in S : (\A y \in S : z <= y) => z = x
  OBVIOUS
<1> QED
  BY <1>1, Zenon DEF Min

LEMMA MinOf ==
    ASSUME NEW S \in SUBSET Nat, S # {}
    PROVE  Min(S) \in S /\ \A y \in S : Min(S) <= y
<1>1. PICK x \in S : \A y \in S : ~(<<y, x>> \in OpToRel(<, Nat))
  BY NatLessThanWellFounded, WFMin, ZenonT(60), Zenon
<1>2. \A y \in S : x <= y
  <2> TAKE y \in S
  <2>1. x \in Nat /\ y \in Nat
    OBVIOUS
  <2>2. ~(y < x)
    BY <2>1, <1>1, Zenon DEF OpToRel
  <2> QED
    BY <2>1, <2>2, SMTT(30), Zenon
<1>3. Min(S) = x
  BY <1>2, MinIs, Zenon
<1> QED
  BY <1>2, <1>3, Zenon

LEMMA MaxOf ==
    ASSUME NEW n \in Nat, NEW S \in SUBSET Nat, S # {}, \A y \in S : y <= n
    PROVE  Max(S) \in S /\ \A y \in S : y <= Max(S)
<1> DEFINE T == {n - x : x \in S}
<1>1. \A x \in S : n - x \in Nat
  OBVIOUS
<1>2. T \in SUBSET Nat /\ T # {}
  BY <1>1, Zenon
<1>3. PICK t \in T : \A u \in T : ~(<<u, t>> \in OpToRel(<, Nat))
  BY <1>2, NatLessThanWellFounded, WFMin, Zenon
<1>4. PICK x \in S : t = n - x
  BY <1>3, Zenon
<1>5. \A y \in S : y <= x
  <2> TAKE y \in S
  <2>1. n - y \in T /\ n - y \in Nat /\ t \in Nat
    BY <1>1, <1>2, SMTT(30), Zenon
  <2>2. ~(n - y < t)
    BY <2>1, <1>3, Zenon DEF OpToRel
  <2> QED
    BY <2>2, <1>4
<1>6. Max(S) = x
  BY <1>5, MaxIs, Zenon
<1> QED
  BY <1>5, <1>6, Zenon

LEMMA MaxOfTwo ==
    ASSUME NEW x \in Nat, NEW y \in Nat
    PROVE  Max({x, y}) = IF x <= y THEN y ELSE x
<1>1. {x, y} \in SUBSET Nat
  OBVIOUS
<1>2. CASE x <= y
  <2>1. \A z \in {x, y} : z <= y
    BY <1>2
  <2> QED
    BY <1>1, <1>2, <2>1, MaxIs, SMTT(30), Zenon
<1>3. CASE ~(x <= y)
  <2>1. \A z \in {x, y} : z <= x
    BY <1>3
  <2> QED
    BY <1>1, <1>3, <2>1, MaxIs, SMTT(30), Zenon
<1> QED
  BY <1>2, <1>3, Zenon

-----------------------------------------------------------------------------
(* The rows after a prefix of the history.                                 *)

(* The changes of row k among the first n, and the row before them. *)
Changes(n, k) == {0} \cup {i \in 1..n : History[i] = k}

LEMMA FoldIs ==
    ASSUME NEW n \in Nat, NEW k \in Keys
    PROVE  /\ Fold(n)[k] = Max(Changes(n, k))
           /\ Fold(n)[k] \in Changes(n, k) /\ \A i \in Changes(n, k) : i <= Fold(n)[k]
<1>1. Fold(n)[k] = Max(Changes(n, k))
  BY Zenon DEF Fold, Applied, Empty, Changes
<1>2. \A i \in Changes(n, k) : i \in Nat /\ i <= n
  BY DEF Changes
<1>3. Changes(n, k) \in SUBSET Nat /\ Changes(n, k) # {}
  BY <1>2, Zenon DEF Changes
<1> QED
  BY <1>1, <1>2, <1>3, MaxOf, Zenon

LEMMA FoldType ==
    ASSUME NEW n \in Nat
    PROVE  Fold(n) \in [Keys -> Nat] /\ \A k \in Keys : Fold(n)[k] \in 0..n
<1>1. \A k \in Keys : Fold(n)[k] \in 0..n
  <2> TAKE k \in Keys
  <2>1. Fold(n)[k] \in Changes(n, k)
    BY FoldIs, Zenon
  <2> QED
    BY <2>1 DEF Changes
<1>2. Fold(n) = [k \in Keys |-> Fold(n)[k]]
  BY Zenon DEF Fold, Applied
<1>3. \A k \in Keys : Fold(n)[k] \in Nat
  BY <1>1
<1> QED
  BY <1>1, <1>2, <1>3, SMTT(30), Zenon

(* Applying what follows a prefix, in order and without a gap, gives the   *)
(* longer prefix; a row it changes carries one of the new serials.         *)
LEMMA FoldOnward ==
    ASSUME NEW n \in Nat, NEW m \in Nat, n <= m
    PROVE  /\ Applied(Fold(n), (n + 1)..m) = Fold(m)
           /\ \A k \in Keys : Fold(m)[k] = Fold(n)[k] \/ Fold(m)[k] > n
<1>1. ASSUME NEW k \in Keys
      PROVE  /\ Applied(Fold(n), (n + 1)..m)[k] = Fold(m)[k]
             /\ Fold(m)[k] = Fold(n)[k] \/ Fold(m)[k] > n
  <2> DEFINE a == Fold(n)[k]
             B == {a} \cup {i \in (n + 1)..m : History[i] = k}
  <2>1. Applied(Fold(n), (n + 1)..m)[k] = Max(B)
    BY Zenon DEF Applied
  <2>2. a \in Changes(n, k) /\ (\A i \in Changes(n, k) : i <= a) /\ a \in 0..n
    BY FoldIs, FoldType, Zenon
  <2> HIDE DEF a
  <2>3. \A i \in B : i \in Nat /\ i <= m
    BY <2>2
  <2>4. B \in SUBSET Nat /\ B # {}
    BY <2>3, Zenon
  <2>5. Max(B) \in B /\ \A i \in B : i <= Max(B)
    BY <2>3, <2>4, MaxOf, Zenon
  <2>6. Max(B) \in Changes(m, k)
    BY <2>2, <2>5 DEF Changes
  <2>7. \A i \in Changes(m, k) : i <= Max(B)
    <3> TAKE i \in Changes(m, k)
    <3>1. CASE i \in Changes(n, k)
      <4>1. i <= a /\ a \in B /\ i \in Nat
        BY <3>1, <2>2, SMTT(30), Zenon DEF Changes
      <4>2. a <= Max(B) /\ Max(B) \in Nat /\ a \in Nat
        BY <4>1, <2>3, <2>5, SMTT(30), Zenon
      <4> HIDE DEF B
      <4> QED
        BY <4>1, <4>2, SMTT(30), Zenon
    <3>2. CASE i \notin Changes(n, k)
      <4>1. i \in B
        BY <3>2 DEF Changes
      <4> QED
        BY <4>1, <2>5, SMTT(30), Zenon
    <3> QED
      BY <3>1, <3>2, SMTT(30), Zenon
  <2>8. Changes(m, k) \in SUBSET Nat
    BY DEF Changes
  <2>9. Fold(m)[k] = Max(B)
    BY <2>6, <2>7, <2>8, FoldIs, MaxIs, Zenon
  <2>10. Max(B) = a \/ Max(B) > n
    BY <2>5
  <2> QED
    BY <2>1, <2>9, <2>10, SMTT(30), Zenon DEF a
<1>2. Applied(Fold(n), (n + 1)..m) = [k \in Keys |-> Applied(Fold(n), (n + 1)..m)[k]]
  BY Zenon DEF Applied
<1>3. Fold(m) = [k \in Keys |-> Fold(m)[k]]
  BY Zenon DEF Applied, Fold
<1>4. [k \in Keys |-> Applied(Fold(n), (n + 1)..m)[k]] = [k \in Keys |-> Fold(m)[k]]
  BY <1>1, Zenon
<1> QED
  BY <1>1, <1>2, <1>3, <1>4, SMTT(30), Zenon

-----------------------------------------------------------------------------
(* The initial state, and steps away from the replica's store.             *)

(* The values a cycle starts from. *)
LEMMA Blanks ==
    /\ Idle \in RoundType /\ Idle.evidence = {}
    /\ NoReply \in ReplyType /\ NoReply.page = {}
    /\ NoRecovery \in [serial : Nat, left : SUBSET Nat]
    /\ \A n \in Nat : Joined(n) \in [Peers -> MemberType]
<1>1. Idle \in RoundType
  <2>1. FALSE \in BOOLEAN /\ 1 \in Nat \ {0} /\ {} \in SUBSET Nat
    OBVIOUS
  <2> QED
    BY <2>1, Zenon DEF Idle, RoundType
<1>2. \A n \in Nat : Joined(n) \in [Peers -> MemberType]
  <2> TAKE n \in Nat
  <2>1. TRUE \in BOOLEAN /\ "ready" \in {"ready", "below", "waiting", "retired"}
    OBVIOUS
  <2>2. [frontier |-> n, health |-> "ready", due |-> TRUE] \in MemberType
    BY <2>1, Zenon DEF MemberType
  <2> QED
    BY <2>2, Zenon DEF Joined
<1> QED
  BY <1>1, <1>2 DEF Idle, NoReply, ReplyType, NoRecovery

LEMMA FoldOfNone == Fold(0) = Empty
<1>1. \A k \in Keys : Fold(0)[k] = Empty[k]
  <2> TAKE k \in Keys
  <2>1. Fold(0)[k] \in 0..0
    BY FoldType, Zenon
  <2> QED
    BY <2>1 DEF Empty
<1>2. Fold(0) = [k \in Keys |-> Fold(0)[k]] /\ Empty = [k \in Keys |-> Empty[k]]
  BY Zenon DEF Fold, Applied, Empty
<1>3. [k \in Keys |-> Fold(0)[k]] = [k \in Keys |-> Empty[k]]
  BY <1>1, Zenon
<1> QED
  BY <1>2, <1>3, Zenon

LEMMA InitHolds == Init => IInv
<1> SUFFICES ASSUME Init PROVE IInv
  OBVIOUS
<1>1. published.serial = 0 /\ published.rows = Empty
  BY Zenon DEF Init, None
<1>2. Types
  <2>1. members \in [Peers -> MemberType] /\ replies \in [Peers -> ReplyType] /\ round \in RoundType
    BY Blanks, Zenon DEF Init
  <2>2. recovery \in [serial : Nat, left : SUBSET Nat]
    BY Blanks, Zenon DEF Init
  <2>3. /\ head \in Nat /\ published.serial \in 0..head
        /\ relay \in [serial : Nat, floor : Nat \ {0}] /\ relay.serial <= head
        /\ serial \in Nat /\ floor \in Nat /\ views \in [search : Nat, blob : Nat]
    BY <1>1 DEF Init
  <2> QED
    BY <2>1, <2>2, <2>3, SMTT(30), Zenon DEF Types
<1>3. PagesOK
  BY Blanks, Zenon DEF Init, PagesOK
<1>4. StateIsFold
  BY <1>1, FoldOfNone, SMTT(30), Zenon DEF Init, StateIsFold, Fold
<1>5. StagedOK
  BY Zenon DEF Init, StagedOK
<1>6. BlobsOK
  BY DEF Init, BlobsOK, SettledOK, Backed, Empty
<1>7. CycleOK
  BY Blanks, SMTT(30), Zenon DEF Init, CycleOK
<1> QED
  BY <1>2, <1>3, <1>4, <1>5, <1>6, <1>7, SMTT(30), Zenon DEF IInv

(* Blobs are added and nothing else of the store moves. *)
LEMMA StoreKept ==
    ASSUME BlobsOK, UNCHANGED <<rows, serial, floor, recovery>>, views'.blob = views.blob,
           blobs \subseteq blobs', proved \subseteq proved'
    PROVE  BlobsOK'
BY Zenon DEF BlobsOK, SettledOK, RecoveringOK, Backed

(* A step of the writer or the relay. *)
LEMMA WriterStep ==
    ASSUME IInv, UNCHANGED <<storeVars, cycleVars, proved>>,
           head' \in Nat, head <= head', published'.serial \in 0..head',
           published'.rows = Fold(published'.serial),
           relay' \in [serial : Nat, floor : Nat \ {0}], relay'.serial <= head'
    PROVE  IInv'
<1> USE DEF IInv, storeVars, cycleVars
<1>1. Types'
  BY Zenon DEF Types
<1>2. PagesOK'
  BY DEF PagesOK, Types
<1>3. StateIsFold'
  BY Zenon DEF StateIsFold, Fold
<1>4. StagedOK'
  BY Zenon DEF StagedOK
<1>5. BlobsOK'
  BY StoreKept, Zenon
<1>6. CycleOK'
  BY Zenon DEF CycleOK
<1> QED
  BY <1>1, <1>2, <1>3, <1>4, <1>5, <1>6, SMTT(30), Zenon

LEMMA WriteHolds == ASSUME IInv, Write PROVE IInv'
<1>1. /\ head' = head + 1 /\ UNCHANGED <<published, relay, storeVars, cycleVars, proved>>
  BY Zenon DEF Write
<1>2. published.rows = Fold(published.serial)
  BY Zenon DEF IInv, StateIsFold, Fold
<1> QED
  BY <1>1, <1>2, WriterStep, SMTT(30), Zenon DEF IInv, Types

(* The journal after the last checkpoint is folded onto it. *)
LEMMA PublishHolds == ASSUME IInv, publish_checkpoint PROVE IInv'
<1>1. /\ published' = [serial |-> head, generation |-> published.generation + 1,
                       rows |-> Applied(published.rows, (published.serial + 1)..head)]
      /\ UNCHANGED <<head, relay, storeVars, cycleVars, proved>>
  BY Zenon DEF publish_checkpoint
<1>2. published.serial \in Nat /\ head \in Nat /\ published.serial <= head
  BY DEF IInv, Types
<1>3. published.rows = Fold(published.serial)
  BY Zenon DEF IInv, StateIsFold, Fold
<1>4. published'.serial = head /\ published'.rows = Fold(head)
  BY <1>1, <1>2, <1>3, FoldOnward, SMTT(30), Zenon
<1> QED
  BY <1>1, <1>2, <1>4, WriterStep, SMTT(30), Zenon DEF IInv, Types

LEMMA PinHolds == ASSUME IInv, PinLapses PROVE IInv'
<1>1. UNCHANGED <<head, published, relay, storeVars, cycleVars, proved>>
  BY Zenon DEF PinLapses
<1>2. published.rows = Fold(published.serial)
  BY Zenon DEF IInv, StateIsFold, Fold
<1> QED
  BY <1>1, <1>2, WriterStep, SMTT(30), Zenon DEF IInv, Types

LEMMA RelayHolds == ASSUME IInv, RelayFollows PROVE IInv'
<1>1. UNCHANGED <<head, published, storeVars, cycleVars, proved>>
  BY Zenon DEF RelayFollows
<1>2. published.rows = Fold(published.serial)
  BY Zenon DEF IInv, StateIsFold, Fold
<1>3. relay' \in [serial : Nat, floor : Nat \ {0}] /\ relay'.serial <= head
  <2>1. /\ head \in Nat /\ published.serial \in 0..head
        /\ relay \in [serial : Nat, floor : Nat \ {0}]
    BY Zenon DEF IInv, Types
  <2>2. CASE relay' = [serial |-> published.serial, floor |-> published.serial + 1]
    BY <2>1, <2>2
  <2>3. CASE relay.serial < head /\ relay' = [relay EXCEPT !.serial = @ + 1]
    BY <2>1, <2>3
  <2> QED
    BY <2>2, <2>3, Zenon DEF RelayFollows
<1> QED
  BY <1>1, <1>2, <1>3, WriterStep DEF IInv, Types

-----------------------------------------------------------------------------
(* Steps of the cycle that leave the store's rows, blobs and views alone.  *)

LEMMA CycleStep ==
    ASSUME IInv, UNCHANGED <<head, published, relay, stateVars, recovery, blobs, views, proved>>,
           members' \in [Peers -> MemberType], replies' \in [Peers -> ReplyType], PagesOK',
           round' \in RoundType, round'.evidence \subseteq proved,
           pc' \notin {"rebuild", "advance", "frontier"} \/ pc' = pc, StagedOK'
    PROVE  IInv'
<1> USE DEF IInv, stateVars
<1>1. Types'
  BY Zenon DEF Types
<1>2. StateIsFold'
  BY Zenon DEF StateIsFold
<1>3. BlobsOK'
  BY StoreKept, Zenon
<1>4. CycleOK'
  BY Zenon DEF CycleOK
<1> QED
  BY <1>1, <1>2, <1>3, <1>4, SMTT(30), Zenon

LEMMA StartHolds == ASSUME IInv, NEW elapsed, StartCycle(elapsed) PROVE IInv'
<1>1. /\ UNCHANGED <<head, published, relay, stateVars, recovery, blobs, views, round, proved>>
      /\ pc' = "fetch"
      /\ members' = [p \in Peers |-> [members[p] EXCEPT !.due = @ \/ p \in elapsed]]
      /\ replies' = [p \in Peers |->
                       [NoReply EXCEPT !.kind = IF members'[p].due THEN "asked" ELSE "none"]]
  BY Zenon DEF StartCycle, writerVars, storeVars, stateVars
<1>2. members' \in [Peers -> MemberType]
  <2>1. ASSUME NEW p \in Peers PROVE [members[p] EXCEPT !.due = @ \/ p \in elapsed] \in MemberType
    <3>1. members[p] \in MemberType
      BY Zenon DEF IInv, Types
    <3>2. (members[p].due \/ p \in elapsed) \in BOOLEAN
      OBVIOUS
    <3> QED
      BY <3>1, <3>2, Zenon DEF MemberType
  <2> QED
    BY <2>1, <1>1, Zenon
<1>3. replies' \in [Peers -> ReplyType] /\ \A p \in Peers : replies'[p].page = {}
  BY <1>1, Zenon DEF NoReply, ReplyType
<1>4. PagesOK' /\ StagedOK'
  BY <1>1, <1>3, Zenon DEF PagesOK, StagedOK
<1> QED
  BY <1>1, <1>2, <1>3, <1>4, CycleStep, SMTT(30), Zenon DEF IInv, Types, CycleOK

(* What a peer sends follows what it holds, which is what the writer made. *)
LEMMA PagesAreMade ==
    ASSUME IInv, NEW p \in Peers, NEW page \in Pages(p)
    PROVE  \A i \in page : i \in 1..head
<1> DEFINE feed == Feed(p)
           after == members[p].frontier
           held == {i \in (after + 1)..feed.head : i >= feed.floor}
<1>1. /\ feed.head \in Nat /\ feed.head <= head /\ feed.floor \in Nat /\ feed.floor >= 1
  BY DEF Feed, IInv, Types
<1>2. after \in Nat /\ head \in Nat
  BY Zenon DEF IInv, Types, MemberType
<1>3. page = {} \/ \E n : page = {i \in held : i <= n}
  BY ZenonT(60), Zenon DEF Pages
<1> HIDE DEF feed, after
<1>4. \A i \in held : i \in 1..head
  BY <1>1, <1>2
<1> QED
  BY <1>3, <1>4, SMTT(30), Zenon

LEMMA ReplyStep ==
    ASSUME IInv, NEW p \in Peers, NEW r \in ReplyType, replies' = [replies EXCEPT ![p] = r],
           \A i \in r.page : i \in 1..head,
           UNCHANGED <<writerVars, storeVars, members, pc, round, proved>>
    PROVE  IInv'
<1>1. replies' \in [Peers -> ReplyType]
  BY Zenon DEF IInv, Types
<1>2. PagesOK'
  BY Zenon DEF IInv, Types, PagesOK, writerVars
<1>3. StagedOK'
  BY Zenon DEF StagedOK, IInv, storeVars
<1> QED
  BY <1>1, <1>2, <1>3, CycleStep, Zenon DEF IInv, Types, CycleOK, writerVars, storeVars, stateVars

(* A reply whose kind alone changes. *)
LEMMA KindStep ==
    ASSUME IInv, NEW p \in Peers, NEW kind \in {"unsynced", "below", "lost"},
           replies' = [replies EXCEPT ![p].kind = kind],
           UNCHANGED <<writerVars, storeVars, members, pc, round, proved>>
    PROVE  IInv'
<1> DEFINE r == [replies[p] EXCEPT !.kind = kind]
<1>1. replies[p] \in ReplyType
  BY Zenon DEF IInv, Types
<1>2. r \in ReplyType /\ r.page = replies[p].page
  BY <1>1, Zenon DEF ReplyType
<1>3. replies' = [replies EXCEPT ![p] = r]
  BY Zenon DEF IInv, Types
<1>4. \A i \in r.page : i \in 1..head
  BY <1>2, Zenon DEF IInv, PagesOK
<1> HIDE DEF r
<1> QED
  BY <1>2, <1>3, <1>4, ReplyStep, Zenon

LEMMA AnswerHolds == ASSUME IInv, NEW p \in Peers, Answer(p) PROVE IInv'
<1>1. UNCHANGED <<writerVars, storeVars, members, pc, round, proved>>
  BY Zenon DEF Answer
<1>2. CASE replies' = [replies EXCEPT ![p].kind = "unsynced"]
  BY <1>1, <1>2, KindStep, Zenon
<1>3. CASE replies' = [replies EXCEPT ![p].kind = "below"]
  BY <1>1, <1>3, KindStep, Zenon
<1>4. ASSUME NEW page \in Pages(p), replies' = [replies EXCEPT ![p] = [kind |-> "page", page |-> page]]
      PROVE  IInv'
  <2> DEFINE r == [kind |-> "page", page |-> page]
  <2>1. \A i \in page : i \in 1..head
    BY PagesAreMade, Zenon
  <2>2. page \in SUBSET Nat
    BY <2>1
  <2>3. r \in ReplyType /\ r.page = page
    BY <2>2, Zenon DEF ReplyType
  <2>4. replies' = [replies EXCEPT ![p] = r]
    BY <1>4, Zenon
  <2> HIDE DEF r
  <2> QED
    BY <2>1, <2>3, <2>4, <1>1, ReplyStep, Zenon
<1> QED
  BY <1>2, <1>3, <1>4, SMTT(30), Zenon DEF Answer

LEMMA LostHolds == ASSUME IInv, NEW p \in Peers, Lost(p) PROVE IInv'
BY KindStep, ZenonT(60), Zenon DEF Lost

LEMMA SettleHolds == ASSUME IInv, Settle PROVE IInv'
<1>1. /\ UNCHANGED <<head, published, relay, stateVars, recovery, blobs, views, replies, proved>>
      /\ pc' = "apply"
      /\ members' = [p \in Peers |-> Settled(p)]
      /\ round' = [Idle EXCEPT !.answered = \E p \in Peers : Paged(p)]
  BY SMTT(30), Zenon DEF Settle, writerVars, storeVars, stateVars
<1>2. ASSUME NEW p \in Peers PROVE Settled(p) \in MemberType
  <2>1. members[p] \in MemberType
    BY Zenon DEF IInv, Types
  <2>2. /\ TRUE \in BOOLEAN /\ FALSE \in BOOLEAN
        /\ \A h \in {"ready", "below", "waiting"} : h \in {"ready", "below", "waiting", "retired"}
    OBVIOUS
  <2>3. \A h \in {"ready", "below", "waiting"}, b \in BOOLEAN :
            [members[p] EXCEPT !.health = h, !.due = b] \in MemberType
    BY <2>1, <2>2, Zenon DEF MemberType
  <2>4. \/ Settled(p) = [members[p] EXCEPT !.health = "ready", !.due = TRUE]
        \/ Settled(p) = [members[p] EXCEPT !.health = "below", !.due = FALSE]
        \/ Settled(p) = [members[p] EXCEPT !.health = "waiting", !.due = FALSE]
        \/ Settled(p) = members[p]
    BY Zenon DEF Settled, Paged
  <2> QED
    BY <2>1, <2>3, <2>4, ZenonT(60), Zenon
<1>3. round' \in RoundType /\ round'.evidence = {}
  <2>1. (\E p \in Peers : Paged(p)) \in BOOLEAN
    OBVIOUS
  <2>2. round' \in RoundType
    BY <2>1, <1>1, Blanks, Zenon DEF RoundType
  <2> QED
    BY <2>2, <1>1, Zenon DEF Idle
<1>4. PagesOK' /\ StagedOK'
  BY <1>1, Zenon DEF IInv, PagesOK, StagedOK
<1> QED
  BY <1>1, <1>2, <1>3, <1>4, CycleStep, Zenon DEF IInv, Types

LEMMA CommittedType ==
    ASSUME IInv, NEW p \in Peers
    PROVE  Committed(p, serial) \in MemberType
<1>1. members[p] \in MemberType /\ serial \in Nat
  BY Zenon DEF IInv, Types
<1>2. members[p].frontier \in Nat
  BY <1>1, Zenon DEF MemberType
<1>3. Max({members[p].frontier, serial}) \in Nat
  BY <1>1, <1>2, MaxOfTwo, SMTT(30), Zenon
<1> QED
  BY <1>1, <1>3, Zenon DEF Committed, MemberType

LEMMA EndRoundHolds == ASSUME IInv, EndRound PROVE IInv'
<1>1. /\ UNCHANGED <<head, published, relay, stateVars, recovery, blobs, views, proved>>
      /\ pc' \in {"idle", "recover"}
      /\ members' = [p \in Peers |-> IF Drained(p) THEN Committed(p, serial) ELSE members[p]]
      /\ replies' = [p \in Peers |-> NoReply]
      /\ round' = Idle \/ round' = [round EXCEPT !.at = 1]
  BY Zenon DEF EndRound, writerVars, storeVars, stateVars
<1>2. members' \in [Peers -> MemberType]
  BY <1>1, CommittedType, Zenon DEF IInv, Types
<1>3. replies' \in [Peers -> ReplyType] /\ PagesOK' /\ StagedOK'
  BY <1>1, Blanks, Zenon DEF PagesOK, StagedOK
<1>4. round' \in RoundType /\ round'.evidence \subseteq proved
  <2>1. CASE round' = Idle
    BY <2>1, Blanks, Zenon
  <2>2. CASE round' = [round EXCEPT !.at = 1]
    <3>1. round \in RoundType /\ 1 \in Nat \ {0} /\ round.evidence \subseteq proved
      BY DEF IInv, Types, CycleOK
    <3>2. round' \in RoundType
      BY <3>1, <2>2, Zenon DEF RoundType
    <3>3. round'.evidence = round.evidence
      BY <3>1, <2>2, SMTT(30), Zenon DEF RoundType
    <3> QED
      BY <3>1, <3>2, <3>3, SMTT(30), Zenon
  <2> QED
    BY <1>1, <2>1, <2>2, SMTT(30), Zenon
<1> QED
  BY <1>1, <1>2, <1>3, <1>4, CycleStep, SMTT(30), Zenon

(* The cycle goes on or ends; the store stays. *)
LEMMA GoesOn ==
    ASSUME IInv, UNCHANGED <<writerVars, storeVars, members, replies, proved>>, NEW b, AfterRecovery(b)
    PROVE  IInv'
<1>1. /\ UNCHANGED <<head, published, relay, stateVars, recovery, blobs, views, members, replies, proved>>
      /\ pc' \in {"blobs", "idle"} /\ (round' = round \/ round' = Idle)
  BY Zenon DEF AfterRecovery, writerVars, storeVars, stateVars
<1>2. round' \in RoundType /\ round'.evidence \subseteq proved
  BY <1>1, Blanks, SMTT(30), Zenon DEF IInv, Types, CycleOK
<1>3. PagesOK' /\ StagedOK'
  BY <1>1, SMTT(30), Zenon DEF IInv, PagesOK, StagedOK
<1> QED
  BY <1>1, <1>2, <1>3, CycleStep, SMTT(30), Zenon DEF IInv, Types

(* Nothing of the cycle but the staged transfer changes. *)
LEMMA TransferStep ==
    ASSUME IInv, UNCHANGED <<head, published, relay, stateVars, recovery, blobs, views, members, replies,
                             round, proved>>,
           pc' \in {"stage", "discard"},
           pc' = "stage" => staged'.manifest.serial \in Nat
                            /\ staged'.manifest.rows = Fold(staged'.manifest.serial)
    PROVE  IInv'
<1>1. PagesOK' /\ StagedOK'
  BY Zenon DEF IInv, PagesOK, StagedOK
<1> QED
  BY <1>1, CycleStep, Zenon DEF IInv, Types, CycleOK

LEMMA StartTransferHolds == ASSUME IInv, StartTransfer PROVE IInv'
<1>1. /\ UNCHANGED <<head, published, relay, stateVars, recovery, blobs, views, members, replies, round,
                     proved>>
      /\ pc' = "stage" /\ staged'.manifest = published
  BY Zenon DEF StartTransfer, writerVars
<1>2. published.serial \in Nat /\ published.rows = Fold(published.serial)
  BY DEF IInv, Types, StateIsFold, Fold
<1> QED
  BY <1>1, <1>2, TransferStep, Zenon

LEMMA StageChunkHolds == ASSUME IInv, StageChunk PROVE IInv'
<1>1. /\ UNCHANGED <<head, published, relay, stateVars, recovery, blobs, views, members, replies, round,
                     proved>>
      /\ pc = "stage" /\ pc' = "stage"
      /\ staged' = [staged EXCEPT !.got = Append(@, published.rows[KeyOrder[Len(@) + 1]])]
  BY Zenon DEF StageChunk, cycleVars
<1>2. staged'.manifest = staged.manifest
  BY <1>1, SMTT(30), Zenon
<1> QED
  BY <1>1, <1>2, TransferStep, Zenon DEF IInv, StagedOK

LEMMA DiscardHolds == ASSUME IInv, Discard PROVE IInv'
<1>1. /\ UNCHANGED <<head, published, relay, stateVars, recovery, blobs, views, replies, proved>>
      /\ members' = [members EXCEPT !["primary"] = rearm(Committed("primary", serial))]
      /\ pc' \in {"blobs", "idle"} /\ (round' = round \/ round' = Idle)
  BY Zenon DEF Discard, AfterRecovery, writerVars
<1>2. members' \in [Peers -> MemberType]
  <2>1. CASE "primary" \in Peers
    <3>1. Committed("primary", serial) \in MemberType
      BY <2>1, CommittedType, Zenon
    <3>2. TRUE \in BOOLEAN /\ "ready" \in {"ready", "below", "waiting", "retired"}
      OBVIOUS
    <3>3. rearm(Committed("primary", serial)) \in MemberType
      <4> DEFINE m == Committed("primary", serial)
      <4>1. m \in MemberType
        BY <3>1, Zenon
      <4> HIDE DEF m
      <4>2. [m EXCEPT !.health = "ready", !.due = TRUE] \in MemberType
        BY <4>1, <3>2, Zenon DEF MemberType
      <4>3. rearm(m) \in MemberType
        BY <4>1, <4>2, Zenon DEF rearm
      <4> QED
        BY <4>3, Zenon DEF m
    <3> QED
      BY <3>3, <1>1, Zenon DEF IInv, Types
  <2>2. CASE "primary" \notin Peers
    <3>1. members' = members
      BY <2>2, <1>1, SMTT(30), Zenon DEF IInv, Types
    <3> QED
      BY <3>1, Zenon DEF IInv, Types
  <2> QED
    BY <2>1, <2>2, Zenon
<1>3. round' \in RoundType /\ round'.evidence \subseteq proved
  BY <1>1, Blanks, Zenon DEF IInv, Types, CycleOK
<1>4. PagesOK' /\ StagedOK'
  BY <1>1, Zenon DEF IInv, PagesOK, StagedOK
<1> QED
  BY <1>1, <1>2, <1>3, <1>4, CycleStep, SMTT(30), Zenon DEF IInv, Types

LEMMA RestartHolds == ASSUME IInv, Restart PROVE IInv'
<1>1. /\ UNCHANGED <<head, published, relay, stateVars, recovery, blobs, views, proved>>
      /\ pc' = "idle" /\ members' = Joined(serial)
      /\ replies' = [p \in Peers |-> NoReply] /\ round' = Idle
  BY Zenon DEF Restart, writerVars, storeVars, stateVars
<1>2. members' \in [Peers -> MemberType]
  BY <1>1, Blanks, SMTT(30), Zenon DEF IInv, Types
<1>3. replies' \in [Peers -> ReplyType] /\ PagesOK' /\ StagedOK'
  BY <1>1, Blanks, Zenon DEF PagesOK, StagedOK
<1> QED
  BY <1>1, <1>2, <1>3, Blanks, CycleStep, SMTT(30), Zenon

-----------------------------------------------------------------------------
(* Steps that write the store.                                             *)

LEMMA StoreStep ==
    ASSUME IInv, UNCHANGED <<head, published, relay, members, replies>>,
           serial' \in Nat, floor' \in Nat, recovery' \in [serial : Nat, left : SUBSET Nat],
           views' \in [search : Nat, blob : Nat], round' \in RoundType,
           rows' = Fold(serial'), StagedOK', BlobsOK', CycleOK'
    PROVE  IInv'
<1>1. Types' /\ PagesOK'
  BY Zenon DEF IInv, Types, PagesOK
<1>2. StateIsFold'
  BY Zenon DEF IInv, StateIsFold, Fold
<1> QED
  BY <1>1, <1>2, Zenon DEF IInv

(* What of a peer's batch is new is applied, if it starts at the cursor. *)
LEMMA ApplyHolds == ASSUME IInv, ApplyBatch PROVE IInv'
<1> DEFINE p == Order[round.at]
           fresh == {i \in replies[p].page : i > serial}
           next == [round EXCEPT !.at = @ + 1]
<1>1. /\ UNCHANGED <<head, published, relay, floor, staged, recovery, blobs, members, pc, replies, proved>>
      /\ pc = "apply" /\ round.at <= Len(Order)
  BY Zenon DEF ApplyBatch, writerVars
<1>2. /\ serial \in Nat /\ floor \in Nat /\ recovery \in [serial : Nat, left : SUBSET Nat]
      /\ views \in [search : Nat, blob : Nat] /\ round \in RoundType /\ round.evidence \subseteq proved
      /\ head \in Nat
  BY Zenon DEF IInv, Types, CycleOK
<1>3. p \in Peers
  <2>1. round.at \in 1..Len(Order)
    BY <1>1, <1>2, ReplicaAssumption, SMTT(30), Zenon DEF RoundType
  <2> QED
    BY <2>1, ReplicaAssumption, SMTT(30), Zenon DEF Peers, Range
<1>4. rows = Fold(serial)
  BY Zenon DEF IInv, StateIsFold, Fold
<1>5. /\ next \in RoundType /\ next.evidence = round.evidence
      /\ [next EXCEPT !.failed = TRUE] \in RoundType
      /\ [next EXCEPT !.failed = TRUE].evidence = round.evidence
  <2>1. round.at + 1 \in Nat \ {0} /\ TRUE \in BOOLEAN
    BY <1>2 DEF RoundType
  <2>2. next \in RoundType
    BY <2>1, <1>2, Zenon DEF RoundType
  <2>3. next.evidence = round.evidence
    BY <1>2, Zenon DEF RoundType
  <2> HIDE DEF next
  <2>4. [next EXCEPT !.failed = TRUE] \in RoundType
    BY <2>1, <2>2, Zenon DEF RoundType
  <2>5. [next EXCEPT !.failed = TRUE].evidence = next.evidence
    BY <2>2, Zenon DEF RoundType
  <2> QED
    BY <2>2, <2>3, <2>4, <2>5, SMTT(30), Zenon
<1>6. \A i \in fresh : i \in Nat /\ i <= head /\ i > serial
  BY <1>2, <1>3, SMTT(30), Zenon DEF IInv, PagesOK
<1>7. \/ /\ round' \in {next, [next EXCEPT !.failed = TRUE]} /\ UNCHANGED <<rows, serial, views>>
      \/ /\ fresh # {} /\ Valid(fresh) /\ rows' = Applied(rows, fresh) /\ serial' = Max(fresh)
         /\ round' = next
         /\ views' = [views EXCEPT !.search = Max({@, Max(fresh)})] \/ UNCHANGED views
  BY Zenon DEF ApplyBatch
<1> HIDE DEF p, fresh, next
<1>8. round' \in RoundType /\ round'.evidence \subseteq proved
  BY <1>2, <1>5, <1>7, Zenon
<1>9. StagedOK' /\ CycleOK'
  BY <1>1, <1>8, Zenon DEF StagedOK, CycleOK
<1>10. CASE UNCHANGED <<rows, serial, views>>
  <2>1. BlobsOK'
    BY <1>1, <1>10, StoreKept, SMTT(30), Zenon DEF IInv
  <2> QED
    BY <2>1, <1>1, <1>2, <1>4, <1>8, <1>9, <1>10, StoreStep, SMTT(30), Zenon
<1>11. CASE /\ fresh # {} /\ Valid(fresh) /\ rows' = Applied(rows, fresh) /\ serial' = Max(fresh)
            /\ views' = [views EXCEPT !.search = Max({@, Max(fresh)})] \/ UNCHANGED views
  <2> DEFINE m == Max(fresh)
  <2>1. fresh \in SUBSET Nat
    BY <1>6, Zenon
  <2>2. m \in fresh
    BY <2>1, <1>2, <1>6, <1>11, MaxOf, SMTT(30), Zenon
  <2>3. m \in Nat /\ m > serial /\ serial' = m
    BY <2>2, <1>6, <1>11, SMTT(30), Zenon
  <2>4. fresh = (serial + 1)..m
    BY <1>11, Zenon DEF Valid
  <2> HIDE DEF m
  <2>5. rows' = Fold(m) /\ \A k \in Keys : Fold(m)[k] = rows[k] \/ Fold(m)[k] > serial
    <3>1. serial <= m
      BY <2>3, <1>2
    <3> QED
      BY <3>1, <2>3, <2>4, <1>2, <1>4, <1>11, FoldOnward, SMTT(30), Zenon
  <2>6. views' \in [search : Nat, blob : Nat] /\ views'.blob = views.blob
    <3>1. views.search \in Nat
      BY <1>2, Zenon
    <3>2. Max({views.search, m}) \in Nat
      BY <3>1, <2>3, MaxOfTwo, Zenon
    <3> QED
      BY <3>2, <1>2, <1>11, SMTT(30), Zenon DEF m
  <2>7. BlobsOK'
    <3>1. views.blob \in Nat /\ recovery.serial \in Nat
      BY <1>2, Zenon
    <3>2. BlobsOK /\ views.blob <= serial
      BY Zenon DEF IInv, BlobsOK
    <3>3. \A k \in Keys : rows'[k] = rows[k] \/ (rows'[k] \in Nat /\ rows'[k] > serial)
      BY <2>3, <2>5, FoldType, SMTT(30), Zenon
    <3>4. CASE recovery = NoRecovery
      <4>1. SettledOK'
        BY <3>1, <3>2, <3>3, <3>4, <2>6, <1>1, <1>2, SMTT(30), Zenon DEF BlobsOK, SettledOK, Backed
      <4> QED
        BY <4>1, <3>1, <3>2, <3>4, <2>3, <2>6, <1>1, <1>2, SMTT(30), Zenon DEF BlobsOK
    <3>5. CASE recovery # NoRecovery
      <4>1. RecoveringOK
        BY <3>2, <3>5, SMTT(30), Zenon DEF BlobsOK
      <4>2. RecoveringOK'
        BY <4>1, <3>1, <3>3, <2>3, <2>6, <1>1, <1>2, SMTT(30), Zenon DEF RecoveringOK, Backed
      <4> QED
        BY <4>2, <3>1, <3>2, <3>5, <2>3, <2>6, <1>1, <1>2, SMTT(30), Zenon DEF BlobsOK
    <3> QED
      BY <3>4, <3>5, Zenon
  <2> QED
    BY <2>3, <2>5, <2>6, <2>7, <1>1, <1>2, <1>8, <1>9, StoreStep, SMTT(30), Zenon
<1> QED
  BY <1>7, <1>10, <1>11, SMTT(30), Zenon

(* The staged rows replace the store's, and the blob view steps back. *)
LEMMA ReplaceHolds == ASSUME IInv, Install, decode_staged = staged.manifest.rows PROVE IInv'
<1> DEFINE m == staged.manifest
<1>1. /\ UNCHANGED <<head, published, relay, staged, blobs, members, replies, round, proved>>
      /\ pc' = "discard" /\ rows' = m.rows /\ serial' = m.serial /\ floor' = m.serial + 1
      /\ recovery' = [serial |-> m.serial, left |-> Range(m.rows) \ {0}]
      /\ views' = [views EXCEPT !.blob = Max({m.serial - 1, 0})]
  <2>1. UNCHANGED <<head, published, relay, staged, blobs, members, replies, round, proved>> /\ pc' = "discard"
    BY Zenon DEF Install, writerVars
  <2>2. replace_state(m.rows, m)
    BY Zenon DEF Install
  <2> HIDE DEF m
  <2> QED
    BY <2>1, <2>2, Zenon DEF replace_state
<1>2. m.serial \in Nat /\ m.rows = Fold(m.serial)
  BY Zenon DEF IInv, StagedOK, Install
<1> HIDE DEF m
<1>3. \A k \in Keys : rows'[k] \in Range(m.rows) /\ rows'[k] \in Nat
  BY <1>1, <1>2, FoldType, Zenon DEF Range
<1>4. Range(m.rows) \ {0} \in SUBSET Nat
  BY <1>2, FoldType, Zenon DEF Range
<1>5. Max({m.serial - 1, 0}) = IF m.serial = 0 THEN 0 ELSE m.serial - 1
  <2>1. CASE m.serial = 0
    <3>1. {m.serial - 1, 0} = {-1, 0}
      BY <2>1
    <3>2. \A z \in {-1, 0} : (\A y \in {-1, 0} : z >= y) <=> z = 0
      OBVIOUS
    <3>3. Max({-1, 0}) = 0
      BY <3>2, Zenon DEF Max
    <3> QED
      BY <2>1, <3>1, <3>3, Zenon
  <2>2. CASE m.serial # 0
    <3>1. m.serial - 1 \in Nat /\ 0 \in Nat /\ (m.serial - 1 <= 0 => m.serial - 1 = 0)
      BY <2>2, <1>2
    <3> QED
      BY <3>1, <2>2, MaxOfTwo, SMTT(30), Zenon
  <2> QED
    BY <2>1, <2>2, Zenon
<1>6. /\ views' \in [search : Nat, blob : Nat]
      /\ views'.blob = IF m.serial = 0 THEN 0 ELSE m.serial - 1
  BY <1>1, <1>2, <1>5, SMTT(30), Zenon DEF IInv, Types
<1>7. recovery' # NoRecovery /\ recovery'.serial = m.serial /\ recovery'.left = Range(m.rows) \ {0}
  <2>1. recovery'.serial = m.serial /\ recovery'.left = Range(m.rows) \ {0}
    BY <1>1, Zenon
  <2>2. 0 \notin recovery'.left /\ 0 \in NoRecovery.left
    BY <2>1, Zenon DEF NoRecovery
  <2> QED
    BY <2>1, <2>2, Zenon
<1>8. BlobsOK'
  <2>1. RecoveringOK'
    BY <1>1, <1>2, <1>3, <1>6, <1>7, SMTT(30), Zenon DEF RecoveringOK, Backed
  <2> QED
    BY <2>1, <1>1, <1>2, <1>6, <1>7, SMTT(30), Zenon DEF BlobsOK
<1>9. StagedOK' /\ CycleOK'
  BY <1>1, Zenon DEF StagedOK, CycleOK, IInv
<1> QED
  BY <1>1, <1>2, <1>4, <1>6, <1>8, <1>9, StoreStep, SMTT(30), Zenon DEF IInv, Types

LEMMA InstallHolds == ASSUME IInv, Install PROVE IInv'
<1>1. CASE decode_staged = staged.manifest.rows
  BY <1>1, ReplaceHolds, Zenon
<1>2. CASE decode_staged # staged.manifest.rows
  <2>1. AfterRecovery(FALSE) /\ UNCHANGED <<writerVars, storeVars, members, replies, proved>>
    BY <1>2, Zenon DEF Install, storeVars, stateVars
  <2> QED
    BY <2>1, GoesOn, Zenon
<1> QED
  BY <1>1, <1>2, Zenon

-----------------------------------------------------------------------------
(* Steps of the blob view.                                                 *)

LEMMA PullCheckpointHolds == ASSUME IInv, PullCheckpoint PROVE IInv'
<1> DEFINE page == FirstOf(recovery.left)
<1>1. /\ UNCHANGED <<head, published, relay, rows, serial, floor, staged, views, members, replies, proved>>
      /\ recovery # NoRecovery
  BY Zenon DEF PullCheckpoint, writerVars, stateVars
<1>2. PICK got \in SUBSET (page \ blobs) :
          /\ blobs' = blobs \cup got
          /\ IF page \subseteq blobs'
             THEN IF page = recovery.left
                  THEN pc' = "rebuild" /\ UNCHANGED <<recovery, round, faults>>
                  ELSE /\ recovery' = [recovery EXCEPT !.left = @ \ page]
                       /\ EndCycle /\ UNCHANGED faults
             ELSE Fault /\ EndCycle /\ UNCHANGED recovery
  BY SMTT(30), Zenon DEF PullCheckpoint
<1> HIDE DEF page
<1>3. /\ recovery \in [serial : Nat, left : SUBSET Nat] /\ BlobsOK /\ RecoveringOK
      /\ rows = Fold(serial) /\ serial \in Nat /\ floor \in Nat
      /\ views \in [search : Nat, blob : Nat] /\ round \in RoundType /\ round.evidence \subseteq proved
  BY <1>1, SMTT(30), Zenon DEF IInv, Types, StateIsFold, Fold, BlobsOK, CycleOK
<1>4. CASE UNCHANGED recovery
  <2>1. BlobsOK'
    BY <1>1, <1>2, <1>3, <1>4, StoreKept, SMTT(30), Zenon
  <2>2. round' \in RoundType /\ round'.evidence \subseteq proved
    BY <1>2, <1>3, Blanks, SMTT(30), Zenon DEF EndCycle
  <2>3. pc' = "idle" \/ (pc' = "rebuild" /\ recovery.left \subseteq blobs')
    BY <1>2, SMTT(30), Zenon DEF EndCycle
  <2>4. StagedOK' /\ CycleOK'
    BY <2>2, <2>3, <1>1, <1>4, SMTT(30), Zenon DEF StagedOK, CycleOK
  <2> QED
    BY <2>1, <2>2, <2>4, <1>1, <1>3, <1>4, StoreStep, SMTT(30), Zenon
<1>5. CASE page \subseteq blobs' /\ recovery' = [recovery EXCEPT !.left = @ \ page] /\ EndCycle
  <2>1. /\ recovery' \in [serial : Nat, left : SUBSET Nat]
        /\ recovery'.serial = recovery.serial /\ recovery'.left = recovery.left \ page
    BY <1>3, <1>5, SMTT(30), Zenon
  <2>2. recovery' # NoRecovery
    <3>1. 0 \notin recovery'.left /\ 0 \in NoRecovery.left
      BY <2>1, <1>3, SMTT(30), Zenon DEF RecoveringOK, NoRecovery
    <3> QED
      BY <3>1, SMTT(30), Zenon
  <2>3. RecoveringOK'
    <3>1. \A k \in Keys : rows[k] \in Backed \cup recovery.left => rows[k] \in Backed' \cup recovery'.left
      BY <2>1, <1>1, <1>2, <1>5, SMTT(30), Zenon DEF Backed
    <3> QED
      BY <3>1, <2>1, <1>1, <1>3, SMTT(30), Zenon DEF RecoveringOK
  <2>4. BlobsOK'
    BY <2>2, <2>3, <1>1, <1>3, SMTT(30), Zenon DEF BlobsOK
  <2>5. round' = Idle /\ pc' = "idle"
    BY <1>5, SMTT(30), Zenon DEF EndCycle
  <2>6. StagedOK' /\ CycleOK'
    BY <2>5, Blanks, SMTT(30), Zenon DEF StagedOK, CycleOK
  <2> QED
    BY <2>1, <2>4, <2>5, <2>6, <1>1, <1>3, Blanks, StoreStep, SMTT(30), Zenon
<1> QED
  BY <1>2, <1>4, <1>5, SMTT(30), Zenon

(* Steps that move the views and the place in the cycle, not the rows. *)
LEMMA ViewStep ==
    ASSUME IInv, UNCHANGED <<head, published, relay, rows, serial, floor, staged, members, replies>>,
           recovery' \in [serial : Nat, left : SUBSET Nat],
           views' \in [search : Nat, blob : Nat], round' \in RoundType,
           pc' # "stage" \/ pc' = pc, BlobsOK', CycleOK'
    PROVE  IInv'
<1>1. StagedOK'
  BY Zenon DEF IInv, StagedOK
<1>2. rows' = Fold(serial') /\ serial' \in Nat /\ floor' \in Nat
  BY Zenon DEF IInv, StateIsFold, Fold, Types
<1> QED
  BY <1>1, <1>2, StoreStep, SMTT(30), Zenon

LEMMA RebuildHolds == ASSUME IInv, Rebuild PROVE IInv'
<1>1. /\ UNCHANGED <<head, published, relay, rows, serial, floor, staged, recovery, blobs, members, replies,
                     proved>>
      /\ pc = "rebuild"
      /\ \/ /\ views' = [views EXCEPT !.search = Max({@, serial})]
            /\ pc' = "advance" /\ round' = round
         \/ pc' = "idle" /\ round' = Idle /\ views' = views
  BY Zenon DEF Rebuild, EndCycle, writerVars, stateVars
<1>2. views' \in [search : Nat, blob : Nat] /\ views'.blob = views.blob
  <2>1. views \in [search : Nat, blob : Nat] /\ serial \in Nat /\ views.search \in Nat
    BY Zenon DEF IInv, Types
  <2>2. Max({views.search, serial}) \in Nat
    BY <2>1, MaxOfTwo, Zenon
  <2> QED
    BY <2>1, <2>2, <1>1, SMTT(30), Zenon
<1>3. round' \in RoundType /\ CycleOK'
  BY <1>1, Blanks, Zenon DEF IInv, Types, CycleOK
<1>4. BlobsOK'
  BY <1>1, <1>2, StoreKept, Zenon DEF IInv
<1> QED
  BY <1>1, <1>2, <1>3, <1>4, ViewStep, SMTT(30), Zenon DEF IInv, Types

(* Every blob the checkpoint names is in the store, so the view joins it. *)
LEMMA AdvanceRecoveryHolds == ASSUME IInv, advance_checkpoint_blob_recovery PROVE IInv'
<1>1. /\ UNCHANGED <<head, published, relay, rows, serial, floor, staged, blobs, members, replies, round,
                     proved>>
      /\ pc = "advance" /\ pc' = "blobs" /\ recovery' = NoRecovery
      /\ views' = [views EXCEPT !.blob = recovery.serial]
  BY Zenon DEF advance_checkpoint_blob_recovery, writerVars, stateVars
<1>2. /\ recovery \in [serial : Nat, left : SUBSET Nat] /\ RecoveringOK /\ recovery.left \subseteq blobs
      /\ views \in [search : Nat, blob : Nat]
  BY <1>1, Zenon DEF IInv, Types, CycleOK, BlobsOK
<1>3. views' \in [search : Nat, blob : Nat] /\ views'.blob = recovery.serial
  BY <1>1, <1>2, Zenon
<1>4. SettledOK'
  BY <1>1, <1>2, <1>3, SMTT(30), Zenon DEF SettledOK, RecoveringOK, Backed
<1>5. BlobsOK'
  BY <1>1, <1>2, <1>3, <1>4, SMTT(30), Zenon DEF BlobsOK, RecoveringOK
<1>6. round' \in RoundType /\ CycleOK'
  BY <1>1, SMTT(30), Zenon DEF IInv, Types, CycleOK
<1> QED
  BY <1>1, <1>3, <1>5, <1>6, Blanks, ViewStep, SMTT(30), Zenon

LEMMA PullTailHolds == ASSUME IInv, PullTail PROVE IInv'
<1>1. /\ UNCHANGED <<head, published, relay, rows, serial, floor, staged, recovery, views, members, replies>>
      /\ recovery = NoRecovery
  BY Zenon DEF PullTail, writerVars, stateVars
<1>2. PICK remote \in SUBSET Outstanding :
          /\ blobs \subseteq blobs'
          /\ proved' = proved \cup remote
          /\ \/ pc' = "frontier" /\ round' = [round EXCEPT !.evidence = remote]
             \/ pc' = "idle" /\ round' = Idle
  BY Zenon DEF PullTail, EndCycle
<1>3. remote \in SUBSET Nat
  <2>1. floor \in Nat /\ views.blob + 1 \in Nat /\ serial \in Nat
    BY DEF IInv, Types
  <2>2. Max({floor, views.blob + 1}) \in Nat
    BY <2>1, MaxOfTwo, Zenon
  <2>3. \A i \in Outstanding : i \in Nat
    BY <2>1, <2>2 DEF Outstanding
  <2> QED
    BY <2>3, Zenon
<1>4. round \in RoundType /\ round.evidence \subseteq proved
  BY Zenon DEF IInv, Types, CycleOK
<1>5. round' \in RoundType /\ round'.evidence \subseteq remote /\ pc' \in {"frontier", "idle"}
  <2>1. CASE pc' = "frontier" /\ round' = [round EXCEPT !.evidence = remote]
    <3>1. round' \in RoundType
      BY <1>3, <1>4, <2>1, Zenon DEF RoundType
    <3>2. round'.evidence = remote
      BY <1>4, <2>1, Zenon DEF RoundType
    <3> QED
      BY <2>1, <3>1, <3>2, Zenon
  <2>2. CASE pc' = "idle" /\ round' = Idle
    <3>1. round' \in RoundType
      BY <2>2, Blanks, Zenon
    <3>2. round'.evidence = {}
      BY <2>2, Zenon DEF Idle
    <3> QED
      BY <2>2, <3>1, <3>2, Zenon
  <2> QED
    BY <1>2, <2>1, <2>2, Zenon
<1>6. BlobsOK'
  BY <1>1, <1>2, StoreKept, SMTT(30), Zenon DEF IInv
<1>7. CycleOK'
  BY <1>1, <1>2, <1>5, SMTT(30), Zenon DEF CycleOK
<1> QED
  BY <1>1, <1>5, <1>6, <1>7, ViewStep, SMTT(30), Zenon DEF IInv, Types

(* The view moves over records whose blob is in the store or was served by *)
(* a peer, and stops before the first that is not.                         *)
LEMMA AdvanceHolds == ASSUME IInv, AdvanceFrontier PROVE IInv'
<1> DEFINE missing == Outstanding \ (blobs \cup round.evidence)
           reach == IF missing # {} THEN Min(missing) - 1 ELSE Max(Outstanding \cup {views.blob})
           b == views.blob
<1>1. /\ UNCHANGED <<head, published, relay, rows, serial, floor, staged, recovery, blobs, members, replies,
                     proved>>
      /\ pc = "frontier" /\ pc' = "idle" /\ round' = Idle
      /\ views' = [views EXCEPT !.blob = Max({@, reach})]
  BY Zenon DEF AdvanceFrontier, EndCycle, writerVars, stateVars
<1>2. /\ recovery = NoRecovery /\ SettledOK /\ b <= serial
      /\ views \in [search : Nat, blob : Nat] /\ b \in Nat /\ serial \in Nat /\ floor \in Nat
      /\ round.evidence \subseteq proved
  BY <1>1, Zenon DEF IInv, CycleOK, BlobsOK, Types
<1>3. \A i : i \in Outstanding <=> i \in (b + 1)..serial /\ i < b + 1 + PageLimit
  <2>1. floor <= b + 1
    BY <1>2, Zenon DEF SettledOK
  <2>2. Max({floor, b + 1}) = b + 1
    BY <2>1, <1>2, MaxOfTwo, SMTT(30), Zenon
  <2> QED
    BY <2>2, Zenon DEF Outstanding
<1>4. PageLimit \in Nat
  BY ReplicaAssumption, SMTT(30), Zenon
<1>5. /\ reach \in Nat /\ b <= reach /\ reach <= serial
      /\ \A i \in Nat : b < i /\ i <= reach => i \in Backed
  <2>1. CASE missing # {}
    <3> DEFINE f == Min(missing)
    <3>1. \A i \in missing : i \in Nat
      BY <1>2, <1>3
    <3>2. missing \in SUBSET Nat
      BY <3>1, Zenon
    <3>3. f \in missing /\ \A y \in missing : f <= y
      BY <3>2, <2>1, MinOf, SMTT(30), Zenon
    <3>4. f \in Nat /\ b + 1 <= f /\ f <= serial /\ f < b + 1 + PageLimit
      BY <3>3, <1>2, <1>3
    <3>5. reach = f - 1
      BY <2>1, Zenon
    <3> HIDE DEF f
    <3>6. ASSUME NEW i \in Nat, b < i, i <= f - 1 PROVE i \in Backed
      <4>1. i \in Outstanding
        BY <3>4, <3>6, <1>2, <1>3, <1>4, SMTT(30), Zenon
      <4>2. i \notin missing
        BY <3>3, <3>4, <3>6, SMTT(30), Zenon
      <4> QED
        BY <4>1, <4>2, <1>2, SMTT(30), Zenon DEF Backed
    <3> HIDE DEF reach
    <3> QED
      BY <3>4, <3>5, <3>6, <1>2, SMTT(30), Zenon
  <2>2. CASE missing = {}
    <3> DEFINE S == Outstanding \cup {b}
    <3>1. \A i \in S : i \in Nat /\ i <= serial
      BY <1>2, <1>3, SMTT(30), Zenon
    <3>2. S \in SUBSET Nat /\ S # {}
      BY <3>1, Zenon
    <3>3. Max(S) \in S /\ \A y \in S : y <= Max(S)
      BY <3>1, <3>2, <1>2, MaxOf, ZenonT(60), Zenon
    <3>4. reach = Max(S)
      BY <2>2, Zenon
    <3>5. reach \in Nat /\ reach <= serial /\ b <= reach /\ reach \in S
      BY <3>1, <3>3, <3>4, SMTT(30), Zenon
    <3> HIDE DEF reach
    <3>6. ASSUME NEW i \in Nat, b < i, i <= reach PROVE i \in Backed
      <4>1. reach \in Outstanding
        BY <3>5, <3>6, <1>2, SMTT(30), Zenon
      <4>2. i \in Outstanding
        BY <4>1, <3>5, <3>6, <1>2, <1>3, <1>4, SMTT(30), Zenon
      <4> QED
        BY <4>2, <2>2, <1>2, SMTT(30), Zenon DEF Backed
    <3> QED
      BY <3>5, <3>6, SMTT(30), Zenon
  <2> QED
    BY <2>1, <2>2, Zenon
<1> HIDE DEF reach
<1>6. views' \in [search : Nat, blob : Nat] /\ views'.blob = reach
  <2>1. Max({b, reach}) = reach
    BY <1>2, <1>5, MaxOfTwo, SMTT(30), Zenon
  <2> QED
    BY <2>1, <1>1, <1>2, <1>5, SMTT(30), Zenon
<1>7. \A k \in Keys : rows[k] \in Nat
  BY <1>2, FoldType, Zenon DEF IInv, StateIsFold, Fold
<1>8. SettledOK'
  <2>1. \A k \in Keys : rows[k] \in Backed \/ rows[k] > reach
    BY <1>2, <1>5, <1>7 DEF SettledOK
  <2>2. floor <= reach + 1
    BY <1>2, <1>5 DEF SettledOK
  <2> QED
    BY <2>1, <2>2, <1>1, <1>6, ZenonT(60), Zenon DEF SettledOK, Backed
<1>9. BlobsOK'
  BY <1>1, <1>2, <1>5, <1>6, <1>8, SMTT(30), Zenon DEF BlobsOK
<1>10. CycleOK'
  BY <1>1, Blanks, SMTT(30), Zenon DEF CycleOK
<1> QED
  BY <1>1, <1>6, <1>9, <1>10, Blanks, ViewStep, SMTT(30), Zenon DEF IInv, Types

LEMMA SearchHolds == ASSUME IInv, Search PROVE IInv'
<1>1. /\ UNCHANGED <<head, published, relay, rows, serial, floor, staged, recovery, blobs, members, pc,
                     replies, round, proved>>
      /\ views' = [views EXCEPT !.search = serial]
  BY Zenon DEF Search, writerVars, stateVars, cycleVars
<1>2. views' \in [search : Nat, blob : Nat] /\ views'.blob = views.blob
  BY <1>1, Zenon DEF IInv, Types
<1>3. BlobsOK' /\ CycleOK'
  BY <1>1, <1>2, StoreKept, SMTT(30), Zenon DEF IInv, CycleOK
<1> QED
  BY <1>1, <1>2, <1>3, ViewStep, SMTT(30), Zenon DEF IInv, Types

-----------------------------------------------------------------------------
(* The step, and the theorems.                                             *)

LEMMA StepHolds ==
    ASSUME IInv, [Next]_vars
    PROVE  IInv'
<1>1. CASE Write \/ publish_checkpoint \/ PinLapses \/ RelayFollows
  BY <1>1, WriteHolds, PublishHolds, PinHolds, RelayHolds, SMTT(30), Zenon
<1>2. CASE Cycle
  <2>1. CASE \E elapsed \in SUBSET Waiting : StartCycle(elapsed)
    BY <2>1, StartHolds, SMTT(30), Zenon
  <2>2. CASE Settle \/ ApplyBatch \/ EndRound \/ \E p \in Peers : Answer(p)
    BY <2>2, SettleHolds, ApplyHolds, EndRoundHolds, AnswerHolds, SMTT(30), Zenon
  <2>3. CASE SkipRecovery \/ ChunkRefused
    BY <2>3, GoesOn, ZenonT(60), Zenon DEF SkipRecovery, ChunkRefused
  <2>4. CASE StartTransfer \/ StageChunk \/ Install \/ Discard
    BY <2>4, StartTransferHolds, StageChunkHolds, InstallHolds, DiscardHolds, Zenon
  <2>5. CASE PullCheckpoint \/ Rebuild \/ advance_checkpoint_blob_recovery \/ PullTail \/ AdvanceFrontier
    BY <2>5, PullCheckpointHolds, RebuildHolds, AdvanceRecoveryHolds, PullTailHolds, AdvanceHolds, SMTT(30), Zenon
  <2> QED
    BY <1>2, <2>1, <2>2, <2>3, <2>4, <2>5, SMTT(30), Zenon DEF Cycle
<1>3. CASE \E p \in Peers : Lost(p)
  BY <1>3, LostHolds, SMTT(30), Zenon
<1>4. CASE RecoveryFails
  BY <1>4, GoesOn, ZenonT(60), Zenon DEF RecoveryFails
<1>5. CASE Search \/ Restart
  BY <1>5, SearchHolds, RestartHolds, Zenon
<1>6. CASE UNCHANGED vars
  <2>1. UNCHANGED <<head, published, relay, storeVars, cycleVars, proved>>
    BY <1>6, Zenon DEF vars, storeVars, cycleVars
  <2>2. published.rows = Fold(published.serial)
    BY Zenon DEF IInv, StateIsFold, Fold
  <2> QED
    BY <2>1, <2>2, WriterStep, SMTT(30), Zenon DEF IInv, Types
<1> QED
  BY <1>1, <1>2, <1>3, <1>4, <1>5, <1>6, SMTT(30), Zenon DEF Next

(* The inductive invariant holds of every behaviour. *)
THEOREM ReplicaInvariant == Spec => []IInv
BY InitHolds, StepHolds, PTL DEF Spec

(* The replica's rows are those the writer had at the replica's serial,    *)
(* and so is every checkpoint (apply_page, replace_state,                  *)
(* publish_checkpoint).                                                    *)
THEOREM ReplicaStateIsFold == Spec => []StateIsFold
<1>1. IInv => StateIsFold
  BY SMTT(30), Zenon DEF IInv
<1> QED
  BY <1>1, ReplicaInvariant, PTL

(* A replica that answers reads holds, or has found at a peer, the blob of *)
(* every row it serves (advance_blob_frontier, replace_state,              *)
(* advance_checkpoint_blob_recovery).                                      *)
THEOREM ReadableRowsAreBacked == Spec => []ReadableIsBacked
<1>1. ASSUME IInv, Serves PROVE Range(rows) \ {0} \subseteq blobs \cup proved
  <2>1. /\ serial \in Nat /\ views.search \in Nat /\ views.blob \in Nat /\ recovery.serial \in Nat
        /\ rows \in [Keys -> Nat] /\ \A k \in Keys : rows[k] \in 0..serial
    <3>1. serial \in Nat /\ views \in [search : Nat, blob : Nat]
      BY <1>1, Zenon DEF IInv, Types
    <3>2. recovery \in [serial : Nat, left : SUBSET Nat]
      BY <1>1, Zenon DEF IInv, Types
    <3>3. rows = Fold(serial)
      BY <1>1, Zenon DEF IInv, StateIsFold, Fold
    <3>4. rows \in [Keys -> Nat] /\ \A k \in Keys : rows[k] \in 0..serial
      BY <3>1, <3>3, FoldType, Zenon
    <3> QED
      BY <3>1, <3>2, <3>4, Zenon
  <2>2. serial <= views.blob
    <3> DEFINE S == {serial, views.search, views.blob}
    <3>1. S \in SUBSET Nat /\ S # {}
      BY <2>1, Zenon
    <3>2. Min(S) \in S /\ \A y \in S : Min(S) <= y
      BY <3>1, MinOf, SMTT(30), Zenon
    <3>3. Min(S) <= views.blob /\ Min(S) \in Nat /\ Min(S) >= serial
      BY <3>1, <3>2, <1>1, SMTT(30), Zenon DEF Serves, readable_frontier
    <3> HIDE DEF S
    <3> QED
      BY <3>3, <2>1, SMTT(30), Zenon
  <2>3. \A k \in Keys : rows[k] \in Backed
    <3>1. CASE recovery = NoRecovery
      BY <3>1, <2>1, <2>2, <1>1, SMTT(30), Zenon DEF IInv, BlobsOK, SettledOK
    <3>2. CASE recovery # NoRecovery
      <4>1. RecoveringOK
        BY <3>2, <1>1, SMTT(30), Zenon DEF IInv, BlobsOK
      <4>2. serial = 0
        BY <4>1, <2>1, <2>2, SMTT(30), Zenon DEF RecoveringOK
      <4>3. \A k \in Keys : rows[k] = 0
        BY <4>2, <2>1
      <4> QED
        BY <4>3, Zenon DEF Backed
    <3> QED
      BY <3>1, <3>2, SMTT(30), Zenon
  <2> QED
    BY <2>1, <2>3, SMTT(30), Zenon DEF Range, Backed
<1>2. IInv => ReadableIsBacked
  BY <1>1, Zenon DEF ReadableIsBacked
<1> QED
  BY <1>2, ReplicaInvariant, PTL
=============================================================================
