------------------------- MODULE HostedWriteProofs -------------------------
(***************************************************************************)
(* Theorems about hosted writes: uploads to a PyPI project, and the quota  *)
(* ledger they are charged to.                                             *)
(***************************************************************************)
EXTENDS PypiUpload, FiniteSetTheorems, WellFoundedInduction, NaturalsInduction, TLAPS

-----------------------------------------------------------------------------
(* What the transactions of the ledger do to its reservations.             *)

Reservation == [request : Requests, state : {"reserved", "committed"}]

Tables == {"usage", "resource", "group", "blob", "reservations", "allocation"}

LedgerOK(L) ==
    /\ DOMAIN L = Tables
    /\ Live(L) \subseteq Ids
    /\ L.reservations \in [Live(L) -> Reservation]

(* Reserving adds a pending reservation and changes no other. *)
LEMMA ReserveAdds ==
    ASSUME NEW L, LedgerOK(L), NEW id \in Ids, id \notin Live(L), NEW q \in Requests
    PROVE  LET R == reserve_quota(L, id, q)
           IN  /\ LedgerOK(R)
               /\ Live(R) = Live(L) \cup {id}
               /\ R.reservations[id] = [request |-> q, state |-> "reserved"]
               /\ \A i \in Live(L) : R.reservations[i] = L.reservations[i]
<1>. DEFINE counted == ReserveRows(L, q)
            row == [request |-> q, state |-> "reserved"]
<1>1. DOMAIN counted = Tables /\ counted.reservations = L.reservations
  BY Zenon DEF LedgerOK, Tables, ReserveRows
<1>2. row \in Reservation
  BY Zenon DEF Reservation
<1>. DEFINE R == reserve_quota(L, id, q)
<1>3. DOMAIN R = Tables /\ R.reservations = With(L.reservations, id, row)
  BY <1>1, Zenon DEF reserve_quota, Tables
<1>. HIDE DEF R, row, counted
<1>4. /\ Live(R) = Live(L) \cup {id}
      /\ R.reservations[id] = row
      /\ \A i \in Live(L) : R.reservations[i] = L.reservations[i]
      /\ R.reservations \in [Live(R) -> Reservation]
  BY <1>2, <1>3, Zenon DEF With, Live, LedgerOK
<1>. QED
  BY <1>3, <1>4, Zenon DEF R, row, LedgerOK

(* Committing changes the state of one reservation. *)
LEMMA CommitMoves ==
    ASSUME NEW L, LedgerOK(L), NEW id \in Pending(L)
    PROVE  LET R == commit_reservation(L, id)
           IN  /\ LedgerOK(R)
               /\ Live(R) = Live(L)
               /\ R.reservations[id] = [request |-> L.reservations[id].request, state |-> "committed"]
               /\ \A i \in Live(L) \ {id} : R.reservations[i] = L.reservations[i]
<1>. DEFINE q == L.reservations[id].request
            counted == CommitRows(L, q)
            R == commit_reservation(L, id)
<1>1. DOMAIN counted = Tables /\ counted.reservations = L.reservations
  BY Zenon DEF LedgerOK, Tables, CommitRows
<1>. HIDE DEF counted
<1>2. DOMAIN R = Tables /\ R.reservations = [L.reservations EXCEPT ![id].state = "committed"]
  BY <1>1, Zenon DEF commit_reservation, Tables, counted
<1>3. id \in Live(L) /\ L.reservations[id] \in Reservation
  BY Zenon DEF Pending, InState, LedgerOK
<1>. HIDE DEF R
<1>4. /\ Live(R) = Live(L)
      /\ R.reservations[id] = [request |-> q, state |-> "committed"]
      /\ \A i \in Live(L) \ {id} : R.reservations[i] = L.reservations[i]
      /\ R.reservations \in [Live(R) -> Reservation]
  BY <1>2, <1>3 DEF Live, LedgerOK, Reservation
<1>. QED
  BY <1>2, <1>4, Zenon DEF R, LedgerOK

(* Releasing removes one reservation, if there is one under the id. *)
LEMMA ReleaseDrops ==
    ASSUME NEW L, LedgerOK(L), NEW id
    PROVE  LET R == release(L, id)
           IN  /\ LedgerOK(R)
               /\ Live(R) = Live(L) \ {id}
               /\ \A i \in Live(R) : R.reservations[i] = L.reservations[i]
<1>. DEFINE r == L.reservations[id]
            counted == ReleaseRows(L, r.request, r.state)
            R == release(L, id)
<1>1. DOMAIN counted = Tables
  BY Zenon DEF LedgerOK, Tables, ReleaseRows
<1>2. counted.reservations = L.reservations
  BY Zenon DEF LedgerOK, Tables, ReleaseRows
<1>. HIDE DEF counted
<1>3. CASE id \notin Live(L)
  <2>1. R = L
    BY <1>3, Zenon DEF release
  <2>. QED
    BY <1>3, <2>1, Zenon DEF LedgerOK
<1>4. CASE id \in Live(L)
  <2>1. DOMAIN R = Tables /\ R.reservations = Without(L.reservations, id)
    BY <1>1, <1>2, <1>4, Zenon DEF release, Tables, counted
  <2>. HIDE DEF R
  <2>2. /\ Live(R) = Live(L) \ {id}
        /\ \A i \in Live(R) : R.reservations[i] = L.reservations[i]
        /\ R.reservations \in [Live(R) -> Reservation]
    BY <2>1, Zenon DEF Live, Without, LedgerOK
  <2>. QED
    BY <2>1, <2>2, Zenon DEF R, LedgerOK
<1>. QED
  BY <1>3, <1>4, Zenon

-----------------------------------------------------------------------------
(* A transaction that settles several reservations.                        *)

(* A nonempty set of naturals has a least element. *)
LEMMA LeastNumber ==
    ASSUME NEW S \in SUBSET Nat, S # {}
    PROVE  \E i \in S : \A j \in S : i <= j
<1>1. PICK i \in S : \A j \in S : ~(<<j, i>> \in OpToRel(<, Nat))
  BY NatLessThanWellFounded, WFMin, Zenon
<1>2. \A j \in S : ~(j < i)
  BY <1>1, Zenon DEF OpToRel
<1>. QED
  BY <1>2

(* The ledgers a settling transaction goes through, from the first to the  *)
(* one it leaves.                                                          *)
Run(L, order, committed, m, g) ==
    g = [n \in 0..m |->
          IF n = 0 THEN L ELSE settle_reservation(g[n - 1], order[n], order[n] \in committed)]

LEMMA SettleRuns ==
    ASSUME NEW L, NEW order, Len(order) \in Nat, NEW committed
    PROVE  \E g : /\ Run(L, order, committed, Len(order), g)
                  /\ settle_reservations(L, order, committed) = g[Len(order)]
<1>. DEFINE step(M, n) == settle_reservation(M, order[n], order[n] \in committed)
            Bad == {m \in Nat : ~ \E g : Run(L, order, committed, m, g)}
<1>1. Bad = {}
  <2>. SUFFICES ASSUME Bad # {} PROVE FALSE
    OBVIOUS
  <2>1. PICK m \in Bad : \A n \in Bad : m <= n
    BY LeastNumber, Zenon
  <2>2. Run(L, order, committed, 0, [n \in 0..0 |-> L])
    BY DEF Run
  <2>3. m \in Nat /\ m # 0
    BY <2>2, Zenon
  <2>4. m - 1 \in Nat /\ ~(m <= m - 1)
    BY <2>3
  <2>5. m - 1 \notin Bad
    BY <2>1, <2>4, Zenon
  <2>6. PICK g : Run(L, order, committed, m - 1, g)
    BY <2>4, <2>5, Zenon
  <2>. DEFINE h == [n \in 0..m |-> IF n = m THEN step(g[m - 1], m) ELSE g[n]]
  <2>7. \A n \in 0..m : h[n] = IF n = 0 THEN L ELSE step(h[n - 1], n)
    BY <2>3, <2>6 DEF Run
  <2>8. Run(L, order, committed, m, h)
    BY <2>7, Zenon DEF Run
  <2>. QED
    BY <2>8, Zenon
<1>2. PICK g : Run(L, order, committed, Len(order), g)
  BY <1>1, Zenon
<1>. QED
  BY <1>2, Zenon DEF settle_reservations, Run

(* One reservation. *)
LEMMA SettleOne ==
    ASSUME NEW L, NEW id, NEW committed
    PROVE  settle_reservations(L, <<id>>, committed) = settle_reservation(L, id, id \in committed)
<1>1. Len(<<id>>) = 1 /\ <<id>>[1] = id
  OBVIOUS
<1>2. PICK g : /\ Run(L, <<id>>, committed, 1, g)
               /\ settle_reservations(L, <<id>>, committed) = g[1]
  BY <1>1, SettleRuns, Zenon
<1>3. g[0] = L /\ g[1] = settle_reservation(g[0], id, id \in committed)
  BY <1>1, <1>2 DEF Run
<1>. QED
  BY <1>2, <1>3, Zenon

(* An order of a finite set names each of its elements. *)
LEMMA InOrderNames ==
    ASSUME NEW S, IsFiniteSet(S)
    PROVE  /\ Len(InOrder(S)) \in Nat
           /\ InOrder(S) \in [1..Len(InOrder(S)) -> S]
           /\ \A x \in S : \E n \in 1..Len(InOrder(S)) : InOrder(S)[n] = x
<1>. DEFINE c == Cardinality(S)
            f == InOrder(S)
<1>1. c \in Nat /\ ExistsBijection(1..c, S)
  BY FS_CardinalityType, Zenon
<1>2. f \in Bijection(1..c, S)
  BY <1>1, Zenon DEF ExistsBijection, InOrder
<1>3. f \in [1..c -> S] /\ \A x \in S : \E n \in 1..c : f[n] = x
  BY <1>2, Zenon DEF Bijection, Injection, Surjection
<1>. HIDE DEF f, c
<1>4. Len(f) = c
  BY <1>1, <1>3
<1>. QED
  BY <1>1, <1>3, <1>4, Zenon DEF f

(* Releasing every pending reservation, as the repair at startup does,     *)
(* leaves the committed ones and no other.                                 *)
LEMMA ReleaseSet ==
    ASSUME NEW L, LedgerOK(L), IsFiniteSet(Live(L)), NEW S, S \subseteq Pending(L)
    PROVE  LET R == settle_reservations(L, InOrder(S), {})
           IN  /\ LedgerOK(R)
               /\ Live(R) = Live(L) \ S
               /\ \A i \in Live(R) : R.reservations[i] = L.reservations[i]
<1>. DEFINE order == InOrder(S)
            R == settle_reservations(L, order, {})
            m == Len(order)
<1>1. IsFiniteSet(S)
  BY FS_Subset, Zenon DEF Pending, InState
<1>2. /\ m \in Nat
      /\ order \in [1..m -> S]
      /\ \A x \in S : \E n \in 1..m : order[n] = x
  BY <1>1, InOrderNames, Zenon
<1>. HIDE DEF order, m
<1>3. PICK g : Run(L, order, {}, m, g) /\ R = g[m]
  BY <1>2, SettleRuns DEF m
<1>4. g[0] = L /\ \A n \in 1..m : g[n] = release(g[n - 1], order[n])
  BY <1>2, <1>3 DEF Run, settle_reservation
<1>. DEFINE After(M, n) ==
              /\ LedgerOK(M)
              /\ Live(M) = Live(L) \ {order[k] : k \in 1..n}
              /\ \A i \in Live(M) : M.reservations[i] = L.reservations[i]
            Bad == {n \in 0..m : ~After(g[n], n)}
<1>5. Bad = {}
  <2>. SUFFICES ASSUME Bad # {} PROVE FALSE
    OBVIOUS
  <2>1. Bad \in SUBSET Nat
    BY <1>2
  <2>2. PICK n \in Bad : \A k \in Bad : n <= k
    BY <2>1, LeastNumber, Zenon
  <2>3. After(g[0], 0)
    BY <1>4
  <2>4. n \in 1..m
    BY <1>2, <2>2, <2>3
  <2>5. n - 1 \in 0..m /\ ~(n <= n - 1)
    BY <1>2, <2>4
  <2>6. After(g[n - 1], n - 1)
    BY <2>2, <2>5, Zenon
  <2>7. g[n] = release(g[n - 1], order[n])
    BY <1>4, <2>4, Zenon
  <2>8. {order[k] : k \in 1..n} = {order[k] : k \in 1..(n - 1)} \cup {order[n]}
    BY <1>2, <2>4
  <2>9. After(g[n], n)
    <3>. DEFINE M == g[n - 1]
    <3>. HIDE DEF M
    <3>1. /\ LedgerOK(release(M, order[n]))
          /\ Live(release(M, order[n])) = Live(M) \ {order[n]}
          /\ \A i \in Live(release(M, order[n])) :
               release(M, order[n]).reservations[i] = M.reservations[i]
      BY <2>6, ReleaseDrops, Zenon DEF M
    <3>2. release(M, order[n]) = g[n]
      BY <2>7, Zenon DEF M
    <3>. QED
      BY <2>6, <2>8, <3>1, <3>2, Zenon DEF M
  <2>. QED
    BY <2>2, <2>9, Zenon
<1>6. After(g[m], m)
  <2>1. m \in 0..m
    BY <1>2
  <2>. QED
    BY <1>5, <2>1, Zenon
<1>7. {order[k] : k \in 1..m} = S
  BY <1>2, Zenon
<1>. QED
  BY <1>3, <1>6, <1>7, Zenon DEF order

-----------------------------------------------------------------------------
(* Uploads to a PyPI project: the inductive invariant.                     *)

UploadSteps == {"idle", "claiming", "homing", "storing", "publishing", "leaving", "advancing", "acking", "releasing"}

IntentFields == {"phase", "authority", "seq", "digest", "size", "payload", "refusals"}

BookOK(I) ==
    /\ DOMAIN I = {"records", "order", "counts", "seq"}
    /\ Staged(I) \subseteq Files
    /\ \A k \in Staged(I) : DOMAIN I.records[k] = IntentFields

Admitted(I) == {k \in Staged(I) : I.records[k].phase = "admitted"}

UploadOK(r) ==
    /\ DOMAIN r = {"pc", "op", "id", "fresh"}
    /\ r.pc \in UploadSteps
    /\ r.pc # "idle" => r.op \in Operations

Types ==
    /\ LedgerOK(quota) /\ IsFiniteSet(Live(quota)) /\ IsFiniteSet(Served)
    /\ BookOK(intents)
    /\ outcomes \in [Operations -> {"none", "pending", "published", "failed"}]
    /\ rows \in [Files -> Digests \cup {None}]
    /\ DOMAIN upload = Uploads
    /\ \A u \in Uploads : UploadOK(upload[u])
    /\ DOMAIN finalizer = Finalizers
    /\ \A f \in Finalizers : DOMAIN finalizer[f] = {"pc", "queue"}

(* Whoever is about to settle has seen a row of the file. *)
RowsSeen ==
    /\ \A u \in Uploads : upload[u].pc \in {"leaving", "advancing", "acking"} => rows[FileOf(u)] # None
    /\ \A f \in Finalizers : finalizer[f].pc = "publishing" => Offered(f).file \in Served

(* While it stores and publishes a request holds the id of a reservation   *)
(* for its digest, which the reaper may have taken and nobody committed,   *)
(* and none before or after; no two hold the same.                         *)
HoldsOwn(u) ==
    IF upload[u].pc \in {"storing", "publishing"}
    THEN /\ upload[u].id \in Ids \ Committed(quota)
         /\ upload[u].id \in Pending(quota) =>
              quota.reservations[upload[u].id].request = RequestOf(DigestOf(u))
    ELSE upload[u].id = None
Holdings ==
    /\ \A u \in Uploads : HoldsOwn(u)
    /\ \A u, v \in Uploads : upload[u].id # None /\ upload[u].id = upload[v].id => u = v
    /\ \A id \in Pending(quota) : \E u \in Uploads : upload[u].id = id

IInv ==
    /\ Types /\ RowsSeen /\ Holdings /\ ChargedAsServed /\ SettledIsServed

-----------------------------------------------------------------------------
(* The intents' transactions.                                              *)

(* Staging puts a pending intent at most. *)
LEMMA StageKeeps ==
    ASSUME NEW I, BookOK(I), NEW a, a.key \in Files
    PROVE  BookOK(stage_intent(I, a)) /\ Admitted(stage_intent(I, a)) \subseteq Admitted(I)
<1>1. CASE stage_intent(I, a) = I
  BY <1>1, Zenon
<1>2. CASE stage_intent(I, a) # I
  BY <1>2, Zenon DEF stage_intent, BookOK, Admitted, Staged, Put, IntentFields
<1>. QED
  BY <1>1, <1>2, Zenon

(* Advancing settles one intent at most. *)
LEMMA AdvanceKeeps ==
    ASSUME NEW I, BookOK(I), NEW key, NEW to
    PROVE  /\ BookOK(advance_intent(I, key, to))
           /\ Admitted(advance_intent(I, key, to)) \subseteq Admitted(I) \cup {key}
           /\ to = "expired" => Admitted(advance_intent(I, key, to)) \subseteq Admitted(I)
<1>. DEFINE J == advance_intent(I, key, to)
<1>1. CASE J = I
  BY <1>1, Zenon
<1>2. CASE J # I
  <2>1. /\ DOMAIN J = DOMAIN I
        /\ key \in Staged(I)
        /\ J.records = [I.records EXCEPT ![key].phase = to]
    BY <1>2, Zenon DEF advance_intent, BookOK
  <2>. HIDE DEF J
  <2>2. /\ Staged(J) = Staged(I)
        /\ J.records[key] = [I.records[key] EXCEPT !.phase = to]
        /\ \A k \in Staged(I) \ {key} : J.records[k] = I.records[k]
    BY <2>1, Zenon DEF Staged
  <2>3. DOMAIN J.records[key] = IntentFields /\ J.records[key].phase = to
    BY <2>1, <2>2, Zenon DEF BookOK, IntentFields
  <2>. QED
    BY <2>1, <2>2, <2>3, Zenon DEF BookOK, Admitted, J
<1>. QED
  BY <1>1, <1>2, Zenon

LEMMA RefuseKeeps ==
    ASSUME NEW I, BookOK(I), NEW key
    PROVE  BookOK(refuse_intent(I, key)) /\ Admitted(refuse_intent(I, key)) \subseteq Admitted(I)
<1>. DEFINE J == refuse_intent(I, key)
<1>1. CASE J = I
  BY <1>1, Zenon
<1>2. CASE J # I
  <2>1. /\ DOMAIN J = DOMAIN I
        /\ key \in Staged(I)
        /\ \E n : J.records = [I.records EXCEPT ![key].refusals = n]
    BY <1>2, Zenon DEF refuse_intent, BookOK, PhaseOf
  <2>. HIDE DEF J
  <2>2. /\ Staged(J) = Staged(I)
        /\ \E n : J.records[key] = [I.records[key] EXCEPT !.refusals = n]
        /\ \A k \in Staged(I) \ {key} : J.records[k] = I.records[k]
    BY <2>1, Zenon DEF Staged
  <2>3. DOMAIN J.records[key] = IntentFields /\ J.records[key].phase = I.records[key].phase
    BY <2>1, <2>2, Zenon DEF BookOK, IntentFields
  <2>. QED
    BY <2>1, <2>2, <2>3, Zenon DEF BookOK, Admitted, J
<1>. QED
  BY <1>1, <1>2, Zenon

(* Releasing and pruning remove an intent. *)
LEMMA RemovalKeeps ==
    ASSUME NEW I, BookOK(I), NEW key
    PROVE  /\ BookOK(release_intent(I, key)) /\ Admitted(release_intent(I, key)) \subseteq Admitted(I)
           /\ BookOK(prune_ingress_intents(I, key))
           /\ Admitted(prune_ingress_intents(I, key)) \subseteq Admitted(I)
<1>1. \A J : DOMAIN J = DOMAIN I /\ J.records = Drop(I.records, key)
               => BookOK(J) /\ Admitted(J) \subseteq Admitted(I)
  BY Zenon DEF BookOK, Admitted, Staged, Drop
<1>2. \/ release_intent(I, key) = I
      \/ /\ DOMAIN release_intent(I, key) = DOMAIN I
         /\ release_intent(I, key).records = Drop(I.records, key)
  BY Zenon DEF release_intent, BookOK
<1>3. /\ DOMAIN prune_ingress_intents(I, key) = DOMAIN I
      /\ prune_ingress_intents(I, key).records = Drop(I.records, key)
  BY Zenon DEF prune_ingress_intents, BookOK
<1>. QED
  BY <1>1, <1>2, <1>3, Zenon

-----------------------------------------------------------------------------
(* Steps that write no row and settle no reservation.                      *)

Holding == {"storing", "publishing"}
Settling == {"leaving", "advancing", "acking"}

(* What such a step may do to the requests, the passes and the ledgers of  *)
(* intents and outcomes.                                                   *)
UploadsQuiet ==
    /\ DOMAIN upload' = Uploads
    /\ \A u \in Uploads :
         /\ UploadOK(upload'[u])
         /\ upload'[u].id = upload[u].id
         /\ upload'[u].pc \in Holding <=> upload[u].pc \in Holding
         /\ upload'[u].pc \in Holding => upload'[u].op = upload[u].op
         /\ upload'[u].pc \in Settling => rows[upload'[u].op.file] # None
PassesQuiet ==
    /\ DOMAIN finalizer' = Finalizers
    /\ \A f \in Finalizers :
         /\ DOMAIN finalizer'[f] = {"pc", "queue"}
         /\ finalizer'[f].pc = "publishing" => Offered(f)'.file \in Served
IntentsQuiet ==
    /\ BookOK(intents')
    /\ \A k \in Admitted(intents') : k \in Admitted(intents) \/ rows[k] # None
OutcomesQuiet ==
    /\ outcomes' \in [Operations -> {"none", "pending", "published", "failed"}]
    /\ \A op \in Operations :
         outcomes'[op] = "published" => outcomes[op] = "published" \/ rows[op.file] # None

LEMMA QuietStep ==
    ASSUME IInv, quota' = quota, rows' = rows,
           UploadsQuiet, PassesQuiet, IntentsQuiet, OutcomesQuiet
    PROVE  IInv'
<1>1. Served' = Served
  BY Zenon DEF Served
<1>2. Types'
  BY <1>1, Zenon DEF IInv, Types, UploadsQuiet, PassesQuiet, IntentsQuiet, OutcomesQuiet
<1>3. RowsSeen'
  BY <1>1, Zenon DEF RowsSeen, UploadsQuiet, PassesQuiet, FileOf, Settling
<1>4. Holdings'
  <2>1. \A u \in Uploads : HoldsOwn(u)'
    <3>. TAKE u \in Uploads
    <3>1. HoldsOwn(u)
      BY Zenon DEF IInv, Holdings
    <3>. QED
      BY <3>1, Zenon DEF HoldsOwn, UploadsQuiet, Holding, DigestOf
  <2>2. \A u, v \in Uploads : upload'[u].id # None /\ upload'[u].id = upload'[v].id => u = v
    BY Zenon DEF IInv, Holdings, UploadsQuiet
  <2>3. \A id \in Pending(quota') : \E u \in Uploads : upload'[u].id = id
    <3>1. \A id \in Pending(quota) : \E u \in Uploads : upload[u].id = id
      BY Zenon DEF IInv, Holdings
    <3>. QED
      BY <3>1 DEF UploadsQuiet
  <2>. QED
    BY <2>1, <2>2, <2>3, Zenon DEF Holdings
<1>5. ChargedAsServed'
  BY <1>1, Zenon DEF IInv, ChargedAsServed, Charge
<1>6. SettledIsServed'
  BY Zenon DEF IInv, SettledIsServed, IntentsQuiet, OutcomesQuiet, Admitted, PhaseOf
<1>. QED
  BY <1>2, <1>3, <1>4, <1>5, <1>6, Zenon DEF IInv

(* What stays as it is, is quiet. *)
LEMMA QuietFrames ==
    ASSUME IInv
    PROVE  /\ upload' = upload => UploadsQuiet
           /\ finalizer' = finalizer => PassesQuiet
           /\ intents' = intents => IntentsQuiet
           /\ outcomes' = outcomes => OutcomesQuiet
<1>1. ASSUME upload' = upload PROVE UploadsQuiet
  BY <1>1, Zenon DEF IInv, Types, RowsSeen, UploadsQuiet, FileOf, Settling
<1>2. ASSUME finalizer' = finalizer PROVE PassesQuiet
  BY <1>2, Zenon DEF IInv, Types, RowsSeen, PassesQuiet, Offered
<1>3. ASSUME intents' = intents PROVE IntentsQuiet
  BY <1>3, Zenon DEF IInv, Types, IntentsQuiet
<1>4. ASSUME outcomes' = outcomes PROVE OutcomesQuiet
  BY <1>4, Zenon DEF IInv, Types, OutcomesQuiet
<1>. QED
  BY <1>1, <1>2, <1>3, <1>4, Zenon

(* A request that goes on keeps what it is for and what it holds. *)
LEMMA GotoMoves ==
    ASSUME Types, NEW u \in Uploads, NEW pc, Goto(u, pc)
    PROVE  /\ DOMAIN upload' = Uploads
           /\ \A v \in Uploads \ {u} : upload'[v] = upload[v]
           /\ DOMAIN upload'[u] = DOMAIN upload[u]
           /\ upload'[u].pc = pc /\ upload'[u].op = upload[u].op /\ upload'[u].id = upload[u].id
<1>1. upload'[u] = [upload[u] EXCEPT !.pc = pc] /\ DOMAIN upload' = Uploads
  BY Zenon DEF Types, Goto
<1>2. DOMAIN upload[u] = {"pc", "op", "id", "fresh"}
  BY Zenon DEF Types, UploadOK
<1>3. \A v \in Uploads \ {u} : upload'[v] = upload[v]
  BY Zenon DEF Types, Goto
<1>. QED
  BY <1>1, <1>2, <1>3, Zenon

LEMMA GotoQuiet ==
    ASSUME IInv, NEW u \in Uploads, NEW pc \in UploadSteps, Goto(u, pc), upload[u].pc # "idle",
           pc \in Holding <=> upload[u].pc \in Holding,
           pc \in Settling => rows[FileOf(u)] # None
    PROVE  UploadsQuiet
<1>1. Types
  BY Zenon DEF IInv
<1>2. /\ DOMAIN upload' = Uploads
      /\ \A v \in Uploads \ {u} : upload'[v] = upload[v]
      /\ DOMAIN upload'[u] = DOMAIN upload[u]
      /\ upload'[u].pc = pc /\ upload'[u].op = upload[u].op /\ upload'[u].id = upload[u].id
  BY <1>1, GotoMoves, Zenon
<1>3. UploadOK(upload'[u])
  BY <1>1, <1>2, Zenon DEF Types, UploadOK
<1>. QED
  BY <1>1, <1>2, <1>3 DEF UploadsQuiet, IInv, Types, RowsSeen, FileOf, Settling

(* A request that ends holds nothing. *)
LEMMA DoneQuiet ==
    ASSUME IInv, NEW u \in Uploads, Done(u), upload[u].pc \notin Holding
    PROVE  UploadsQuiet
<1>1. upload'[u] = Idle /\ DOMAIN upload' = Uploads /\ \A v \in Uploads \ {u} : upload'[v] = upload[v]
  BY Zenon DEF IInv, Types, Done
<1>2. upload[u].id = None
  BY Zenon DEF IInv, Holdings, HoldsOwn, Holding
<1>3. UploadOK(Idle) /\ Idle.pc = "idle" /\ Idle.id = None
  BY Zenon DEF UploadOK, Idle, UploadSteps
<1>. QED
  BY <1>1, <1>2, <1>3, Zenon DEF UploadsQuiet, IInv, Types, RowsSeen, FileOf, Settling, Holding

(* A pass that moves on proves nothing it has not seen. *)
LEMMA PassQuiet ==
    ASSUME IInv, NEW f \in Finalizers, NEW pass, Pass(f, pass), DOMAIN pass = {"pc", "queue"},
           pass.pc = "publishing" => Head(pass.queue).file \in Served
    PROVE  PassesQuiet
<1>1. /\ finalizer'[f] = pass /\ DOMAIN finalizer' = Finalizers
      /\ \A g \in Finalizers \ {f} : finalizer'[g] = finalizer[g]
  BY Zenon DEF IInv, Types, Pass
<1>. QED
  BY <1>1, Zenon DEF PassesQuiet, IInv, Types, RowsSeen, Offered

LEMMA PoppedPass ==
    ASSUME NEW f
    PROVE  DOMAIN Popped(f) = {"pc", "queue"} /\ Popped(f).pc # "publishing"
BY Zenon DEF Popped, NoPass

-----------------------------------------------------------------------------
(* The quiet actions of a request.                                         *)

LEMMA AdmitKeeps ==
    ASSUME IInv, NEW u \in Uploads, NEW c \in Operations, Admit(u, c)
    PROVE  IInv'
<1>. DEFINE r == [pc |-> "claiming", op |-> c, id |-> None,
                  fresh |-> stage_outcome(intents, Admission(c)) = "admitted"]
<1>1. /\ upload'[u] = r /\ DOMAIN upload' = Uploads
      /\ \A v \in Uploads \ {u} : upload'[v] = upload[v]
      /\ upload[u].pc = "idle" /\ intents' = stage_intent(intents, Admission(c))
      /\ UNCHANGED <<quota, outcomes, rows, finalizer>>
  BY Zenon DEF Admit, IInv, Types
<1>2. UploadOK(r) /\ r.pc = "claiming" /\ r.id = None
  BY Zenon DEF UploadOK, UploadSteps
<1>3. upload[u].id = None
  BY <1>1, Zenon DEF IInv, Holdings, HoldsOwn
<1>. HIDE DEF r
<1>4. UploadsQuiet
  BY <1>1, <1>2, <1>3, Zenon DEF UploadsQuiet, IInv, Types, RowsSeen, FileOf, Settling, Holding
<1>5. IntentsQuiet
  <2>1. Admission(c).key \in Files
    BY Zenon DEF Admission, Operations
  <2>. QED
    BY <1>1, <2>1, StageKeeps, Zenon DEF IInv, Types, IntentsQuiet
<1>. QED
  BY <1>1, <1>4, <1>5, QuietStep, QuietFrames, Zenon

LEMMA ClaimKeeps ==
    ASSUME IInv, NEW u \in Uploads, Claim(u)
    PROVE  IInv'
<1>1. upload[u].op \in Operations
  BY Zenon DEF Claim, IInv, Types, UploadOK
<1>2. OutcomesQuiet
  BY <1>1, Zenon DEF Claim, claim_operation, OutcomesQuiet, IInv, Types
<1>3. UploadsQuiet
  <2>. DEFINE pc == IF outcomes[upload[u].op] = "published" THEN "releasing" ELSE "homing"
  <2>1. /\ Goto(u, pc) /\ pc \in UploadSteps /\ pc \notin Holding /\ pc \notin Settling
        /\ upload[u].pc # "idle" /\ upload[u].pc \notin Holding
    BY Zenon DEF Claim, UploadSteps, Holding, Settling
  <2>. HIDE DEF pc
  <2>. QED
    BY <2>1, GotoQuiet, Zenon
<1>4. UNCHANGED <<quota, rows, intents, finalizer>>
  BY Zenon DEF Claim
<1>. QED
  BY <1>2, <1>3, <1>4, QuietStep, QuietFrames, Zenon

(* Going on without touching anything an upload may not. *)
LEMMA MoveKeeps ==
    ASSUME IInv, NEW u \in Uploads, NEW pc \in UploadSteps, Goto(u, pc), upload[u].pc # "idle",
           pc \in Holding <=> upload[u].pc \in Holding,
           pc \in Settling => rows[FileOf(u)] # None,
           UNCHANGED <<quota, rows, outcomes, finalizer>>, IntentsQuiet
    PROVE  IInv'
<1>1. UploadsQuiet
  BY GotoQuiet, Zenon
<1>. QED
  BY <1>1, QuietStep, QuietFrames, Zenon

LEMMA HomelessKeeps ==
    ASSUME IInv, NEW u \in Uploads, Homeless(u)
    PROVE  IInv'
<1>1. /\ Goto(u, "releasing") /\ upload[u].pc = "homing"
      /\ UNCHANGED <<quota, rows, outcomes, finalizer>> /\ intents' = intents
  BY Zenon DEF Homeless
<1>2. /\ "releasing" \in UploadSteps /\ "releasing" \notin Holding /\ "releasing" \notin Settling
      /\ "homing" \notin Holding
  BY Zenon DEF UploadSteps, Holding, Settling
<1>. QED
  BY <1>1, <1>2, MoveKeeps, QuietFrames, Zenon

LEMMA StoreKeeps ==
    ASSUME IInv, NEW u \in Uploads, Store(u)
    PROVE  IInv'
<1>1. /\ Goto(u, "publishing") /\ upload[u].pc = "storing"
      /\ UNCHANGED <<quota, rows, outcomes, finalizer>> /\ intents' = intents
  BY Zenon DEF Store
<1>2. /\ "publishing" \in UploadSteps /\ "publishing" \in Holding /\ "publishing" \notin Settling
      /\ "storing" \in Holding
  BY Zenon DEF UploadSteps, Holding, Settling
<1>. QED
  BY <1>1, <1>2, MoveKeeps, QuietFrames, Zenon

LEMMA PlaceKeeps ==
    ASSUME IInv, NEW u \in Uploads, Place(u)
    PROVE  IInv'
<1>1. /\ Goto(u, "advancing") /\ upload[u].pc = "leaving"
      /\ UNCHANGED <<quota, rows, outcomes, finalizer>> /\ intents' = intents
  BY Zenon DEF Place
<1>2. "advancing" \in UploadSteps /\ "advancing" \notin Holding /\ "leaving" \notin Holding
  BY Zenon DEF UploadSteps, Holding
<1>3. rows[FileOf(u)] # None
  BY <1>1, Zenon DEF IInv, RowsSeen
<1>. QED
  BY <1>1, <1>2, <1>3, MoveKeeps, QuietFrames, Zenon

LEMMA AdvanceStepKeeps ==
    ASSUME IInv, NEW u \in Uploads, Advance(u)
    PROVE  IInv'
<1>1. /\ Goto(u, "acking") /\ upload[u].pc = "advancing"
      /\ UNCHANGED <<quota, rows, outcomes, finalizer>>
      /\ intents' = advance_intent(intents, FileOf(u), "admitted")
  BY Zenon DEF Advance
<1>2. "acking" \in UploadSteps /\ "acking" \notin Holding /\ "advancing" \notin Holding
  BY Zenon DEF UploadSteps, Holding
<1>3. rows[FileOf(u)] # None
  BY <1>1, Zenon DEF IInv, RowsSeen
<1>4. IntentsQuiet
  BY <1>1, <1>3, AdvanceKeeps, Zenon DEF IntentsQuiet, IInv, Types
<1>. QED
  BY <1>1, <1>2, <1>3, <1>4, MoveKeeps, Zenon

LEMMA AcknowledgeKeeps ==
    ASSUME IInv, NEW u \in Uploads, NEW proven \in BOOLEAN, Acknowledge(u, proven)
    PROVE  IInv'
<1>1. /\ Done(u) /\ upload[u].pc = "acking" /\ upload[u].pc \notin Holding
      /\ UNCHANGED <<quota, rows, intents, finalizer>>
  BY Zenon DEF Acknowledge, Holding
<1>2. rows[FileOf(u)] # None
  BY <1>1, Zenon DEF IInv, RowsSeen
<1>3. OutcomesQuiet
  BY <1>1, <1>2, Zenon DEF Acknowledge, finalize_operation, OutcomesQuiet, IInv, Types, FileOf
<1>. QED
  BY <1>1, <1>3, DoneQuiet, QuietStep, QuietFrames, Zenon

LEMMA ReleaseStepKeeps ==
    ASSUME IInv, NEW u \in Uploads, Release(u)
    PROVE  IInv'
<1>1. /\ Done(u) /\ upload[u].pc \notin Holding
      /\ UNCHANGED <<quota, rows, outcomes, finalizer>>
      /\ intents' = intents \/ intents' = release_intent(intents, FileOf(u))
  BY Zenon DEF Release, Holding
<1>2. IntentsQuiet
  BY <1>1, RemovalKeeps, QuietFrames DEF IntentsQuiet, IInv, Types
<1>. QED
  BY <1>1, <1>2, DoneQuiet, QuietStep, QuietFrames, Zenon

-----------------------------------------------------------------------------
(* The finalizer and the maintenance: every step of theirs is quiet.       *)

LEMMA FinalizeKeeps ==
    ASSUME IInv, NEW f \in Finalizers, Finalize(f)
    PROVE  IInv'
<1>. USE DEF IInv
<1>1. UNCHANGED <<quota, rows, upload>>
  BY Zenon DEF Finalize, SweepStart, DrainStart, Refuse, Skip, Look, commit_finalized_write
<1>2. CASE SweepStart(f)
  <2>. DEFINE pending == list_pending_intents(intents)
              pass == [pc |-> "next", queue |-> [i \in DOMAIN pending |-> Offer(pending[i])]]
  <2>1. Pass(f, pass) /\ UNCHANGED <<intents, outcomes>>
    BY <1>2, Zenon DEF SweepStart
  <2>2. DOMAIN pass = {"pc", "queue"} /\ pass.pc # "publishing"
    OBVIOUS
  <2>. HIDE DEF pass
  <2>3. PassesQuiet
    BY <2>1, <2>2, PassQuiet, Zenon
  <2>. QED
    BY <1>1, <2>1, <2>3, QuietStep, QuietFrames, Zenon
<1>3. CASE DrainStart(f)
  <2>1. PICK file : Pass(f, [pc |-> "next", queue |-> <<Offer(file)>>])
    BY <1>3, Zenon DEF DrainStart
  <2>. DEFINE pass == [pc |-> "next", queue |-> <<Offer(file)>>]
  <2>2. DOMAIN pass = {"pc", "queue"} /\ pass.pc # "publishing"
    OBVIOUS
  <2>3. Pass(f, pass) /\ UNCHANGED <<intents, outcomes>>
    BY <1>3, <2>1, Zenon DEF DrainStart
  <2>. HIDE DEF pass
  <2>4. PassesQuiet
    BY <2>2, <2>3, PassQuiet, Zenon
  <2>. QED
    BY <1>1, <2>3, <2>4, QuietStep, QuietFrames, Zenon
<1>4. CASE Refuse(f)
  <2>1. /\ Pass(f, Popped(f)) /\ UNCHANGED outcomes
        /\ intents' = refuse_intent(intents, Offered(f).file)
    BY <1>4, Zenon DEF Refuse
  <2>2. PassesQuiet
    BY <2>1, PassQuiet, PoppedPass, Zenon
  <2>3. IntentsQuiet
    BY <2>1, RefuseKeeps, Zenon DEF IntentsQuiet, Types
  <2>. QED
    BY <1>1, <2>1, <2>2, <2>3, QuietStep, QuietFrames, Zenon
<1>5. CASE Skip(f)
  <2>1. Pass(f, Popped(f)) /\ UNCHANGED <<intents, outcomes>>
    BY <1>5, Zenon DEF Skip
  <2>2. PassesQuiet
    BY <2>1, PassQuiet, PoppedPass, Zenon
  <2>. QED
    BY <1>1, <2>1, <2>2, QuietStep, QuietFrames, Zenon
<1>6. CASE Look(f)
  <2>. DEFINE on == [finalizer[f] EXCEPT !.pc = "publishing"]
  <2>1. /\ Offered(f).file \in Served
        /\ Pass(f, Popped(f)) \/ Pass(f, on)
        /\ UNCHANGED <<intents, outcomes>>
    BY <1>6, Zenon DEF Look, Types, BookOK, Served
  <2>2. DOMAIN finalizer[f] = {"pc", "queue"}
    BY Zenon DEF Types
  <2>3. DOMAIN on = {"pc", "queue"} /\ on.queue = finalizer[f].queue
    BY <2>2, Zenon
  <2>. HIDE DEF on
  <2>4. PassesQuiet
    BY <2>1, <2>3, PassQuiet, PoppedPass, Zenon DEF Offered
  <2>. QED
    BY <1>1, <2>1, <2>4, QuietStep, QuietFrames, Zenon
<1>7. CASE commit_finalized_write(f)
  <2>1. rows[Offered(f).file] # None
    BY <1>7, Zenon DEF commit_finalized_write, RowsSeen, Served
  <2>2. Pass(f, Popped(f))
    BY <1>7, Zenon DEF commit_finalized_write
  <2>3. PassesQuiet
    BY <2>2, PassQuiet, PoppedPass, Zenon
  <2>4. IntentsQuiet
    <3>1. intents' = intents \/ intents' = advance_intent(intents, Offered(f).file, "admitted")
      BY <1>7, Zenon DEF commit_finalized_write
    <3>. QED
      BY <2>1, <3>1, AdvanceKeeps, QuietFrames DEF IntentsQuiet, Types
  <2>5. OutcomesQuiet
    <3>1. outcomes' = outcomes \/ outcomes' = [outcomes EXCEPT ![Offered(f)] = "published"]
      BY <1>7, Zenon DEF commit_finalized_write
    <3>. QED
      BY <2>1, <3>1, Zenon DEF OutcomesQuiet, Types
  <2>. QED
    BY <1>1, <2>3, <2>4, <2>5, QuietStep, QuietFrames, Zenon
<1>. QED
  BY <1>2, <1>3, <1>4, <1>5, <1>6, <1>7, Zenon DEF Finalize

LEMMA MaintenanceKeeps ==
    ASSUME IInv,
           \/ \E d \in Digests : Observe(d)
           \/ \E file \in Files : Expire(file) \/ Prune(file)
           \/ \E op \in Operations : prune_operation_outcomes(op)
    PROVE  IInv'
<1>1. UNCHANGED <<quota, rows, upload, finalizer>>
  BY Zenon DEF Observe, Expire, Prune, prune_operation_outcomes
<1>2. IntentsQuiet
  <2>1. \/ intents' = intents
        \/ \E file : intents' = advance_intent(intents, file, "expired")
        \/ \E file : intents' = prune_ingress_intents(intents, file)
    BY Zenon DEF Observe, Expire, Prune, prune_operation_outcomes, expire_stale_intents
  <2>2. BookOK(intents)
    BY Zenon DEF IInv, Types
  <2>3. CASE intents' = intents
    BY <2>3, QuietFrames, Zenon
  <2>4. CASE \E file : intents' = advance_intent(intents, file, "expired")
    BY <2>2, <2>4, AdvanceKeeps DEF IntentsQuiet
  <2>5. CASE \E file : intents' = prune_ingress_intents(intents, file)
    BY <2>2, <2>5, RemovalKeeps, Zenon DEF IntentsQuiet
  <2>. QED
    BY <2>1, <2>3, <2>4, <2>5, Zenon
<1>3. OutcomesQuiet
  <2>1. outcomes' = outcomes \/ \E op \in Operations : outcomes' = [outcomes EXCEPT ![op] = "none"]
    BY Zenon DEF Observe, Expire, Prune, prune_operation_outcomes
  <2>2. CASE outcomes' = outcomes
    BY <2>2, QuietFrames, Zenon
  <2>3. CASE \E op \in Operations : outcomes' = [outcomes EXCEPT ![op] = "none"]
    BY <2>3, Zenon DEF OutcomesQuiet, IInv, Types
  <2>. QED
    BY <2>1, <2>2, <2>3, Zenon
<1>. QED
  BY <1>1, <1>2, <1>3, QuietStep, QuietFrames, Zenon

-----------------------------------------------------------------------------
(* Steps that settle a reservation.                                        *)

(* What a request in flight holds. *)
LEMMA HeldReservation ==
    ASSUME IInv, NEW u \in Uploads, upload[u].pc \in Holding
    PROVE  /\ upload[u].id \notin Committed(quota) /\ upload[u].id # None
           /\ upload[u].id \in Pending(quota) =>
                quota.reservations[upload[u].id].request = RequestOf(DigestOf(u))
           /\ upload[u].op \in Operations
<1>1. HoldsOwn(u) /\ UploadOK(upload[u])
  BY Zenon DEF IInv, Holdings, Types
<1>2. upload[u].id \in Ids \ Committed(quota)
  BY <1>1, Zenon DEF HoldsOwn, Holding
<1>. QED
  BY <1>1, <1>2, UploadAssumption, Zenon DEF HoldsOwn, Holding, UploadOK

(* A request returns its reservation: an upload that fails, is dropped, or *)
(* finds its row there already.                                            *)
LEMMA UnwindStep ==
    ASSUME IInv, NEW u \in Uploads, upload[u].pc \in Holding,
           quota' = release(quota, upload[u].id), rows' = rows,
           UNCHANGED <<intents, outcomes, finalizer>>,
           DOMAIN upload' = Uploads,
           \A v \in Uploads \ {u} : upload'[v] = upload[v],
           UploadOK(upload'[u]), upload'[u].id = None, upload'[u].pc \notin Holding,
           upload'[u].pc \in Settling => rows[upload'[u].op.file] # None
    PROVE  IInv'
<1>. DEFINE id == upload[u].id
            R == quota'
<1>1. id \notin Committed(quota) /\ id # None
  BY HeldReservation, Zenon
<1>2. /\ LedgerOK(R) /\ Live(R) = Live(quota) \ {id}
      /\ \A i \in Live(R) : R.reservations[i] = quota.reservations[i]
  <2>1. LedgerOK(quota)
    BY Zenon DEF IInv, Types
  <2>2. R = release(quota, id)
    OBVIOUS
  <2>. HIDE DEF R, id
  <2>. QED
    BY <2>1, <2>2, ReleaseDrops
<1>. HIDE DEF id, R
<1>3. Committed(R) = Committed(quota) /\ Pending(R) = Pending(quota) \ {id}
  BY <1>1, <1>2 DEF Committed, Pending, InState
<1>4. Served' = Served
  BY Zenon DEF Served
<1>5. Types'
  <2>1. LedgerOK(quota') /\ IsFiniteSet(Live(quota'))
    <3>1. IsFiniteSet(Live(quota))
      BY Zenon DEF IInv, Types
    <3>2. IsFiniteSet(Live(quota) \ {id})
      BY <3>1, FS_RemoveElement, Zenon
    <3>. QED
      BY <1>2, <3>2, Zenon DEF R
  <2>. QED
    BY <1>4, <2>1, Zenon DEF IInv, Types
<1>6. RowsSeen'
  BY <1>4 DEF IInv, RowsSeen, FileOf, Settling, Offered
<1>7. Holdings'
  <2>1. ASSUME NEW v \in Uploads PROVE HoldsOwn(v)'
    <3>1. CASE v = u
      BY <3>1, Zenon DEF HoldsOwn, Holding
    <3>2. CASE v # u
      <4>1. HoldsOwn(v) /\ upload'[v] = upload[v]
        BY <3>2, Zenon DEF IInv, Holdings
      <4>2. upload[v].id # id
        BY <1>1, <3>2, Zenon DEF IInv, Holdings, id
      <4>3. upload[v].id \in Pending(quota) =>
              R.reservations[upload[v].id] = quota.reservations[upload[v].id]
        BY <1>2, <4>2, Zenon DEF Pending, InState
      <4>4. Pending(quota') = Pending(quota) \ {id} /\ Committed(quota') = Committed(quota)
        BY <1>3, Zenon DEF R
      <4>. QED
        BY <4>1, <4>2, <4>3, <4>4, Zenon DEF HoldsOwn, DigestOf, R
    <3>. QED
      BY <3>1, <3>2, Zenon
  <2>2. \A v, w \in Uploads : upload'[v].id # None /\ upload'[v].id = upload'[w].id => v = w
    BY DEF IInv, Holdings
  <2>3. \A i \in Pending(quota') : \E v \in Uploads : upload'[v].id = i
    <3>1. Pending(quota') = Pending(quota) \ {id}
      BY <1>3, Zenon DEF R
    <3>2. \A i \in Pending(quota) : \E v \in Uploads : upload[v].id = i
      BY Zenon DEF IInv, Holdings
    <3>3. ASSUME NEW i \in Pending(quota), i # id PROVE \E v \in Uploads : upload'[v].id = i
      <4>1. PICK v \in Uploads : upload[v].id = i
        BY <3>2, Zenon
      <4>2. v # u
        BY <3>3, <4>1, Zenon DEF id
      <4>3. upload'[v] = upload[v]
        BY <4>2, Zenon
      <4>. QED
        BY <4>1, <4>3, Zenon
    <3>. QED
      BY <3>1, <3>3, Zenon
  <2>. QED
    BY <2>1, <2>2, <2>3, Zenon DEF Holdings
<1>8. ChargedAsServed'
  <2>1. \A i \in Committed(quota) : quota'.reservations[i] = quota.reservations[i]
    BY <1>2, <1>3, Zenon DEF R, Committed, InState
  <2>2. Committed(quota') = Committed(quota)
    BY <1>3, Zenon DEF R
  <2>. QED
    BY <1>4, <2>1, <2>2 DEF IInv, ChargedAsServed, Charge
<1>9. SettledIsServed'
  BY Zenon DEF IInv, SettledIsServed, PhaseOf, Staged
<1>. QED
  BY <1>5, <1>6, <1>7, <1>8, <1>9, Zenon DEF IInv

(* PendingQuota::drop, then the error. *)
LEMMA FailKeeps ==
    ASSUME IInv, NEW u \in Uploads, upload[u].pc \in Holding, Fail(u), rows' = rows,
           UNCHANGED <<intents, outcomes, finalizer>>
    PROVE  IInv'
<1>1. DOMAIN upload[u] = {"pc", "op", "id", "fresh"} /\ DOMAIN upload = Uploads
  BY Zenon DEF IInv, Types, UploadOK
<1>2. /\ upload'[u] = [upload[u] EXCEPT !.pc = "releasing", !.id = None]
      /\ DOMAIN upload' = Uploads
      /\ \A v \in Uploads \ {u} : upload'[v] = upload[v]
      /\ quota' = release(quota, upload[u].id)
  BY <1>1, Zenon DEF Fail
<1>3. /\ DOMAIN upload'[u] = {"pc", "op", "id", "fresh"}
      /\ upload'[u].pc = "releasing" /\ upload'[u].id = None /\ upload'[u].op = upload[u].op
  BY <1>1, <1>2, Zenon
<1>4. upload[u].op \in Operations
  BY HeldReservation, Zenon
<1>5. UploadOK(upload'[u]) /\ upload'[u].pc \notin Holding /\ upload'[u].pc \notin Settling
  BY <1>3, <1>4, Zenon DEF UploadOK, UploadSteps, Holding, Settling
<1>. QED
  BY <1>2, <1>3, <1>5, UnwindStep, Zenon

LEMMA StoreFailsKeeps ==
    ASSUME IInv, NEW u \in Uploads, StoreFails(u)
    PROVE  IInv'
BY FailKeeps, Zenon DEF StoreFails, Holding

LEMMA DroppedKeeps ==
    ASSUME IInv, NEW u \in Uploads, Dropped(u)
    PROVE  IInv'
<1>1. /\ quota' = release(quota, upload[u].id) /\ Done(u) /\ rows' = rows
      /\ UNCHANGED <<intents, outcomes, finalizer>>
  BY Zenon DEF Dropped
<1>2. CASE upload[u].pc \in Holding
  <2>1. /\ upload'[u] = Idle /\ DOMAIN upload' = Uploads
        /\ \A v \in Uploads \ {u} : upload'[v] = upload[v]
    BY <1>1, Zenon DEF Done, IInv, Types
  <2>2. UploadOK(Idle) /\ Idle.pc \notin Holding /\ Idle.pc \notin Settling /\ Idle.id = None
    BY Zenon DEF UploadOK, Idle, UploadSteps, Holding, Settling
  <2>. QED
    BY <1>1, <1>2, <2>1, <2>2, UnwindStep, Zenon
<1>3. CASE upload[u].pc \notin Holding
  <2>1. upload[u].id = None
    BY <1>3, Zenon DEF IInv, Holdings, HoldsOwn, Holding
  <2>2. None \notin Live(quota)
    BY UploadAssumption, Zenon DEF IInv, Types, LedgerOK
  <2>3. quota' = quota
    BY <1>1, <2>1, <2>2, Zenon DEF release
  <2>4. UploadsQuiet
    BY <1>1, <1>3, DoneQuiet, Zenon
  <2>. QED
    BY <1>1, <2>3, <2>4, QuietStep, QuietFrames, Zenon
<1>. QED
  BY <1>2, <1>3, Zenon

(* The row is written and its reservation commits in one transaction. *)
LEMMA CommitStep ==
    ASSUME IInv, NEW u \in Uploads, upload[u].pc \in Holding, rows[FileOf(u)] = None,
           upload[u].id \in Pending(quota),
           quota' = commit_reservation(quota, upload[u].id),
           rows' = [rows EXCEPT ![FileOf(u)] = DigestOf(u)],
           UNCHANGED <<intents, outcomes, finalizer>>,
           DOMAIN upload' = Uploads,
           \A v \in Uploads \ {u} : upload'[v] = upload[v],
           UploadOK(upload'[u]), upload'[u].id = None, upload'[u].pc \notin Holding,
           upload'[u].op = upload[u].op
    PROVE  IInv'
<1>. DEFINE id == upload[u].id
            R == quota'
            file == FileOf(u)
            d == DigestOf(u)
<1>1. /\ id \in Pending(quota) /\ id \in Live(quota) /\ id # None
      /\ quota.reservations[id].request = RequestOf(d)
      /\ upload[u].op \in Operations
  BY HeldReservation, Zenon DEF Pending, InState
<1>2. /\ file \in Files /\ d \in Digests /\ d # None
      /\ rows' = [rows EXCEPT ![file] = d] /\ rows[file] = None
  BY <1>1, UploadAssumption, Zenon DEF Operations, FileOf, DigestOf
<1>3. /\ LedgerOK(R) /\ Live(R) = Live(quota)
      /\ R.reservations[id] = [request |-> RequestOf(d), state |-> "committed"]
      /\ \A i \in Live(quota) \ {id} : R.reservations[i] = quota.reservations[i]
  <2>1. LedgerOK(quota)
    BY Zenon DEF IInv, Types
  <2>2. R = commit_reservation(quota, id)
    OBVIOUS
  <2>. HIDE DEF R, id, d
  <2>. QED
    BY <1>1, <2>1, <2>2, CommitMoves
<1>. HIDE DEF id, R, file, d
<1>4. /\ Committed(R) = Committed(quota) \cup {id} /\ id \notin Committed(quota)
      /\ Pending(R) = Pending(quota) \ {id}
  BY <1>1, <1>3 DEF Committed, Pending, InState
<1>5. /\ rows' \in [Files -> Digests \cup {None}]
      /\ Served' = Served \cup {file} /\ file \notin Served
      /\ \A f \in Served : rows'[f] = rows[f]
      /\ rows'[file] = d
  BY <1>2 DEF IInv, Types, Served
<1>6. Types'
  <2>1. LedgerOK(quota') /\ IsFiniteSet(Live(quota'))
    BY <1>3, Zenon DEF IInv, Types, R
  <2>2. IsFiniteSet(Served')
    BY <1>5, FS_AddElement, Zenon DEF IInv, Types
  <2>. QED
    BY <1>5, <2>1, <2>2, Zenon DEF IInv, Types
<1>7. RowsSeen'
  <2>1. ASSUME NEW v \in Uploads, upload'[v].pc \in {"leaving", "advancing", "acking"}
        PROVE  rows'[upload'[v].op.file] # None
    <3>1. CASE v = u
      BY <1>2, <1>5, <3>1, Zenon DEF file, FileOf
    <3>2. CASE v # u
      <4>1. upload'[v] = upload[v] /\ rows[FileOf(v)] # None /\ UploadOK(upload[v])
        BY <2>1, <3>2, Zenon DEF IInv, RowsSeen, Types
      <4>2. FileOf(v) \in Served
        BY <2>1, <4>1, Zenon DEF UploadOK, Operations, FileOf, Served
      <4>. QED
        BY <1>5, <4>1, <4>2, Zenon DEF FileOf
    <3>. QED
      BY <3>1, <3>2, Zenon
  <2>. QED
    BY <1>5, <2>1, Zenon DEF IInv, RowsSeen, FileOf, Offered
<1>8. Holdings'
  <2>1. ASSUME NEW v \in Uploads PROVE HoldsOwn(v)'
    <3>1. CASE v = u
      BY <3>1, Zenon DEF HoldsOwn, Holding
    <3>2. CASE v # u
      <4>1. HoldsOwn(v) /\ upload'[v] = upload[v]
        BY <3>2, Zenon DEF IInv, Holdings
      <4>2. upload[v].id # id
        BY <1>1, <3>2, Zenon DEF IInv, Holdings, id
      <4>3. upload[v].id \in Pending(quota) =>
              R.reservations[upload[v].id] = quota.reservations[upload[v].id]
        BY <1>3, <4>2, Zenon DEF Pending, InState
      <4>4. Pending(quota') = Pending(quota) \ {id} /\ Committed(quota') = Committed(quota) \cup {id}
        BY <1>4, Zenon DEF R
      <4>. QED
        BY <4>1, <4>2, <4>3, <4>4, Zenon DEF HoldsOwn, DigestOf, R
    <3>. QED
      BY <3>1, <3>2, Zenon
  <2>2. \A v, w \in Uploads : upload'[v].id # None /\ upload'[v].id = upload'[w].id => v = w
    BY DEF IInv, Holdings
  <2>3. \A i \in Pending(quota') : \E v \in Uploads : upload'[v].id = i
    <3>1. Pending(quota') = Pending(quota) \ {id}
      BY <1>4, Zenon DEF R
    <3>2. \A i \in Pending(quota) : \E v \in Uploads : upload[v].id = i
      BY Zenon DEF IInv, Holdings
    <3>3. ASSUME NEW i \in Pending(quota), i # id PROVE \E v \in Uploads : upload'[v].id = i
      <4>1. PICK v \in Uploads : upload[v].id = i
        BY <3>2, Zenon
      <4>2. v # u
        BY <3>3, <4>1, Zenon DEF id
      <4>3. upload'[v] = upload[v]
        BY <4>2, Zenon
      <4>. QED
        BY <4>1, <4>3, Zenon
    <3>. QED
      BY <3>1, <3>3, Zenon
  <2>. QED
    BY <2>1, <2>2, <2>3, Zenon DEF Holdings
<1>9. ChargedAsServed'
  <2>1. Cardinality(Committed(R)) = Cardinality(Served')
    <3>1. IsFiniteSet(Committed(quota)) /\ IsFiniteSet(Served)
      BY FS_Subset, Zenon DEF IInv, Types, Committed, InState
    <3>2. /\ Cardinality(Committed(quota) \cup {id}) = Cardinality(Committed(quota)) + 1
          /\ Cardinality(Served \cup {file}) = Cardinality(Served) + 1
      BY <1>4, <1>5, <3>1, FS_AddElement, Zenon
    <3>. QED
      BY <1>4, <1>5, <3>2, Zenon DEF IInv, ChargedAsServed
  <2>. DEFINE K == {allocation_key(quota.reservations[i].request) : i \in Committed(quota)}
              k == allocation_key(RequestOf(d))
  <2>2. {allocation_key(R.reservations[i].request) : i \in Committed(R)} = K \cup {k}
    <3>1. R.reservations[id].request = RequestOf(d)
      BY <1>3
    <3>2. \A i \in Committed(quota) : R.reservations[i] = quota.reservations[i]
      BY <1>3, <1>4, Zenon DEF Committed, InState
    <3>. QED
      BY <1>4, <3>1, <3>2
  <2>3. {allocation_key(RequestOf(rows'[f])) : f \in Served'} = {Charge(f) : f \in Served} \cup {k}
    BY <1>5 DEF Charge
  <2>4. K = {Charge(f) : f \in Served}
    BY Zenon DEF IInv, ChargedAsServed
  <2>. HIDE DEF K, k
  <2>. QED
    BY <2>1, <2>2, <2>3, <2>4, Zenon DEF ChargedAsServed, Charge, R
<1>10. SettledIsServed'
  <2>1. \A f \in Files : rows[f] # None => rows'[f] # None
    BY <1>2, <1>5, Zenon DEF Served
  <2>2. \A op \in Operations : op.file \in Files
    BY Zenon DEF Operations
  <2>. QED
    BY <2>1, <2>2, Zenon DEF IInv, SettledIsServed, PhaseOf, Staged
<1>. QED
  BY <1>6, <1>7, <1>8, <1>9, <1>10, Zenon DEF IInv

LEMMA PublishKeeps ==
    ASSUME IInv, NEW u \in Uploads, Publish(u)
    PROVE  IInv'
<1>. DEFINE id == upload[u].id
            verdict == upload_conflict(rows[FileOf(u)], DigestOf(u))
<1>1. upload[u].pc \in Holding /\ UNCHANGED <<intents, outcomes, finalizer>>
  BY Zenon DEF Publish, Holding
<1>2. /\ upload[u].op \in Operations /\ FileOf(u) \in Files /\ DigestOf(u) # None
  BY <1>1, HeldReservation, UploadAssumption, Zenon DEF Operations, FileOf, DigestOf
<1>3. CASE Fail(u) /\ rows' = rows
  BY <1>1, <1>3, FailKeeps, Zenon
<1>4. CASE /\ verdict \in {"commit", "skip"} /\ Settles(quota, {id})
           /\ rows' = [rows EXCEPT ![FileOf(u)] = DigestOf(u)]
           /\ quota' = settle_reservations(quota, <<id>>, IF verdict = "commit" THEN {id} ELSE {})
           /\ upload' = [upload EXCEPT ![u].pc = "leaving", ![u].id = None]
  <2>1. DOMAIN upload[u] = {"pc", "op", "id", "fresh"} /\ DOMAIN upload = Uploads
    BY Zenon DEF IInv, Types, UploadOK
  <2>2. /\ upload'[u] = [upload[u] EXCEPT !.pc = "leaving", !.id = None]
        /\ DOMAIN upload' = Uploads
        /\ \A v \in Uploads \ {u} : upload'[v] = upload[v]
    BY <1>4, <2>1, Zenon
  <2>3. /\ DOMAIN upload'[u] = {"pc", "op", "id", "fresh"}
        /\ upload'[u].pc = "leaving" /\ upload'[u].id = None /\ upload'[u].op = upload[u].op
    BY <2>1, <2>2, Zenon
  <2>4. UploadOK(upload'[u]) /\ upload'[u].pc \notin Holding
    BY <1>2, <2>3, Zenon DEF UploadOK, UploadSteps, Holding
  <2>5. CASE verdict = "commit"
    <3>1. quota' = commit_reservation(quota, upload[u].id)
      BY <1>4, <2>5, SettleOne DEF settle_reservation
    <3>2. rows[FileOf(u)] = None /\ upload[u].id \in Pending(quota)
      BY <1>4, <2>5, Zenon DEF upload_conflict, Settles
    <3>. QED
      BY <1>1, <1>4, <2>2, <2>3, <2>4, <3>1, <3>2, CommitStep, Zenon
  <2>6. CASE verdict = "skip"
    <3>1. quota' = release(quota, upload[u].id)
      BY <1>4, <2>6, SettleOne, Zenon DEF settle_reservation
    <3>2. rows[FileOf(u)] = DigestOf(u)
      BY <2>6, Zenon DEF upload_conflict
    <3>3. rows' = rows
      BY <1>2, <1>4, <3>2, Zenon DEF IInv, Types
    <3>4. rows[upload'[u].op.file] # None
      BY <1>2, <2>3, <3>2, Zenon DEF FileOf
    <3>. QED
      BY <1>1, <2>2, <2>3, <2>4, <3>1, <3>3, <3>4, UnwindStep, Zenon
  <2>. QED
    BY <1>4, <2>5, <2>6, Zenon
<1>. QED
  BY <1>3, <1>4, Zenon DEF Publish

(* A reservation is made under an id no request and no reservation holds. *)
LEMMA ReserveKeeps ==
    ASSUME IInv, NEW u \in Uploads, Reserve(u)
    PROVE  IInv'
<1>1. /\ upload[u].pc = "homing" /\ UNCHANGED <<intents, outcomes, rows, finalizer>>
  BY Zenon DEF Reserve
<1>2. CASE Goto(u, "releasing") /\ quota' = quota
  <2>1. /\ "releasing" \in UploadSteps /\ "releasing" \notin Holding /\ "releasing" \notin Settling
        /\ "homing" \notin Holding
    BY Zenon DEF UploadSteps, Holding, Settling
  <2>. QED
    BY <1>1, <1>2, <2>1, MoveKeeps, QuietFrames, Zenon
<1>3. ASSUME NEW id \in Fresh,
             quota' = reserve_quota(quota, id, RequestOf(DigestOf(u))),
             upload' = [upload EXCEPT ![u].pc = "storing", ![u].id = id]
      PROVE  IInv'
  <2>. DEFINE R == quota'
              q == RequestOf(DigestOf(u))
  <2>1. /\ DOMAIN upload[u] = {"pc", "op", "id", "fresh"} /\ DOMAIN upload = Uploads
        /\ upload[u].op \in Operations /\ upload[u].id = None
    BY <1>1, Zenon DEF IInv, Types, UploadOK, Holdings, HoldsOwn
  <2>2. /\ upload'[u] = [upload[u] EXCEPT !.pc = "storing", !.id = id]
        /\ DOMAIN upload' = Uploads
        /\ \A v \in Uploads \ {u} : upload'[v] = upload[v]
    BY <1>3, <2>1, Zenon
  <2>3. /\ DOMAIN upload'[u] = {"pc", "op", "id", "fresh"}
        /\ upload'[u].pc = "storing" /\ upload'[u].id = id /\ upload'[u].op = upload[u].op
    BY <2>1, <2>2, Zenon
  <2>4. UploadOK(upload'[u])
    BY <2>1, <2>3, Zenon DEF UploadOK, UploadSteps
  <2>5. id \in Ids /\ id \notin Live(quota) /\ id # None
    BY UploadAssumption, Zenon DEF Fresh
  <2>6. q \in Requests
    BY <2>1, Zenon DEF RequestOf, DigestOf, Operations, Digests
  <2>7. /\ LedgerOK(R) /\ Live(R) = Live(quota) \cup {id}
        /\ R.reservations[id] = [request |-> q, state |-> "reserved"]
        /\ \A i \in Live(quota) : R.reservations[i] = quota.reservations[i]
    <3>1. LedgerOK(quota)
      BY Zenon DEF IInv, Types
    <3>2. R = reserve_quota(quota, id, q)
      BY <1>3, Zenon
    <3>. HIDE DEF R, q
    <3>. QED
      BY <2>5, <2>6, <3>1, <3>2, ReserveAdds
  <2>. HIDE DEF R, q
  <2>8. Committed(R) = Committed(quota) /\ Pending(R) = Pending(quota) \cup {id}
    BY <2>5, <2>7 DEF Committed, Pending, InState
  <2>9. Served' = Served
    BY <1>1, Zenon DEF Served
  <2>10. Types'
    <3>1. LedgerOK(quota') /\ IsFiniteSet(Live(quota'))
      BY <2>7, FS_AddElement DEF IInv, Types, R
    <3>. QED
      BY <1>1, <2>2, <2>4, <2>9, <3>1, Zenon DEF IInv, Types
  <2>11. RowsSeen'
    <3>1. RowsSeen
      BY Zenon DEF IInv
    <3>2. ASSUME NEW v \in Uploads, upload'[v].pc \in {"leaving", "advancing", "acking"}
          PROVE  v # u /\ upload'[v] = upload[v]
      BY <2>2, <2>3, <3>2, Zenon
    <3>. QED
      BY <1>1, <2>9, <3>1, <3>2, Zenon DEF RowsSeen, FileOf, Offered
  <2>12. \A v \in Uploads : upload[v].id # id
    BY Zenon DEF Fresh
  <2>13. Holdings'
    <3>1. ASSUME NEW v \in Uploads PROVE HoldsOwn(v)'
      <4>1. CASE v = u
        <5>1. quota'.reservations[id].request = q /\ id \notin Committed(quota') /\ id \in Ids
          BY <2>5, <2>7, <2>8 DEF R, Committed, InState
        <5>. QED
          BY <2>3, <4>1, <5>1, Zenon DEF HoldsOwn, DigestOf, q
      <4>2. CASE v # u
        <5>1. HoldsOwn(v) /\ upload'[v] = upload[v]
          BY <2>2, <4>2, Zenon DEF IInv, Holdings
        <5>2. upload[v].id \in Pending(quota) =>
                R.reservations[upload[v].id] = quota.reservations[upload[v].id]
          BY <2>7, Zenon DEF Pending, InState
        <5>3. Pending(quota') = Pending(quota) \cup {id} /\ Committed(quota') = Committed(quota)
          BY <2>8, Zenon DEF R
        <5>. QED
          BY <2>12, <5>1, <5>2, <5>3, Zenon DEF HoldsOwn, DigestOf, R
      <4>. QED
        BY <4>1, <4>2, Zenon
    <3>2. \A v, w \in Uploads : upload'[v].id # None /\ upload'[v].id = upload'[w].id => v = w
      <4>1. \A v, w \in Uploads : upload[v].id # None /\ upload[v].id = upload[w].id => v = w
        BY Zenon DEF IInv, Holdings
      <4>2. \A v \in Uploads : upload'[v].id = IF v = u THEN id ELSE upload[v].id
        BY <2>2, <2>3, Zenon
      <4>. QED
        BY <2>12, <4>1, <4>2, Zenon
    <3>3. \A i \in Pending(quota') : \E v \in Uploads : upload'[v].id = i
      <4>1. \A i \in Pending(quota) : \E v \in Uploads : upload[v].id = i
        BY Zenon DEF IInv, Holdings
      <4>2. Pending(quota') = Pending(quota) \cup {id}
        BY <2>8, Zenon DEF R
      <4>3. \A i \in Pending(quota) : i # None
        BY UploadAssumption, Zenon DEF IInv, Types, LedgerOK, Pending, InState
      <4>. QED
        BY <2>1, <2>2, <2>3, <4>1, <4>2, <4>3, Zenon
    <3>. QED
      BY <3>1, <3>2, <3>3, Zenon DEF Holdings
  <2>14. ChargedAsServed'
    <3>1. \A i \in Committed(quota) : quota'.reservations[i] = quota.reservations[i]
      BY <2>7, Zenon DEF R, Committed, InState
    <3>2. Committed(quota') = Committed(quota)
      BY <2>8, Zenon DEF R
    <3>. QED
      BY <1>1, <2>9, <3>1, <3>2 DEF IInv, ChargedAsServed, Charge
  <2>15. SettledIsServed'
    BY <1>1, Zenon DEF IInv, SettledIsServed, PhaseOf, Staged
  <2>. QED
    BY <2>10, <2>11, <2>13, <2>14, <2>15, Zenon DEF IInv
<1>. QED
  BY <1>2, <1>3, Zenon DEF Reserve

(* The reaper takes reservations, also of requests that still hold them. *)
LEMMA RepairKeeps ==
    ASSUME IInv, NEW S \in SUBSET Pending(quota), repair_abandoned_quota_reservations(S)
    PROVE  IInv'
<1>. DEFINE R == quota'
<1>1. /\ quota' = settle_reservations(quota, InOrder(S), {})
      /\ UNCHANGED <<intents, outcomes, rows, upload, finalizer>>
  BY Zenon DEF repair_abandoned_quota_reservations
<1>2. /\ LedgerOK(R) /\ Live(R) = Live(quota) \ S
      /\ \A i \in Live(R) : R.reservations[i] = quota.reservations[i]
  <2>1. LedgerOK(quota) /\ IsFiniteSet(Live(quota))
    BY Zenon DEF IInv, Types
  <2>2. R = settle_reservations(quota, InOrder(S), {})
    BY <1>1, Zenon
  <2>. HIDE DEF R
  <2>3. S \subseteq Pending(quota)
    OBVIOUS
  <2>. QED
    BY <2>1, <2>2, <2>3, ReleaseSet
<1>. HIDE DEF R
<1>3. Committed(R) = Committed(quota) /\ Pending(R) = Pending(quota) \ S
  BY <1>2 DEF Committed, Pending, InState
<1>4. Served' = Served
  BY <1>1, Zenon DEF Served
<1>5. Types'
  <2>1. IsFiniteSet(Live(quota'))
    BY <1>2, FS_Subset, Zenon DEF IInv, Types, R
  <2>2. LedgerOK(quota')
    BY <1>2, Zenon DEF R
  <2>. QED
    BY <1>1, <1>4, <2>1, <2>2, Zenon DEF IInv, Types
<1>6. RowsSeen'
  BY <1>1, <1>4, Zenon DEF IInv, RowsSeen, FileOf, Offered
<1>7. Holdings'
  <2>1. Committed(quota') = Committed(quota) /\ Pending(quota') = Pending(quota) \ S
    BY <1>3, Zenon DEF R
  <2>2. \A i \in Pending(quota') : quota'.reservations[i] = quota.reservations[i]
    BY <1>2, Zenon DEF R, Pending, InState
  <2>3. ASSUME NEW v \in Uploads PROVE HoldsOwn(v)'
    <3>1. HoldsOwn(v)
      BY Zenon DEF IInv, Holdings
    <3>. QED
      BY <1>1, <2>1, <2>2, <3>1, Zenon DEF HoldsOwn, DigestOf
  <2>. QED
    BY <1>1, <2>1, <2>3, Zenon DEF IInv, Holdings
<1>8. ChargedAsServed'
  <2>1. \A i \in Committed(quota) : quota'.reservations[i] = quota.reservations[i]
    BY <1>2, <1>3, Zenon DEF R, Committed, InState
  <2>2. Committed(quota') = Committed(quota)
    BY <1>3, Zenon DEF R
  <2>. QED
    BY <1>1, <1>4, <2>1, <2>2 DEF IInv, ChargedAsServed, Charge
<1>9. SettledIsServed'
  BY <1>1, Zenon DEF IInv, SettledIsServed, PhaseOf, Staged
<1>. QED
  BY <1>5, <1>6, <1>7, <1>8, <1>9, Zenon DEF IInv

(* The process dies, and the next one repairs every pending reservation. *)
LEMMA RestartKeeps ==
    ASSUME IInv, Restart
    PROVE  IInv'
<1>. DEFINE R == quota'
<1>1. /\ quota' = settle_reservations(quota, InOrder(Pending(quota)), {})
      /\ upload' = [u \in Uploads |-> Idle] /\ finalizer' = [f \in Finalizers |-> NoPass]
      /\ UNCHANGED <<intents, outcomes, rows>>
  BY Zenon DEF Restart
<1>2. /\ LedgerOK(R) /\ Live(R) = Live(quota) \ Pending(quota)
      /\ \A i \in Live(R) : R.reservations[i] = quota.reservations[i]
  <2>1. LedgerOK(quota) /\ IsFiniteSet(Live(quota))
    BY Zenon DEF IInv, Types
  <2>2. R = settle_reservations(quota, InOrder(Pending(quota)), {})
    BY <1>1, Zenon
  <2>. HIDE DEF R
  <2>. QED
    BY <2>1, <2>2, ReleaseSet, Zenon
<1>. HIDE DEF R
<1>3. /\ UploadOK(Idle) /\ Idle.pc = "idle" /\ Idle.id = None
      /\ DOMAIN NoPass = {"pc", "queue"} /\ NoPass.pc = "idle"
  BY Zenon DEF UploadOK, Idle, UploadSteps, NoPass
<1>4. Served' = Served
  BY <1>1, Zenon DEF Served
<1>5. Committed(R) = Committed(quota) /\ Pending(R) = {}
  BY <1>2, Zenon DEF Committed, Pending, InState, LedgerOK, Reservation
<1>6. Types'
  <2>1. IsFiniteSet(Live(quota'))
    BY <1>2, FS_Subset, Zenon DEF IInv, Types, R
  <2>2. LedgerOK(quota')
    BY <1>2, Zenon DEF R
  <2>. QED
    BY <1>1, <1>3, <1>4, <2>1, <2>2, Zenon DEF IInv, Types
<1>7. RowsSeen'
  BY <1>1, <1>3, Zenon DEF RowsSeen
<1>8. Holdings'
  BY <1>1, <1>3, <1>5, Zenon DEF Holdings, HoldsOwn, R
<1>9. ChargedAsServed'
  <2>1. \A i \in Committed(quota) : quota'.reservations[i] = quota.reservations[i]
    BY <1>2, <1>5, Zenon DEF R, Committed, InState
  <2>2. Committed(quota') = Committed(quota)
    BY <1>5, Zenon DEF R
  <2>. QED
    BY <1>1, <1>4, <2>1, <2>2 DEF IInv, ChargedAsServed, Charge
<1>10. SettledIsServed'
  BY <1>1, Zenon DEF IInv, SettledIsServed, PhaseOf, Staged
<1>. QED
  BY <1>6, <1>7, <1>8, <1>9, <1>10, Zenon DEF IInv

LEMMA InitIInv == Init => IInv
<1>. SUFFICES ASSUME Init PROVE IInv
  OBVIOUS
<1>1. Live(quota) = {} /\ Served = {}
  BY DEF Init, NoQuota, Live, Served
<1>2. Pending(quota) = {} /\ Committed(quota) = {}
  BY <1>1, Zenon DEF Pending, Committed, InState
<1>3. LedgerOK(quota) /\ IsFiniteSet(Live(quota)) /\ IsFiniteSet(Served)
  BY <1>1, FS_EmptySet DEF Init, NoQuota, LedgerOK, Tables, Live
<1>4. BookOK(intents) /\ Staged(intents) = {}
  BY DEF Init, NoIntents, BookOK, Staged
<1>5. /\ UploadOK(Idle) /\ Idle.pc = "idle" /\ Idle.id = None
      /\ DOMAIN NoPass = {"pc", "queue"} /\ NoPass.pc = "idle"
  BY Zenon DEF UploadOK, Idle, UploadSteps, NoPass
<1>6. Types
  BY <1>3, <1>4, <1>5, Zenon DEF Init, Types
<1>7. RowsSeen /\ Holdings
  BY <1>2, <1>5, Zenon DEF Init, RowsSeen, Holdings, HoldsOwn
<1>8. ChargedAsServed
  BY <1>1, <1>2, Zenon DEF ChargedAsServed
<1>9. SettledIsServed
  BY <1>4, Zenon DEF Init, SettledIsServed, PhaseOf
<1>. QED
  BY <1>6, <1>7, <1>8, <1>9, Zenon DEF IInv

LEMMA StutterIInv == IInv /\ UNCHANGED vars => IInv'
<1>. SUFFICES ASSUME IInv, UNCHANGED vars PROVE IInv'
  OBVIOUS
<1>. QED
  BY QuietStep, QuietFrames, Zenon DEF vars

LEMMA NextIInv == IInv /\ Next => IInv'
<1>. SUFFICES ASSUME IInv, Next PROVE IInv'
  OBVIOUS
<1>1. ASSUME NEW u \in Uploads, Request(u) PROVE IInv'
  BY <1>1, AdmitKeeps, ClaimKeeps, ReserveKeeps, HomelessKeeps, StoreKeeps, StoreFailsKeeps,
     PublishKeeps, PlaceKeeps, AdvanceStepKeeps, AcknowledgeKeeps, ReleaseStepKeeps, DroppedKeeps
     DEF Request
<1>2. ASSUME NEW f \in Finalizers, Finalize(f) PROVE IInv'
  BY <1>2, FinalizeKeeps, Zenon
<1>. QED
  BY <1>1, <1>2, MaintenanceKeeps, RepairKeeps, RestartKeeps, Zenon DEF Next

-----------------------------------------------------------------------------
(* Theorems.                                                               *)

(***************************************************************************)
(* Of any number of concurrent uploads, finalization passes, reaps and     *)
(* restarts: a pending reservation is that of a request in flight, the     *)
(* project is charged once for each file it serves, and nothing settles    *)
(* ahead of its row.                                                       *)
(***************************************************************************)
THEOREM UploadsInvariant == Spec => []IInv
<1>1. IInv /\ [Next]_vars => IInv'
  BY NextIInv, StutterIInv, Zenon
<1>. QED
  BY <1>1, InitIInv, PTL DEF Spec

(* PendingQuota's guard leaks no reservation, whatever is dropped or dies. *)
THEOREM UploadsReturnReservations == Spec => []ReservationsAreHeld
<1>1. ASSUME IInv PROVE ReservationsAreHeld
  <2>. SUFFICES ASSUME NEW id \in Pending(quota)
                PROVE  \E u \in Uploads :
                         /\ HoldersOf(id) = {u}
                         /\ quota.reservations[id].request = RequestOf(DigestOf(u))
    BY Zenon DEF ReservationsAreHeld
  <2>1. id # None
    BY <1>1, UploadAssumption, Zenon DEF IInv, Types, LedgerOK, Pending, InState
  <2>2. PICK u \in Uploads : upload[u].id = id
    BY <1>1, Zenon DEF IInv, Holdings
  <2>3. HoldersOf(id) = {u}
    BY <1>1, <2>1, <2>2, Zenon DEF HoldersOf, IInv, Holdings
  <2>4. quota.reservations[id].request = RequestOf(DigestOf(u))
    BY <1>1, <2>1, <2>2, Zenon DEF IInv, Holdings, HoldsOwn
  <2>. QED
    BY <2>3, <2>4, Zenon
<1>. QED
  BY <1>1, UploadsInvariant, PTL

(***************************************************************************)
(* The ledger and the published rows agree (the reservation commits in the *)
(* transaction that writes the row it pays for, and in no other).          *)
(***************************************************************************)
THEOREM UploadsChargedAsServed == Spec => []ChargedAsServed
<1>1. IInv => ChargedAsServed
  BY Zenon DEF IInv
<1>. QED
  BY <1>1, UploadsInvariant, PTL

(* finalize_one and ack_response settle only what has a row. *)
THEOREM UploadsSettleServed == Spec => []SettledIsServed
<1>1. IInv => SettledIsServed
  BY Zenon DEF IInv
<1>. QED
  BY <1>1, UploadsInvariant, PTL

(* Only Publish writes a row, and its guard reads the row it writes over. *)
LEMMA RowsKept ==
    ASSUME IInv, [Next]_vars
    PROVE  \A file \in Files : rows[file] # None => rows'[file] = rows[file]
<1>1. ASSUME NEW u \in Uploads, Publish(u)
      PROVE  \A file \in Files : rows[file] # None => rows'[file] = rows[file]
  BY <1>1, Zenon DEF Publish, upload_conflict, IInv, Types
<1>2. ASSUME NEW u \in Uploads, Request(u), ~Publish(u) PROVE rows' = rows
  BY <1>2, Zenon DEF Request, Admit, Claim, Reserve, Homeless, Store, StoreFails, Place, Advance,
     Acknowledge, Release, Dropped
<1>3. ASSUME NEW f \in Finalizers, Finalize(f) PROVE rows' = rows
  BY <1>3, Zenon DEF Finalize, SweepStart, DrainStart, Refuse, Skip, Look, commit_finalized_write
<1>. QED
  BY <1>1, <1>2, <1>3, Zenon
     DEF Next, Observe, Expire, Prune, prune_operation_outcomes,
         repair_abandoned_quota_reservations, Restart, vars

(* A published file never changes (upload_conflict). *)
THEOREM UploadsImmutable == Spec => FilesAreImmutable
<1>1. IInv /\ [Next]_vars => [\A file \in Files : rows[file] # None => rows'[file] = rows[file]]_vars
  BY RowsKept, Zenon
<1>. QED
  BY <1>1, UploadsInvariant, PTL DEF Spec, FilesAreImmutable

=============================================================================
