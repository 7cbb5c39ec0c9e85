---------------------------- MODULE LeaseProofs ----------------------------
(***************************************************************************)
(* Proofs about the two leases a replicated deployment grants: the write   *)
(* leases of an ownership record (WriteLease) and the grant under which    *)
(* one process of a cluster runs a singleton job (SingletonLease).         *)
(*                                                                         *)
(* WriteLease, for every set of authorities, requests and datacenters and  *)
(* every skew, drift, lease length and commit bound with                   *)
(* Drift + CommitBound <= 2 * Skew.                                        *)
(***************************************************************************)
EXTENDS WriteLease, SingletonLease, TLAPS

LEMMA Delayed ==
    ASSUME NEW a \in Int, NEW b \in Int, NEW d \in Nat, NEW s \in Nat, a <= b + d
    PROVE  a + s <= b + d + s
  BY SMT

(* A lease on record is a lease of the record's own epoch: the epoch moves *)
(* only once no lease is left.                                             *)
LeasesCurrent ==
    \A a \in Authorities : \A l \in records[a].writes : l.epoch = records[a].epoch

(* The one lease request of a handler that waits for it. *)
Sent ==
    \A c \in sent :
        /\ req[c.id].pc \in {"submitted", "done"}
        /\ req[c.id].pc = "submitted" =>
             /\ c.authority = req[c.id].authority
             /\ c.epoch = req[c.id].fence
             /\ \A d \in sent : d.id = c.id => d = c
             /\ \A e \in log : e.op = "Begin" => e.id # c.id

(* Entries carry readings taken no later than now, and a request has at    *)
(* most the one lease command in the log that its handler has reached.     *)
InFlight ==
    \A c \in log :
        /\ c.op = "Begin" =>
             /\ c.issued <= now + Drift
             /\ req[c.id].pc \in {"submitted", "done"}
             /\ req[c.id].pc = "submitted" =>
                  /\ c.authority = req[c.id].authority
                  /\ c.epoch = req[c.id].fence
                  /\ \A e \in log : e.op = "Begin" /\ e.id = c.id => e = c
        /\ c.op = "Finish" => req[c.id].pc = "done"
        /\ c.op \in OperatorOps => c.at <= now + Drift

OwnLease(w) == [id |-> w, epoch |-> req[w].fence, expires |-> req[w].expires]

(* A granted lease is on record, or time has reached the point from        *)
(* which some clock may read it as lapsed.                                 *)
LeaseStands ==
    \A w \in Writes : req[w].pc \in {"leased", "checked"} =>
        \/ OwnLease(w) \in records[req[w].authority].writes
        \/ req[w].expires + Skew <= now + Drift

(* The lease check was passed on a reading the skew short of expiry. *)
CheckPassed ==
    \A w \in Writes : req[w].pc = "checked" =>
        req[w].checked + Skew < req[w].expires

IInv == TypeOK /\ LeasesCurrent /\ Sent /\ InFlight /\ LeaseStands /\ CheckPassed

-----------------------------------------------------------------------------
(* What the state machine's commands do to one record.                     *)

RecordOK(r) ==
    /\ r \in Record
    /\ Assigned(r) <=> r.epoch # UNASSIGNED
    /\ \A l \in r.writes : l.epoch = r.epoch

(* Leases that have not lapsed at t survive the step from r to s. *)
KeepsLive(r, s, t) == \A l \in r.writes : l.expires + Skew > t => l \in s.writes

(* Expiry drops only lapsed leases and touches nothing else. *)
LEMMA ExpireKeeps ==
    ASSUME NEW r, RecordOK(r), NEW t \in Int
    PROVE  /\ RecordOK(expire_writes(r, t))
           /\ KeepsLive(r, expire_writes(r, t), t)
           /\ expire_writes(r, t).home = r.home
           /\ expire_writes(r, t).epoch = r.epoch
BY Zenon DEF RecordOK, Record, Lease, KeepsLive, expire_writes, Assigned

(* Assigning a home keeps every lease: an unassigned record has none. *)
LEMMA AssignKeeps ==
    ASSUME NEW r, RecordOK(r), NEW d \in Datacenters
    PROVE  /\ RecordOK(assign_home(r, d).record)
           /\ r.writes \subseteq assign_home(r, d).record.writes
<1>. r.epoch = 0 => r.writes = {}
  BY Zenon DEF RecordOK, Record, Lease, UNASSIGNED
<1>. QED
  BY OwnershipAssumption
  DEF RecordOK, Record, Lease, assign_home, Assigned, Effect, UNASSIGNED

(* A transfer, epoch advance or forget stamped t leaves a well-formed      *)
(* record that still holds every lease live at t.                          *)
LEMMA DrainKeeps ==
    ASSUME NEW r, RecordOK(r), NEW t \in Int, NEW s, RecordOK(s), NEW e
    PROVE  /\ RecordOK(WhenDrained(r, t, s, e).record)
           /\ KeepsLive(r, WhenDrained(r, t, s, e).record, t)
BY ExpireKeeps, Zenon DEF WhenDrained, Effect, KeepsLive

(* A transfer keeps the record well formed and every live lease on it. *)
LEMMA TransferKeeps ==
    ASSUME NEW r, RecordOK(r), NEW t \in Int, NEW d \in Datacenters
    PROVE  /\ RecordOK(transfer(r, d, t).record)
           /\ KeepsLive(r, transfer(r, d, t).record, t)
<1>. DEFINE s == [home |-> d, epoch |-> r.epoch + 1, writes |-> {}]
<1>1. RecordOK(s)
  BY OwnershipAssumption DEF RecordOK, Record, Assigned, UNASSIGNED
<1>2. KeepsLive(r, r, t)
  BY Zenon DEF KeepsLive
<1>. QED
  BY <1>1, <1>2, DrainKeeps, Zenon DEF transfer, Effect

(* So does an epoch advance. *)
LEMMA AdvanceKeeps ==
    ASSUME NEW r, RecordOK(r), NEW t \in Int
    PROVE  /\ RecordOK(advance_epoch(r, t).record)
           /\ KeepsLive(r, advance_epoch(r, t).record, t)
<1>. DEFINE s == [home |-> r.home, epoch |-> r.epoch + 1, writes |-> {}]
<1>1. Assigned(r) => RecordOK(s)
  BY DEF RecordOK, Record, Assigned, UNASSIGNED
<1>2. KeepsLive(r, r, t)
  BY Zenon DEF KeepsLive
<1>. QED
  BY <1>1, <1>2, DrainKeeps, Zenon DEF advance_epoch, Effect

(* So does forgetting the authority. *)
LEMMA ForgetKeeps ==
    ASSUME NEW r, RecordOK(r), NEW t \in Int
    PROVE  /\ RecordOK(forget(r, t).record)
           /\ KeepsLive(r, forget(r, t).record, t)
<1>1. RecordOK(Unowned)
  BY Zenon DEF RecordOK, Record, Assigned, UNASSIGNED, Unowned
<1>2. KeepsLive(r, r, t)
  BY Zenon DEF KeepsLive
<1>. QED
  BY <1>1, <1>2, DrainKeeps, Zenon DEF forget, Effect

(* Granting a lease keeps the other live ones and records the new one. *)
LEMMA BeginKeeps ==
    ASSUME NEW r, RecordOK(r), NEW e \in Nat, NEW w \in Writes, NEW t \in Int, NEW x \in Int
    PROVE  LET out == begin_write(r, e, w, t, x) IN
           /\ RecordOK(out.record)
           /\ \A l \in r.writes : l.id # w /\ l.expires + Skew > t => l \in out.record.writes
           /\ out.effect = "WriteLeased" =>
                 [id |-> w, epoch |-> e, expires |-> x] \in out.record.writes
<1>. DEFINE live == expire_writes(r, t)
            own == [id |-> w, epoch |-> e, expires |-> x]
            s == [live EXCEPT !.writes = {l \in @ : l.id # w} \cup {own}]
<1>1. RecordOK(live) /\ KeepsLive(r, live, t) /\ live.home = r.home /\ live.epoch = r.epoch
  BY ExpireKeeps, Zenon
<1>2. ASSUME Assigned(r), live.epoch = e PROVE RecordOK(s)
  BY <1>1, <1>2 DEF RecordOK, Record, Lease, Assigned
<1>3. s.writes = {l \in live.writes : l.id # w} \cup {own}
  BY <1>1, Zenon DEF RecordOK, Record
<1>. HIDE DEF live, s, own
<1>4. begin_write(r, e, w, t, x) =
        IF ~Assigned(r) THEN Effect(r, "NotAssigned")
        ELSE IF live.epoch # e THEN Effect(live, "EpochMismatch")
        ELSE IF x <= t \/ x - t > LeaseSecs THEN Effect(live, "InvalidLease")
        ELSE Effect(s, "WriteLeased")
  BY Zenon DEF begin_write, live, s, own
<1>. QED
  BY <1>1, <1>2, <1>3, <1>4 DEF Effect, KeepsLive, own

(* Giving back a lease keeps the others. *)
LEMMA FinishKeeps ==
    ASSUME NEW r, RecordOK(r), NEW e \in Nat, NEW w \in Writes
    PROVE  /\ RecordOK(finish_write(r, e, w).record)
           /\ \A l \in r.writes : l.id # w => l \in finish_write(r, e, w).record.writes
BY Zenon DEF finish_write, Effect, RecordOK, Record, Lease, Assigned

-----------------------------------------------------------------------------
(* The invariant is inductive.                                             *)

(* The invariant holds initially: nothing is assigned, sent or leased. *)
LEMMA InitInvariant == Init => IInv
<1>. SUFFICES ASSUME Init PROVE IInv
  OBVIOUS
<1>. USE OwnershipAssumption DEF Init, UNASSIGNED
<1>1. TypeOK
  BY DEF TypeOK, Unowned, Record, Assigned, Command, Request, Idle, Blank, Busy
<1>2. LeasesCurrent
  BY Zenon DEF LeasesCurrent, Unowned
<1>3. Sent /\ InFlight /\ LeaseStands /\ CheckPassed
  BY Zenon DEF Sent, InFlight, LeaseStands, CheckPassed, Idle, Blank
<1>. QED
  BY <1>1, <1>2, <1>3, Zenon DEF IInv

(* The type invariant split into the parts the steps below change. *)
Requests ==
    /\ req \in [Writes -> Request]
    /\ \A w \in Writes : req[w].pc \in Busy => req[w].authority \in Authorities

RecordsOK ==
    /\ records \in [Authorities -> Record]
    /\ \A a \in Authorities : RecordOK(records[a])

Parts ==
    /\ now \in Nat
    /\ RecordsOK
    /\ forgets \in [Authorities -> Nat]
    /\ sent \subseteq [authority : Authorities, epoch : Nat, id : Writes]
    /\ log \subseteq Command
    /\ Requests
    /\ Sent /\ InFlight /\ LeaseStands /\ CheckPassed

(* The invariant regrouped by the variable each part is about. *)
LEMMA InvariantParts == IInv <=> Parts
BY Zenon DEF Parts, IInv, TypeOK, LeasesCurrent, RecordsOK, RecordOK, Requests

(* Steps of a request's handler that leave the records alone. *)
LEMMA HandlerSteps ==
    ASSUME Parts, NEW w \in Writes,
           \/ \E a \in Authorities, d \in Datacenters : Snapshot(w, a, d)
           \/ SubmitBegin(w) \/ GiveUp(w) \/ CheckLease(w) \/ EndTxn(w) \/ SubmitFinish(w)
    PROVE  Parts'
<1>. USE OwnershipAssumption, LeaseAssumption DEF Parts
<1>1. ASSUME NEW a \in Authorities, NEW d \in Datacenters, Snapshot(w, a, d)
      PROVE  Parts'
  <2>. USE <1>1 DEF Snapshot
  <2>1. PICK epoch \in UNASSIGNED..MaxEpoch : req' = [req EXCEPT ![w] = Fenced("control", a, d, epoch)]
    BY Zenon
  <2>2. Fenced("control", a, d, epoch) \in Request
    BY DEF Fenced, Request, Busy, RecordsOK, Record, UNASSIGNED
  <2>3. Requests'
    BY <2>1, <2>2, Zenon DEF Requests, Fenced
  <2>4. Sent' /\ InFlight'
    BY <2>1 DEF Sent, InFlight, Requests, Fenced, Idle, Blank, Command
  <2>5. LeaseStands' /\ CheckPassed'
    BY <2>1, Zenon DEF LeaseStands, CheckPassed, Requests, Fenced, OwnLease
  <2>. QED
    BY <2>3, <2>4, <2>5, Zenon DEF RecordsOK
<1>2. CASE SubmitBegin(w)
  <2>. USE <1>2 DEF SubmitBegin
  <2>1. [authority |-> req[w].authority, epoch |-> req[w].fence, id |-> w]
          \in [authority : Authorities, epoch : Nat, id : Writes]
    BY Zenon DEF Requests, Request, Busy
  <2>2. Requests'
    BY DEF Requests, Request, Busy
  <2>3. Sent'
    BY DEF Sent, InFlight, Requests, Request
  <2>4. InFlight'
    BY Zenon DEF InFlight, Requests, Request, Command
  <2>5. LeaseStands' /\ CheckPassed'
    BY DEF LeaseStands, CheckPassed, Requests, OwnLease
  <2>. QED
    BY <2>1, <2>2, <2>3, <2>4, <2>5, Zenon DEF RecordsOK
<1>3. CASE GiveUp(w)
  <2>. USE <1>3 DEF GiveUp
  <2>1. Requests'
    BY DEF Requests, Request, Done, Blank, Busy, UNASSIGNED
  <2>2. Sent' /\ InFlight'
    BY Zenon DEF Sent, InFlight, Requests, Done, Blank, Command
  <2>3. LeaseStands' /\ CheckPassed'
    BY Zenon DEF LeaseStands, CheckPassed, Requests, OwnLease, Done, Blank
  <2>. QED
    BY <2>1, <2>2, <2>3, Zenon DEF RecordsOK
<1>4. CASE CheckLease(w)
  <2>. PICK t \in Reading :
         req' = [req EXCEPT
                   ![w].pc = IF admits(req[w].expires, t) THEN "checked" ELSE "releasing",
                   ![w].checked = now]
    BY <1>4, Zenon DEF CheckLease
  <2>. DEFINE to == IF admits(req[w].expires, t) THEN "checked" ELSE "releasing"
              q == [req[w] EXCEPT !.pc = to]
  <2>1. t \in Int /\ now <= t
    BY DEF Reading
  <2>2. q \in Request /\ to \in {"checked", "releasing"}
    BY ZenonT(60) DEF Requests, Request, Busy
  <2>3. req' = [req EXCEPT ![w] = [q EXCEPT !.checked = now]]
    BY Zenon DEF Requests
  <2>4. /\ [q EXCEPT !.checked = now] \in Request
        /\ [q EXCEPT !.checked = now].pc = to
        /\ [q EXCEPT !.checked = now].checked = now
        /\ [q EXCEPT !.checked = now].authority = req[w].authority
        /\ [q EXCEPT !.checked = now].fence = req[w].fence
        /\ [q EXCEPT !.checked = now].expires = req[w].expires
    BY <2>2, Zenon DEF Requests, Request
  <2>. HIDE DEF to, q
  <2>5. /\ req' \in [Writes -> Request]
        /\ \A u \in Writes : u # w => req'[u] = req[u]
        /\ req'[w].pc = to
        /\ req'[w].checked = now
        /\ req'[w].authority = req[w].authority
        /\ req'[w].fence = req[w].fence
        /\ req'[w].expires = req[w].expires
    BY <2>3, <2>4, ZenonT(60), Zenon DEF Requests
  <2>. req[w].pc = "leased" /\ UNCHANGED <<now, records, forgets, sent, log>>
    BY <1>4, Zenon DEF CheckLease
  <2>6. Requests'
    BY <2>2, <2>5, Zenon DEF Requests, Busy
  <2>7. Sent' /\ InFlight'
    BY <2>2, <2>5 DEF Sent, InFlight, Command
  <2>8. LeaseStands'
    BY <2>2, <2>5, Zenon DEF LeaseStands, OwnLease
  <2>9. CheckPassed'
    BY <2>1, <2>2, <2>5 DEF CheckPassed, Requests, Request, admits, to
  <2>. QED
    BY <2>6, <2>7, <2>8, <2>9, Zenon DEF RecordsOK
<1>5. CASE EndTxn(w)
  <2>. USE <1>5 DEF EndTxn
  <2>1. Requests'
    BY DEF Requests, Request, Busy
  <2>2. Sent' /\ InFlight'
    BY Zenon DEF Sent, InFlight, Requests, Command
  <2>3. LeaseStands' /\ CheckPassed'
    BY DEF LeaseStands, CheckPassed, Requests, OwnLease
  <2>. QED
    BY <2>1, <2>2, <2>3, Zenon DEF RecordsOK
<1>6. CASE SubmitFinish(w)
  <2>. USE <1>6 DEF SubmitFinish
  <2>1. Requests'
    BY DEF Requests, Request, Done, Blank, Busy, UNASSIGNED
  <2>2. (log \subseteq Command)'
    BY DEF Command, Requests, Request, Busy
  <2>3. Sent' /\ InFlight'
    BY DEF Sent, InFlight, Requests, Done, Blank, Command, OperatorOps
  <2>4. LeaseStands' /\ CheckPassed'
    BY Zenon DEF LeaseStands, CheckPassed, Requests, OwnLease, Done, Blank
  <2>. QED
    BY <2>1, <2>2, <2>3, <2>4, Zenon DEF RecordsOK
<1>. QED
  BY <1>1, <1>2, <1>3, <1>4, <1>5, <1>6, Zenon

(* A publish claims its home. *)
LEMMA ClaimStep ==
    ASSUME Parts, NEW w \in Writes, NEW a \in Authorities, NEW d \in Datacenters, Claim(w, a, d)
    PROVE  Parts'
<1>. USE OwnershipAssumption, LeaseAssumption DEF Parts
<1>. DEFINE claimed == assign_home(records[a], d).record
            q == IF claimed.home = d THEN Fenced("publish", a, d, claimed.epoch) ELSE Done
<1>1. RecordOK(claimed) /\ records[a].writes \subseteq claimed.writes
  BY AssignKeeps, Zenon DEF RecordsOK
<1>2. q \in Request /\ q.pc \in {"fenced", "done"} /\ (q.pc \in Busy => q.authority = a)
  BY <1>1 DEF Fenced, Done, Blank, Request, Busy, RecordOK, Record, UNASSIGNED
<1>. HIDE DEF claimed, q
<1>3. /\ req[w] = Idle
      /\ records' = [records EXCEPT ![a] = claimed]
      /\ req' = [req EXCEPT ![w] = q]
      /\ UNCHANGED <<now, forgets, sent, log>>
  BY Zenon DEF Claim, claimed, q
<1>4. RecordsOK'
  BY <1>1, <1>3, Zenon DEF RecordsOK, RecordOK
<1>5. Requests'
  BY <1>2, <1>3, Zenon DEF Requests
<1>6. Sent' /\ InFlight'
  BY <1>2, <1>3, SMTT(30) DEF Sent, InFlight, Requests, Command, Idle, Blank
<1>7. LeaseStands'
  BY <1>1, <1>2, <1>3, Zenon DEF LeaseStands, Requests, OwnLease, RecordsOK, Busy
<1>8. CheckPassed'
  BY <1>2, <1>3, Zenon DEF CheckPassed, Requests
<1>. QED
  BY <1>3, <1>4, <1>5, <1>6, <1>7, <1>8, Zenon

(* Consensus applies a transfer, an epoch advance or a forget. *)
LEMMA OperatorStep ==
    ASSUME Parts, NEW c \in log, ApplyOperator(c)
    PROVE  Parts'
<1>. USE OwnershipAssumption, LeaseAssumption DEF Parts
<1>. DEFINE a == c.authority
            out == CASE c.op = "Transfer" -> transfer(records[a], c.home, c.at)
                     [] c.op = "Advance"  -> advance_epoch(records[a], c.at)
                     [] c.op = "Forget"   -> forget(records[a], c.at)
<1>1. c.op \in OperatorOps /\ a \in Authorities /\ c.at \in Int /\ c.at <= now + Drift
  BY Zenon DEF ApplyOperator, InFlight, Command, OperatorOps
<1>2. c.op = "Transfer" => c.home \in Datacenters
  BY Zenon DEF Command
<1>3. RecordOK(out.record) /\ KeepsLive(records[a], out.record, c.at)
  <2>1. CASE c.op = "Transfer"
    BY <1>1, <1>2, <2>1, TransferKeeps, Zenon DEF RecordsOK
  <2>2. CASE c.op = "Advance"
    BY <1>1, <2>2, AdvanceKeeps, Zenon DEF RecordsOK
  <2>3. CASE c.op = "Forget"
    BY <1>1, <2>3, ForgetKeeps, Zenon DEF RecordsOK
  <2>. QED
    BY <1>1, <2>1, <2>2, <2>3, Zenon DEF OperatorOps
<1>4. /\ records' = [records EXCEPT ![a] = out.record]
      /\ forgets' = [forgets EXCEPT ![a] = IF out.effect = "Forgotten" THEN @ + 1 ELSE @]
      /\ log' = log \ {c}
      /\ UNCHANGED <<now, sent, req>>
  BY Zenon DEF ApplyOperator
<1>. HIDE DEF a, out
<1>5. RecordsOK'
  BY <1>1, <1>3, <1>4, Zenon DEF RecordsOK, RecordOK
<1>6. (forgets \in [Authorities -> Nat])'
  BY <1>1, <1>4
<1>7. Sent' /\ InFlight'
  BY <1>4 DEF Sent, InFlight
<1>8. LeaseStands'
  <2>. SUFFICES ASSUME NEW w \in Writes, req[w].pc \in {"leased", "checked"},
                       ~(req[w].expires + Skew <= now + Drift)
                PROVE  OwnLease(w) \in records'[req[w].authority].writes
    BY <1>4, Zenon DEF LeaseStands, OwnLease
  <2>1. req[w].authority \in Authorities /\ req[w].expires \in Int
    BY Zenon DEF Requests, Request, Busy
  <2>2. OwnLease(w) \in records[req[w].authority].writes
    BY Zenon DEF LeaseStands
  <2>3. OwnLease(w).expires + Skew > c.at
    BY <1>1, <2>1 DEF OwnLease
  <2>. QED
    BY <1>1, <1>3, <1>4, <2>1, <2>2, <2>3, Zenon DEF KeepsLive, RecordsOK
<1>9. CheckPassed' /\ Requests'
  BY <1>4, Zenon DEF CheckPassed, Requests
<1>. QED
  BY <1>4, <1>5, <1>6, <1>7, <1>8, <1>9, Zenon

(* Consensus applies the end of a write. *)
LEMMA FinishStep ==
    ASSUME Parts, NEW c \in log, ApplyFinish(c)
    PROVE  Parts'
<1>. USE DEF Parts
<1>. DEFINE s == finish_write(records[c.authority], c.epoch, c.id).record
<1>1. c.op = "Finish" /\ c.authority \in Authorities /\ c.epoch \in Nat /\ c.id \in Writes
  BY Zenon DEF ApplyFinish, Command
<1>2. RecordOK(s) /\ \A l \in records[c.authority].writes : l.id # c.id => l \in s.writes
  BY <1>1, FinishKeeps, Zenon DEF RecordsOK
<1>. HIDE DEF s
<1>3. /\ records' = [records EXCEPT ![c.authority] = s]
      /\ log' = log \ {c}
      /\ UNCHANGED <<now, forgets, sent, req>>
  BY Zenon DEF ApplyFinish, s
<1>4. RecordsOK'
  BY <1>1, <1>2, <1>3, Zenon DEF RecordsOK, RecordOK
<1>5. Sent' /\ InFlight'
  BY <1>3 DEF Sent, InFlight
<1>6. LeaseStands'
  <2>. SUFFICES ASSUME NEW w \in Writes, req[w].pc \in {"leased", "checked"},
                       ~(req[w].expires + Skew <= now + Drift)
                PROVE  OwnLease(w) \in records'[req[w].authority].writes
    BY <1>3, Zenon DEF LeaseStands, OwnLease
  <2>1. req[w].authority \in Authorities
    BY Zenon DEF Requests, Busy
  <2>2. OwnLease(w) \in records[req[w].authority].writes /\ OwnLease(w).id = w
    BY Zenon DEF LeaseStands, OwnLease
  <2>3. w # c.id
    BY <1>1, Zenon DEF InFlight
  <2>. QED
    BY <1>1, <1>2, <1>3, <2>1, <2>2, <2>3, Zenon DEF RecordsOK
<1>7. CheckPassed' /\ Requests'
  BY <1>3, Zenon DEF CheckPassed, Requests
<1>. QED
  BY <1>3, <1>4, <1>5, <1>6, <1>7, Zenon

(* Consensus applies the beginning of a write, for a request that waits    *)
(* for it or one that gave up.                                             *)
LEMMA BeginStep ==
    ASSUME Parts, NEW c \in log, ApplyBegin(c)
    PROVE  Parts'
<1>. USE OwnershipAssumption, LeaseAssumption DEF Parts
<1>. DEFINE w == c.id
            a == c.authority
            out == begin_write(records[a], c.epoch, w, c.issued, c.expires)
            granted == [[req[w] EXCEPT !.pc = "leased"] EXCEPT !.expires = c.expires]
            q == IF req[w].pc # "submitted" THEN req[w]
                 ELSE IF out.effect = "WriteLeased" THEN [req[w] EXCEPT !.pc = "leased", !.expires = c.expires]
                 ELSE Done
<1>1. /\ c.op = "Begin" /\ a \in Authorities /\ c.epoch \in Nat /\ w \in Writes
      /\ c.issued \in Int /\ c.expires \in Int /\ c.issued <= now + Drift
      /\ req[w].pc \in {"submitted", "done"}
  BY Zenon DEF ApplyBegin, Command, InFlight
<1>2. /\ RecordOK(out.record)
      /\ \A l \in records[a].writes : l.id # w /\ l.expires + Skew > c.issued => l \in out.record.writes
      /\ out.effect = "WriteLeased" =>
            [id |-> w, epoch |-> c.epoch, expires |-> c.expires] \in out.record.writes
  BY <1>1, BeginKeeps, Zenon DEF RecordsOK
<1>3. /\ granted \in Request
      /\ granted.pc = "leased"
      /\ granted.expires = c.expires
      /\ granted.authority = req[w].authority
      /\ granted.fence = req[w].fence
  <2>1. [req[w] EXCEPT !.pc = "leased"] \in Request
    BY <1>1 DEF Requests, Request, Busy
  <2>. QED
    BY <1>1, <2>1, Zenon DEF Requests, Request
<1>4. [req[w] EXCEPT !.pc = "leased", !.expires = c.expires] = granted
  BY <1>1, Zenon DEF Requests, Request
<1>5. /\ q \in Request
      /\ q.pc \in {"leased", "done"}
      /\ q.pc = "leased" =>
            /\ req[w].pc = "submitted"
            /\ out.effect = "WriteLeased"
            /\ q.expires = c.expires
            /\ q.authority = req[w].authority
            /\ q.fence = req[w].fence
      /\ req[w].pc = "done" => q = req[w]
  <2>1. Done \in Request /\ Done.pc = "done"
    BY DEF Done, Blank, Request, UNASSIGNED
  <2>2. req[w] \in Request
    BY <1>1, Zenon DEF Requests
  <2>3. q = IF req[w].pc # "submitted" THEN req[w]
            ELSE IF out.effect = "WriteLeased" THEN granted ELSE Done
    BY <1>4, Zenon
  <2>. HIDE DEF granted, out, q
  <2>. QED
    BY <1>1, <1>3, <2>1, <2>2, <2>3, Zenon
<1>6. /\ records' = [records EXCEPT ![a] = out.record]
      /\ req' = [req EXCEPT ![w] = q]
      /\ log' = log \ {c}
      /\ UNCHANGED <<now, forgets, sent>>
  BY Zenon DEF ApplyBegin
<1>. HIDE DEF out, q, granted
<1>7. RecordsOK'
  BY <1>1, <1>2, <1>6, Zenon DEF RecordsOK, RecordOK
<1>8. Requests'
  BY <1>1, <1>5, <1>6, Zenon DEF Requests, Busy
<1>9. Sent' /\ InFlight'
  BY <1>1, <1>5, <1>6 DEF Sent, InFlight, Requests, Command
<1>10. LeaseStands'
  <2>. SUFFICES ASSUME NEW u \in Writes, req'[u].pc \in {"leased", "checked"},
                       ~(req'[u].expires + Skew <= now + Drift)
                PROVE  OwnLease(u)' \in records'[req'[u].authority].writes
    BY <1>6, Zenon DEF LeaseStands
  <2>1. CASE u = w
    <3>1. req[w].pc = "submitted" /\ req'[w] = q /\ q.pc = "leased"
      BY <1>1, <1>5, <1>6, <2>1, Zenon DEF Requests
    <3>2. a = req[w].authority /\ c.epoch = req[w].fence
      BY <1>1, <3>1, Zenon DEF InFlight
    <3>. QED
      BY <1>1, <1>2, <1>5, <1>6, <2>1, <3>1, <3>2, Zenon DEF OwnLease, RecordsOK
  <2>2. CASE u # w
    <3>1. req'[u] = req[u] /\ OwnLease(u)' = OwnLease(u)
      BY <1>6, <2>2, Zenon DEF Requests, OwnLease
    <3>2. req[u].authority \in Authorities /\ req[u].expires \in Int
      BY <3>1, Zenon DEF Requests, Request, Busy
    <3>3. OwnLease(u) \in records[req[u].authority].writes /\ OwnLease(u).id = u
      BY <3>1, Zenon DEF LeaseStands, OwnLease
    <3>4. OwnLease(u).expires + Skew > c.issued
      BY <1>1, <3>1, <3>2 DEF OwnLease
    <3>. QED
      BY <1>1, <1>2, <1>6, <2>2, <3>1, <3>2, <3>3, <3>4, Zenon DEF RecordsOK
  <2>. QED
    BY <2>1, <2>2, Zenon
<1>11. CheckPassed'
  BY <1>1, <1>5, <1>6, Zenon DEF CheckPassed, Requests
<1>. QED
  BY <1>6, <1>7, <1>8, <1>9, <1>10, <1>11, Zenon

(* A lease request reaches the leader. *)
LEMMA ArriveStep ==
    ASSUME Parts, NEW c \in sent, Arrive(c)
    PROVE  Parts'
<1>. USE OwnershipAssumption, LeaseAssumption DEF Parts
<1>. PICK t \in Reading :
       log' = log \cup {[op |-> "Begin", authority |-> c.authority, epoch |-> c.epoch, id |-> c.id,
                         issued |-> t, expires |-> t + LeaseSecs]}
  BY Zenon DEF Arrive
<1>. PICK e : e = [op |-> "Begin", authority |-> c.authority, epoch |-> c.epoch, id |-> c.id,
                   issued |-> t, expires |-> t + LeaseSecs]
  BY Zenon
<1>1. /\ log' = log \cup {e} /\ sent' = sent \ {c}
      /\ UNCHANGED <<now, records, forgets, req>>
  BY Zenon DEF Arrive
<1>2. /\ e \in Command /\ e.op = "Begin" /\ e.issued <= now + Drift
      /\ e.id = c.id /\ e.authority = c.authority /\ e.epoch = c.epoch
  BY DEF Command, Reading
<1>3. Sent'
  BY <1>1, <1>2, SMTT(30) DEF Sent
<1>4. InFlight'
  BY <1>1, <1>2, SMTT(30) DEF Sent, InFlight, OperatorOps
<1>. QED
  BY <1>1, <1>2, <1>3, <1>4, Zenon DEF RecordsOK, Requests, LeaseStands, OwnLease, CheckPassed

(* An operator command is submitted; time passes. *)
LEMMA QuietSteps ==
    ASSUME Parts, Tick \/ (\E a \in Authorities : SubmitOperator(a)) \/ UNCHANGED vars
    PROVE  Parts'
<1>. USE OwnershipAssumption, LeaseAssumption DEF Parts
<1>1. CASE Tick
  <2>. USE <1>1 DEF Tick
  <2>1. Sent' /\ InFlight'
    BY SMTT(30) DEF Sent, InFlight, Command, OperatorOps
  <2>2. LeaseStands'
    BY SMTT(30) DEF LeaseStands, OwnLease, Requests, Request
  <2>. QED
    BY <2>1, <2>2 DEF RecordsOK, Requests, CheckPassed
<1>2. ASSUME NEW a \in Authorities, SubmitOperator(a)
      PROVE  Parts'
  <2>. PICK t \in Reading : \E c \in OperatorCommands(a, t) : log' = log \cup {c}
    BY <1>2, Zenon DEF SubmitOperator
  <2>. PICK c \in OperatorCommands(a, t) : log' = log \cup {c}
    BY Zenon
  <2>1. c \in Command /\ c.op \in OperatorOps /\ c.at <= now + Drift
    BY SMTT(30) DEF OperatorCommands, Command, OperatorOps, Reading
  <2>2. UNCHANGED <<now, records, forgets, sent, req>>
    BY <1>2, Zenon DEF SubmitOperator
  <2>3. Sent' /\ InFlight'
    BY <2>1, <2>2 DEF Sent, InFlight, OperatorOps
  <2>. QED
    BY <2>1, <2>2, <2>3, Zenon DEF RecordsOK, Requests, LeaseStands, OwnLease, CheckPassed
<1>3. CASE UNCHANGED vars
  BY <1>3, Zenon DEF vars, RecordsOK, Requests, Sent, InFlight, LeaseStands, OwnLease, CheckPassed
<1>. QED
  BY <1>1, <1>2, <1>3, Zenon

(* Every step keeps the invariant. *)
LEMMA NextInvariant == IInv /\ [Next]_vars => IInv'
<1>1. ASSUME Parts, [Next]_vars PROVE Parts'
  BY <1>1, HandlerSteps, ClaimStep, OperatorStep, FinishStep, BeginStep, ArriveStep, QuietSteps, Zenon DEF Next
<1>2. (IInv <=> Parts) /\ (IInv' <=> Parts')
  BY InvariantParts, PTL
<1>. QED
  BY <1>1, <1>2, Zenon

(* The invariant makes every open transaction hold its epoch: were its     *)
(* lease gone from the record, time would have passed the check by         *)
(* more than CommitBound.                                                  *)
LEMMA InvariantFences == IInv => FencedCommit
<1>. SUFFICES ASSUME IInv, NEW w \in Writes, MayCommitWithin(w, CommitBound)
              PROVE  Current(w).epoch = req[w].fence
  BY Zenon DEF FencedCommit
<1>. USE OwnershipAssumption, LeaseAssumption DEF IInv, TypeOK, MayCommitWithin, MayCommit
<1>1. req[w] \in Request /\ req[w].authority \in Authorities
  BY Zenon DEF Busy
<1>2. ~(req[w].expires + Skew <= now + Drift)
  BY <1>1 DEF CheckPassed, Request
<1>3. OwnLease(w) \in records[req[w].authority].writes
  BY <1>2, Zenon DEF LeaseStands
<1>. QED
  BY <1>1, <1>3, Zenon DEF LeasesCurrent, OwnLease, Current

(* Type correctness of every reachable state. *)
THEOREM TypeCorrect == Spec => []TypeOK
<1>1. IInv => TypeOK
  BY Zenon DEF IInv
<1>. QED
  BY InitInvariant, NextInvariant, <1>1, PTL DEF Spec

(* For every skew, drift and commit bound the assumption admits, a checked *)
(* transaction that commits in time commits under the authority's current  *)
(* epoch, whatever transfers, advances and forgets race it.                *)
THEOREM CommitsAreFenced == Spec => []FencedCommit
BY InitInvariant, NextInvariant, InvariantFences, PTL DEF Spec

-----------------------------------------------------------------------------
(* A publish commits at home.                                              *)

(* While its authority has not been forgotten since the claim, a publish   *)
(* that still presents the current epoch presents it from the home.        *)
ClaimedHome ==
    \A w \in Writes : req[w].pc \in Busy =>
        LET a == req[w].authority IN
        /\ req[w].born <= forgets[a]
        /\ req[w].kind = "publish" /\ forgets[a] = req[w].born =>
              /\ records[a].epoch >= req[w].fence
              /\ records[a].epoch = req[w].fence => records[a].home = req[w].dc

(* No command moves a home without raising the epoch. *)
Advances(r, s) ==
    /\ s.epoch >= r.epoch
    /\ s.epoch = r.epoch => s.home = r.home

(* No command but forget moves a record back to an earlier epoch. *)
LEMMA CommandsAdvance ==
    ASSUME NEW r, RecordOK(r), NEW t \in Int
    PROVE  /\ \A d \in Datacenters : Advances(r, assign_home(r, d).record)
           /\ \A d \in Datacenters : Advances(r, transfer(r, d, t).record)
           /\ Advances(r, advance_epoch(r, t).record)
           /\ forget(r, t).effect # "Forgotten" => Advances(r, forget(r, t).record)
           /\ \A e \in Nat, w \in Writes, x \in Int : Advances(r, begin_write(r, e, w, t, x).record)
           /\ \A e \in Nat, w \in Writes : Advances(r, finish_write(r, e, w).record)
<1>1. r.epoch \in Nat /\ Advances(r, r)
  BY DEF RecordOK, Record, Advances
<1>2. Advances(r, expire_writes(r, t))
  BY <1>1, ExpireKeeps, Zenon DEF Advances
<1>3. \A d \in Datacenters : Advances(r, assign_home(r, d).record)
  BY <1>1 DEF assign_home, Effect, Advances, RecordOK, UNASSIGNED
<1>4. \A d \in Datacenters : Advances(r, transfer(r, d, t).record)
  BY <1>1, <1>2, SMTT(30) DEF transfer, WhenDrained, Effect, Advances
<1>5. Advances(r, advance_epoch(r, t).record)
  BY <1>1, <1>2 DEF advance_epoch, WhenDrained, Effect, Advances
<1>6. forget(r, t).effect # "Forgotten" => Advances(r, forget(r, t).record)
  BY <1>1, <1>2, Zenon DEF forget, WhenDrained, Effect
<1>7. ASSUME NEW e \in Nat, NEW w \in Writes, NEW x \in Int
      PROVE  Advances(r, begin_write(r, e, w, t, x).record)
  <2>. DEFINE live == expire_writes(r, t)
              s == [live EXCEPT !.writes =
                      {l \in @ : l.id # w} \cup {[id |-> w, epoch |-> e, expires |-> x]}]
  <2>1. RecordOK(live)
    BY ExpireKeeps, Zenon
  <2>2. s.epoch = live.epoch /\ s.home = live.home
    BY <2>1, Zenon DEF RecordOK, Record
  <2>3. Advances(r, s)
    BY <1>2, <2>2, Zenon DEF Advances
  <2>. HIDE DEF live, s
  <2>4. begin_write(r, e, w, t, x).record \in {r, live, s}
    BY Zenon DEF begin_write, Effect, live, s
  <2>. QED
    BY <1>1, <1>2, <2>3, <2>4, Zenon DEF live
<1>8. ASSUME NEW e \in Nat, NEW w \in Writes
      PROVE  Advances(r, finish_write(r, e, w).record)
  BY <1>1, Zenon DEF finish_write, Effect, Advances, RecordOK, Record
<1>. QED
  BY <1>3, <1>4, <1>5, <1>6, <1>7, <1>8, Zenon

(* Every step forgets an authority or moves its record forward. *)
LEMMA RecordsAdvance ==
    ASSUME Parts, [Next]_vars, NEW a \in Authorities
    PROVE  \/ forgets'[a] = forgets[a] /\ Advances(records[a], records'[a])
           \/ forgets'[a] = forgets[a] + 1
<1>. USE DEF Parts
<1>1. RecordOK(records[a]) /\ records[a].epoch \in Nat /\ Advances(records[a], records[a])
  BY DEF RecordsOK, RecordOK, Record, Advances
<1>2. CASE UNCHANGED <<records, forgets>>
  BY <1>1, <1>2, Zenon
<1>3. ASSUME NEW w \in Writes, NEW b \in Authorities, NEW d \in Datacenters, Claim(w, b, d)
      PROVE  forgets'[a] = forgets[a] /\ Advances(records[a], records'[a])
  <2>1. forgets' = forgets /\ records'[a] \in {records[a], assign_home(records[a], d).record}
    BY <1>3, Zenon DEF Claim, RecordsOK
  <2>2. Advances(records[a], assign_home(records[a], d).record)
    <3>1. 0 \in Int
      OBVIOUS
    <3>. QED
      BY <1>1, <3>1, CommandsAdvance, Zenon
  <2>. QED
    BY <1>1, <2>1, <2>2, Zenon
<1>4. ASSUME NEW c \in log, ApplyBegin(c)
      PROVE  forgets'[a] = forgets[a] /\ Advances(records[a], records'[a])
  <2>1. c.epoch \in Nat /\ c.id \in Writes /\ c.issued \in Int /\ c.expires \in Int
    BY <1>4, Zenon DEF ApplyBegin, Command
  <2>2. records'[a] \in {records[a], begin_write(records[a], c.epoch, c.id, c.issued, c.expires).record}
    BY <1>4, Zenon DEF ApplyBegin, RecordsOK
  <2>. QED
    BY <1>1, <1>4, <2>1, <2>2, CommandsAdvance, Zenon DEF ApplyBegin
<1>5. ASSUME NEW c \in log, ApplyFinish(c)
      PROVE  forgets'[a] = forgets[a] /\ Advances(records[a], records'[a])
  <2>1. c.epoch \in Nat /\ c.id \in Writes
    BY <1>5, Zenon DEF ApplyFinish, Command
  <2>2. records'[a] \in {records[a], finish_write(records[a], c.epoch, c.id).record}
    BY <1>5, Zenon DEF ApplyFinish, RecordsOK
  <2>. QED
    BY <1>1, <1>5, <2>1, <2>2, CommandsAdvance, SMTT(30) DEF ApplyFinish
<1>6. ASSUME NEW c \in log, ApplyOperator(c)
      PROVE  \/ forgets'[a] = forgets[a] /\ Advances(records[a], records'[a])
             \/ forgets'[a] = forgets[a] + 1
  <2>1. c.at \in Int /\ c.authority \in Authorities /\ (c.op = "Transfer" => c.home \in Datacenters)
    BY <1>6, Zenon DEF ApplyOperator, Command, OperatorOps
  <2>2. CASE a # c.authority
    BY <1>1, <1>6, <2>1, <2>2, Zenon DEF ApplyOperator, RecordsOK
  <2>3. CASE a = c.authority /\ c.op = "Transfer"
    <3>1. records'[a] = transfer(records[a], c.home, c.at).record
      BY <1>6, <2>1, <2>3, Zenon DEF ApplyOperator, RecordsOK
    <3>2. forgets'[a] \in {forgets[a], forgets[a] + 1}
      BY <1>6, <2>1, <2>3, Zenon DEF ApplyOperator
    <3>. QED
      BY <1>1, <2>1, <2>3, <3>1, <3>2, CommandsAdvance, Zenon
  <2>4. CASE a = c.authority /\ c.op = "Advance"
    <3>1. records'[a] = advance_epoch(records[a], c.at).record
      BY <1>6, <2>1, <2>4, Zenon DEF ApplyOperator, RecordsOK
    <3>2. forgets'[a] \in {forgets[a], forgets[a] + 1}
      BY <1>6, <2>1, <2>4, Zenon DEF ApplyOperator
    <3>. QED
      BY <1>1, <2>1, <2>4, <3>1, <3>2, CommandsAdvance, Zenon
  <2>5. CASE a = c.authority /\ c.op = "Forget"
    <3>. DEFINE out == forget(records[a], c.at)
    <3>1. /\ records'[a] = out.record
          /\ forgets'[a] = IF out.effect = "Forgotten" THEN forgets[a] + 1 ELSE forgets[a]
      BY <1>6, <2>1, <2>5, Zenon DEF ApplyOperator, RecordsOK
    <3>. QED
      BY <1>1, <2>1, <3>1, CommandsAdvance, Zenon
  <2>. QED
    BY <1>6, <2>2, <2>3, <2>4, <2>5, Zenon DEF ApplyOperator, OperatorOps
<1>7. Next \/ UNCHANGED vars
  BY Zenon
<1>. QED
  BY <1>2, <1>3, <1>4, <1>5, <1>6, <1>7, ZenonT(60), Zenon
  DEF Next, vars, Snapshot, SubmitBegin, Arrive, GiveUp, CheckLease, EndTxn, SubmitFinish, SubmitOperator, Tick

(* A request that is under way keeps what it claimed, or has just claimed. *)
Claimed(w) == <<req[w].kind, req[w].authority, req[w].dc, req[w].fence, req[w].born>>

(* A step keeps what a busy request claimed, or is the claim itself. *)
LEMMA RequestsKeepClaim ==
    ASSUME Parts, [Next]_vars, NEW w \in Writes, req'[w].pc \in Busy
    PROVE  \/ req[w].pc \in Busy /\ Claimed(w)' = Claimed(w)
           \/ req'[w].kind = "control" /\ req'[w].authority \in Authorities
              /\ req'[w].born = forgets[req'[w].authority] /\ UNCHANGED forgets
           \/ \E a \in Authorities, d \in Datacenters :
                 /\ req'[w] = Fenced("publish", a, d, records'[a].epoch)
                 /\ records'[a].home = d
                 /\ UNCHANGED forgets
<1>. USE DEF Parts, Requests
<1>1. ASSUME UNCHANGED req PROVE req[w].pc \in Busy /\ Claimed(w)' = Claimed(w)
  BY <1>1, Zenon DEF Claimed
<1>2. ASSUME NEW u \in Writes, NEW a \in Authorities, NEW d \in Datacenters, Claim(u, a, d)
      PROVE  \/ req[w].pc \in Busy /\ Claimed(w)' = Claimed(w)
             \/ /\ req'[w] = Fenced("publish", a, d, records'[a].epoch)
                /\ records'[a].home = d
                /\ UNCHANGED forgets
  <2>1. CASE u # w
    BY <1>2, <2>1, Zenon DEF Claim, Claimed
  <2>2. CASE u = w
    <3>1. records'[a] = assign_home(records[a], d).record
      BY <1>2, Zenon DEF Claim, RecordsOK
    <3>. QED
      BY <1>2, <2>2, <3>1, Zenon DEF Claim, Done, Blank, Busy
  <2>. QED
    BY <2>1, <2>2, Zenon
<1>3. ASSUME NEW u \in Writes, NEW a \in Authorities, NEW d \in Datacenters, Snapshot(u, a, d)
      PROVE  \/ req[w].pc \in Busy /\ Claimed(w)' = Claimed(w)
             \/ req'[w].kind = "control" /\ req'[w].authority \in Authorities
                /\ req'[w].born = forgets[req'[w].authority] /\ UNCHANGED forgets
  BY <1>3 DEF Snapshot, Fenced, Claimed
<1>4. ASSUME NEW u \in Writes, SubmitBegin(u) \/ GiveUp(u) \/ EndTxn(u) \/ SubmitFinish(u)
      PROVE  req[w].pc \in Busy /\ Claimed(w)' = Claimed(w)
  BY <1>4 DEF SubmitBegin, GiveUp, EndTxn, SubmitFinish, Done, Blank, Busy, Claimed, Request
<1>5. ASSUME NEW u \in Writes, CheckLease(u)
      PROVE  req[w].pc \in Busy /\ Claimed(w)' = Claimed(w)
  BY <1>5 DEF CheckLease, Busy, Claimed, Request
<1>6. ASSUME NEW c \in log, ApplyBegin(c)
      PROVE  req[w].pc \in Busy /\ Claimed(w)' = Claimed(w)
  <2>1. CASE c.id # w
    BY <1>6, <2>1, Zenon DEF ApplyBegin, Claimed
  <2>2. CASE c.id = w /\ req[w].pc # "submitted"
    BY <1>6, <2>2, Zenon DEF ApplyBegin, Claimed
  <2>3. CASE c.id = w /\ req[w].pc = "submitted"
    <3>1. Done.pc \notin Busy
      BY Zenon DEF Done, Blank, Busy
    <3>2. req'[w] = [req[w] EXCEPT !.pc = "leased", !.expires = c.expires]
      BY <1>6, <2>3, <3>1, Zenon DEF ApplyBegin
    <3>3. /\ req'[w].kind = req[w].kind /\ req'[w].authority = req[w].authority
          /\ req'[w].dc = req[w].dc /\ req'[w].fence = req[w].fence
          /\ req'[w].born = req[w].born
      BY <3>2, SMTT(30) DEF Request
    <3>. QED
      BY <2>3, <3>3, Zenon DEF Claimed, Busy
  <2>. QED
    BY <2>1, <2>2, <2>3, Zenon
<1>7. \/ UNCHANGED req
      \/ \E u \in Writes, a \in Authorities, d \in Datacenters : Claim(u, a, d)
      \/ \E u \in Writes, a \in Authorities, d \in Datacenters : Snapshot(u, a, d)
      \/ \E u \in Writes : SubmitBegin(u) \/ GiveUp(u) \/ EndTxn(u) \/ SubmitFinish(u)
      \/ \E u \in Writes : CheckLease(u)
      \/ \E c \in log : ApplyBegin(c)
  BY ZenonT(60), Zenon DEF Next, vars, Arrive, ApplyFinish, ApplyOperator, SubmitOperator, Tick
<1>. HIDE DEF Parts, Requests
<1>. QED
  <2>1. CASE UNCHANGED req
    BY <1>1, <2>1, Zenon
  <2>2. CASE \E u \in Writes, a \in Authorities, d \in Datacenters : Claim(u, a, d)
    BY <1>2, <2>2
  <2>3. CASE \E u \in Writes, a \in Authorities, d \in Datacenters : Snapshot(u, a, d)
    BY <1>3, <2>3, Zenon
  <2>4. CASE \E u \in Writes : SubmitBegin(u) \/ GiveUp(u) \/ EndTxn(u) \/ SubmitFinish(u)
    BY <1>4, <2>4, Zenon
  <2>5. CASE \E u \in Writes : CheckLease(u)
    BY <1>5, <2>5, Zenon
  <2>6. CASE \E c \in log : ApplyBegin(c)
    BY <1>6, <2>6, Zenon
  <2>. QED
    BY <1>7, <2>1, <2>2, <2>3, <2>4, <2>5, <2>6, ZenonT(60), Zenon

(* A claimed home stands until the epoch moves or the authority is forgotten. *)
LEMMA ClaimedHomeStep == IInv /\ ClaimedHome /\ [Next]_vars => ClaimedHome'
<1>. SUFFICES ASSUME Parts, Parts', ClaimedHome, [Next]_vars, NEW w \in Writes, req'[w].pc \in Busy
              PROVE  LET a == req'[w].authority IN
                     /\ req'[w].born <= forgets'[a]
                     /\ req'[w].kind = "publish" /\ forgets'[a] = req'[w].born =>
                           /\ records'[a].epoch >= req'[w].fence
                           /\ records'[a].epoch = req'[w].fence => records'[a].home = req'[w].dc
  <2>1. (IInv <=> Parts) /\ (IInv' <=> Parts')
    BY InvariantParts, PTL
  <2>. QED
    BY <2>1, NextInvariant, Zenon DEF ClaimedHome
<1>. USE DEF Parts
<1>0. \A a \in Authorities : records'[a].epoch \in Nat /\ records[a].epoch \in Nat
  BY Zenon DEF RecordsOK, Record
<1>1. CASE req[w].pc \in Busy /\ Claimed(w)' = Claimed(w)
  <2>. DEFINE a == req[w].authority
  <2>1. /\ req'[w].kind = req[w].kind /\ req'[w].authority = a
        /\ req'[w].dc = req[w].dc /\ req'[w].fence = req[w].fence
        /\ req'[w].born = req[w].born
    BY <1>1, Zenon DEF Claimed
  <2>2. /\ a \in Authorities /\ req[w].born \in Nat /\ req[w].fence \in Nat
        /\ forgets[a] \in Nat
    BY <1>1, Zenon DEF Requests, Request
  <2>3. \/ forgets'[a] = forgets[a] /\ Advances(records[a], records'[a])
        \/ forgets'[a] = forgets[a] + 1
    BY <2>2, RecordsAdvance, Zenon
  <2>4. /\ req[w].born <= forgets[a]
        /\ req[w].kind = "publish" /\ forgets[a] = req[w].born =>
              /\ records[a].epoch >= req[w].fence
              /\ records[a].epoch = req[w].fence => records[a].home = req[w].dc
    BY <1>1, Zenon DEF ClaimedHome
  <2>5. records'[a].epoch \in Nat /\ records[a].epoch \in Nat
    BY <1>0, <2>2, Zenon
  <2>. HIDE DEF a
  <2>6. CASE forgets'[a] = forgets[a] + 1
    BY <2>1, <2>2, <2>4, <2>6, SMTT(30)
  <2>7. CASE forgets'[a] = forgets[a] /\ Advances(records[a], records'[a])
    BY <2>1, <2>2, <2>4, <2>5, <2>7, SMTT(30) DEF Advances
  <2>. QED
    BY <2>3, <2>6, <2>7, Zenon
<1>2. CASE /\ req'[w].kind = "control" /\ req'[w].authority \in Authorities
           /\ req'[w].born = forgets[req'[w].authority] /\ UNCHANGED forgets
  BY <1>2
<1>3. ASSUME NEW a \in Authorities, NEW d \in Datacenters,
             req'[w] = Fenced("publish", a, d, records'[a].epoch),
             records'[a].home = d, UNCHANGED forgets
      PROVE  /\ req'[w].authority = a
             /\ req'[w].born <= forgets'[a]
             /\ records'[a].epoch >= req'[w].fence
             /\ records'[a].home = req'[w].dc
  BY <1>0, <1>3 DEF Fenced
<1>. QED
  BY <1>1, <1>2, <1>3, RequestsKeepClaim, ZenonT(60), Zenon

(* For every value of the constants, a publish that commits in time after  *)
(* its check commits in the authority's home datacenter, as long as the    *)
(* authority has not been forgotten in between.                            *)
THEOREM PublishesCommitAtHome == Spec => []PublishAtHome
<1>1. Init => ClaimedHome
  BY SMTT(30) DEF Init, ClaimedHome, Idle, Blank, Busy
<1>2. ClaimedHome /\ FencedCommit => PublishAtHome
  BY Zenon DEF ClaimedHome, FencedCommit, PublishAtHome, MayCommitWithin, MayCommit, Current, Busy
<1>. QED
  BY <1>1, <1>2, InitInvariant, NextInvariant, ClaimedHomeStep, InvariantFences, PTL DEF Spec

-----------------------------------------------------------------------------
(* The lease protocol implements CommitWindow.                             *)

(* What the mapping needs of a state: types, and windows of current epochs. *)
Mapped ==
    /\ now \in Nat
    /\ records \in [Authorities -> Record]
    /\ req \in [Writes -> Request]
    /\ \A o \in OpenWindows : o.authority \in Authorities /\ o.epoch = Epochs[o.authority]

(* An open window carries its authority's epoch. *)
LEMMA InvariantMaps == IInv => Mapped
<1>. SUFFICES ASSUME IInv PROVE Mapped
  OBVIOUS
<1>1. \A w \in Writes : MayCommitWithin(w, CommitBound) =>
        req[w].authority \in Authorities /\ records[req[w].authority].epoch = req[w].fence
  BY InvariantFences, Zenon DEF IInv, TypeOK, FencedCommit, Current, MayCommitWithin, MayCommit, Busy
<1>. QED
  BY <1>1, SMTT(30) DEF Mapped, IInv, TypeOK, OpenWindows, Epochs

(* Requests outside their transaction may change without a window opening. *)
LEMMA WindowsKept ==
    ASSUME NEW w \in Writes, Mapped, UNCHANGED now,
           req' \in [Writes -> Request], req[w].pc # "checked", req'[w].pc # "checked",
           \A v \in Writes \ {w} : req'[v] = req[v]
    PROVE  OpenWindows' = OpenWindows
<1>1. \A v \in Writes : MayCommitWithin(v, CommitBound)' <=> MayCommitWithin(v, CommitBound)
  BY Zenon DEF MayCommitWithin, MayCommit
<1>2. \A v \in Writes : MayCommitWithin(v, CommitBound) => v # w
  BY Zenon DEF MayCommitWithin, MayCommit
<1>. QED
  BY <1>1, <1>2, Zenon DEF OpenWindows

(* A step that touches one authority's record moves it only when none of   *)
(* its windows is open: they would carry both the old epoch and the new.   *)
LEMMA RecordStep ==
    ASSUME Mapped, Mapped', NEW a \in Authorities, OpenWindows' = OpenWindows,
           \A b \in Authorities \ {a} : records'[b] = records[b]
    PROVE  Windows!Next
<1>1. /\ Epochs \in [Authorities -> Nat] /\ Epochs' \in [Authorities -> Nat]
      /\ \A b \in Authorities \ {a} : Epochs'[b] = Epochs[b]
  BY Zenon DEF Mapped, Epochs, Record
<1>2. CASE Epochs'[a] = Epochs[a]
  <2>1. Epochs' = Epochs
    BY <1>1, <1>2
  <2>. QED
    BY <2>1, Zenon DEF Windows!Next, Windows!Close
<1>3. CASE Epochs'[a] # Epochs[a]
  <2>1. \A o \in OpenWindows : o.epoch = Epochs[o.authority] /\ o.epoch = Epochs'[o.authority]
    BY Zenon DEF Mapped
  <2>2. \A o \in OpenWindows : o.authority # a
    BY <1>3, <2>1, Zenon
  <2>3. Epochs' = [Epochs EXCEPT ![a] = Epochs'[a]]
    BY <1>1, Zenon
  <2>4. Windows!Move(a)
    BY <1>1, <2>2, <2>3, Zenon DEF Windows!Move
  <2>. QED
    BY <2>4, Zenon DEF Windows!Next
<1>. QED
  BY <1>2, <1>3, Zenon

(* A step that leaves the records alone and opens no window. *)
LEMMA ClosingStep ==
    ASSUME UNCHANGED records, OpenWindows' \subseteq OpenWindows
    PROVE  Windows!Next
BY Zenon DEF Windows!Next, Windows!Close, Epochs

(* The lease check opens a window, under the epoch the invariant vouches   *)
(* for, or opens none.                                                     *)
LEMMA CheckStep ==
    ASSUME Mapped, Mapped', NEW w \in Writes, CheckLease(w)
    PROVE  Windows!Next
<1>. USE DEF CheckLease
<1>1. /\ req[w].pc = "leased" /\ UNCHANGED <<now, records>>
      /\ \A v \in Writes \ {w} : req'[v] = req[v]
      /\ req'[w].authority = req[w].authority /\ req'[w].fence = req[w].fence
      /\ req'[w].checked = now
  BY DEF Mapped, Request
<1>2. CASE req'[w].pc # "checked"
  BY <1>1, <1>2, WindowsKept, ClosingStep, Zenon DEF Mapped
<1>3. CASE req'[w].pc = "checked"
  <2>. DEFINE o == [write |-> w, authority |-> req[w].authority, epoch |-> req[w].fence]
  <2>1. MayCommitWithin(w, CommitBound)' /\ ~MayCommitWithin(w, CommitBound)
    BY <1>1, <1>3, LeaseAssumption DEF MayCommitWithin, MayCommit, Mapped
  <2>2. \A v \in Writes \ {w} : MayCommitWithin(v, CommitBound)' <=> MayCommitWithin(v, CommitBound)
    BY <1>1, Zenon DEF MayCommitWithin, MayCommit
  <2>3. OpenWindows' = OpenWindows \cup {o}
    <3>. DEFINE win(r, v) == [write |-> v, authority |-> r[v].authority, epoch |-> r[v].fence]
    <3>1. /\ \A p : p \in OpenWindows <=> \E v \in Writes : MayCommitWithin(v, CommitBound) /\ p = win(req, v)
          /\ \A p : p \in OpenWindows' <=> \E v \in Writes : MayCommitWithin(v, CommitBound)' /\ p = win(req', v)
      BY Zenon DEF OpenWindows
    <3>2. win(req', w) = o /\ \A v \in Writes \ {w} : win(req', v) = win(req, v)
      BY <1>1, Zenon
    <3>. HIDE DEF o, win
    <3>3. ASSUME NEW p \in OpenWindows' PROVE p \in OpenWindows \cup {o}
      <4>1. PICK v \in Writes : MayCommitWithin(v, CommitBound)' /\ p = win(req', v)
        BY <3>1, <3>3, Zenon
      <4>. QED
        BY <2>2, <3>1, <3>2, <4>1, Zenon
    <3>4. ASSUME NEW p \in OpenWindows PROVE p \in OpenWindows'
      <4>1. PICK v \in Writes : MayCommitWithin(v, CommitBound) /\ p = win(req, v)
        BY <3>1, <3>4, Zenon
      <4>2. v # w
        BY <2>1, <4>1, Zenon
      <4>. QED
        BY <2>2, <3>1, <3>2, <4>1, <4>2, Zenon
    <3>5. o \in OpenWindows'
      BY <2>1, <3>1, <3>2, Zenon
    <3>. QED
      BY <3>3, <3>4, <3>5, Zenon
  <2>4. req[w].authority \in Authorities /\ req[w].fence = Epochs[req[w].authority]
    <3>1. o.authority \in Authorities /\ o.epoch = Epochs'[o.authority]
      BY <2>3, Zenon DEF Mapped
    <3>2. Epochs' = Epochs
      BY <1>1, Zenon DEF Epochs
    <3>. QED
      BY <3>1, <3>2, Zenon
  <2>5. \A p \in OpenWindows : p.write # w
    BY <2>1 DEF OpenWindows
  <2>6. Windows!Open(w, req[w].authority)
    BY <1>1, <2>3, <2>4, <2>5, Zenon DEF Windows!Open, Windows!Window, Epochs
  <2>. QED
    BY <2>4, <2>6, Zenon DEF Windows!Next
<1>. QED
  BY <1>2, <1>3, Zenon

(* Every step maps to a step of CommitWindow or leaves its variables alone. *)
LEMMA StepRefines ==
    ASSUME IInv, IInv', [Next]_vars
    PROVE  [Windows!Next]_<<Epochs, OpenWindows>>
<1>0. Mapped /\ Mapped'
  BY InvariantMaps, PTL
<1>. USE <1>0
<1>1. ASSUME NEW w \in Writes, NEW a \in Authorities, NEW d \in Datacenters, Claim(w, a, d)
      PROVE  Windows!Next
  <2>1. OpenWindows' = OpenWindows
    BY <1>1, WindowsKept, SMTT(30) DEF Claim, Mapped, Idle, Done, Blank, Fenced
  <2>. QED
    BY <1>1, <2>1, RecordStep, Zenon DEF Claim, Mapped
<1>2. ASSUME NEW w \in Writes,
             \/ \E a \in Authorities, d \in Datacenters : Snapshot(w, a, d)
             \/ SubmitBegin(w) \/ GiveUp(w)
      PROVE  Windows!Next
  <2>1. OpenWindows' = OpenWindows /\ UNCHANGED records
    BY <1>2, WindowsKept DEF Snapshot, SubmitBegin, GiveUp, Mapped, Request, Idle, Done, Blank, Fenced
  <2>. QED
    BY <2>1, ClosingStep, Zenon
<1>3. ASSUME NEW w \in Writes, CheckLease(w)
      PROVE  Windows!Next
  BY <1>3, CheckStep, Zenon
<1>4. ASSUME NEW w \in Writes, EndTxn(w) \/ SubmitFinish(w)
      PROVE  Windows!Next
  <2>1. /\ UNCHANGED <<now, records>> /\ req'[w].pc # "checked"
        /\ \A v \in Writes \ {w} : req'[v] = req[v]
    BY <1>4 DEF EndTxn, SubmitFinish, Mapped, Request, Done, Blank
  <2>2. \A v \in Writes : MayCommitWithin(v, CommitBound)' => v # w /\ MayCommitWithin(v, CommitBound)
    BY <2>1, Zenon DEF MayCommitWithin, MayCommit
  <2>3. OpenWindows' \subseteq OpenWindows
    BY <2>1, <2>2, Zenon DEF OpenWindows
  <2>. QED
    BY <2>1, <2>3, ClosingStep, Zenon
<1>5. ASSUME NEW c \in log, ApplyBegin(c)
      PROVE  Windows!Next
  <2>1. c.authority \in Authorities /\ c.id \in Writes /\ req[c.id].pc # "checked"
    BY <1>5, Zenon DEF ApplyBegin, IInv, TypeOK, InFlight, Command
  <2>2. /\ req'[c.id].pc # "checked"
        /\ \A v \in Writes \ {c.id} : req'[v] = req[v]
        /\ \A b \in Authorities \ {c.authority} : records'[b] = records[b]
        /\ UNCHANGED now
    BY <1>5, <2>1 DEF ApplyBegin, Mapped, Request, Done, Blank
  <2>3. OpenWindows' = OpenWindows
    BY <2>1, <2>2, WindowsKept, Zenon DEF Mapped
  <2>. QED
    BY <2>1, <2>2, <2>3, RecordStep, Zenon
<1>6. ASSUME NEW c \in log, ApplyFinish(c) \/ ApplyOperator(c)
      PROVE  Windows!Next
  <2>1. c.authority \in Authorities
    BY Zenon DEF IInv, TypeOK, Command
  <2>2. /\ \A b \in Authorities \ {c.authority} : records'[b] = records[b]
        /\ UNCHANGED <<now, req>>
    BY <1>6, <2>1, Zenon DEF ApplyFinish, ApplyOperator, Mapped
  <2>3. OpenWindows' = OpenWindows
    BY <2>2, Zenon DEF OpenWindows, MayCommitWithin, MayCommit
  <2>. QED
    BY <2>1, <2>2, <2>3, RecordStep, Zenon
<1>7. ASSUME (\E a \in Authorities : SubmitOperator(a)) \/ (\E c \in sent : Arrive(c))
      PROVE  Windows!Next
  <2>1. OpenWindows' = OpenWindows /\ UNCHANGED records
    BY <1>7, Zenon DEF SubmitOperator, Arrive, OpenWindows, MayCommitWithin, MayCommit
  <2>. QED
    BY <2>1, ClosingStep, Zenon
<1>8. CASE Tick
  <2>1. now' = now + 1 /\ UNCHANGED <<records, req>>
    BY <1>8, Zenon DEF Tick
  <2>2. \A v \in Writes : MayCommitWithin(v, CommitBound)' => MayCommitWithin(v, CommitBound)
    BY <2>1, LeaseAssumption DEF MayCommitWithin, MayCommit, Mapped, Request
  <2>3. OpenWindows' \subseteq OpenWindows
    BY <2>1, <2>2, Zenon DEF OpenWindows
  <2>. QED
    BY <2>1, <2>3, ClosingStep, Zenon
<1>9. CASE UNCHANGED vars
  BY <1>9, Zenon DEF vars, OpenWindows, Epochs, MayCommitWithin, MayCommit
<1>. QED
  BY <1>1, <1>2, <1>3, <1>4, <1>5, <1>6, <1>7, <1>8, <1>9, Zenon DEF Next

(* For every value of the constants the lease protocol implements          *)
(* CommitWindow: no transfer, advance, forget or first assignment of an    *)
(* authority takes effect while one of its mutations may commit.           *)
THEOREM LeasesImplementWindows == Spec => CommitWindows
<1>1. Init => Windows!Init
  BY DEF Init, Windows!Init, Epochs, OpenWindows, MayCommitWithin, MayCommit, Unowned, UNASSIGNED, Idle, Blank
<1>2. IInv /\ IInv' /\ [Next]_vars => [Windows!Next]_<<Epochs, OpenWindows>>
  BY StepRefines, Zenon
<1>. QED
  BY <1>1, <1>2, InitInvariant, NextInvariant, PTL DEF Spec, CommitWindows, Windows!Spec, Windows!vars

-----------------------------------------------------------------------------
(* SingletonLease, for every set of holders, every lease length and any    *)
(* delay, with clocks no further apart than the skew.  Configured is what  *)
(* it assumes of its constants; no assumption of WriteLease is used.       *)

(* A request names a generation that was granted; a release names no run   *)
(* that still goes on.                                                     *)
Named(c) ==
    /\ c.generation <= grant.generation
    /\ c.op = "Release" /\ run[c.holder].pc = "running" => c.generation < run[c.holder].generation

RunRequests ==
    /\ \A c \in net : Named(c)
    /\ \A i \in 1..Len(entries) : Named(entries[i])

(* Stamps are no reading of the future, and one falls behind an earlier    *)
(* one by no more than two leaders' clocks differ.                         *)
Stamps ==
    \A i \in 1..Len(entries) :
        /\ entries[i].issued <= now + Drift
        /\ \A j \in i..Len(entries) : entries[i].issued <= entries[j].issued + Drift

(* What a run was told of its deadline is at most Drift ahead of what the  *)
(* state machine will know: by the clock, after every entry of the log,    *)
(* and on the record while the grant is the committed one.  Once it was    *)
(* superseded, some clock has read that deadline plus the skew.            *)
Deadline(h) ==
    /\ run[h].until <= now + Drift + LeaseSecs
    /\ run[h].generation = grant.generation =>
         grant.holder = h /\ run[h].until <= grant.expires + Drift
    /\ run[h].generation # grant.generation =>
         run[h].until + Skew <= now + Drift + Drift

Ahead(h) == \A i \in 1..Len(entries) : run[h].until <= entries[i].issued + Drift + LeaseSecs

Standing(h) == Deadline(h) /\ Ahead(h)

Standings ==
    \A h \in Holders :
        /\ run[h].generation <= grant.generation
        /\ Active(h) => Standing(h)

RunInv == SingletonTypeOK /\ RunRequests /\ Stamps /\ Standings

-----------------------------------------------------------------------------
(* Steps that only take requests away, or only stop waiting for them.      *)

Same(c, d) ==
    c.op = d.op /\ c.holder = d.holder /\ c.generation = d.generation

(* Every request on its way is one that was. *)
NetThinned ==
    /\ net' \subseteq RequestType
    /\ \A c \in net' : \E d \in net : Same(c, d)

(* Every entry of the log is one that was there, in the same order. *)
LogThinned ==
    /\ entries' \in Seq(EntryType)
    /\ \E f \in [1..Len(entries') -> 1..Len(entries)] :
         /\ \A i, j \in 1..Len(entries') : i <= j => f[i] <= f[j]
         /\ \A i \in 1..Len(entries') : Same(entries'[i], entries[f[i]]) /\ entries'[i].issued = entries[f[i]].issued

LEMMA OrphanedKeeps ==
    ASSUME Configured, NEW h \in Holders
    PROVE  /\ \A c \in RequestType : Orphaned(h, c) \in RequestType /\ Same(Orphaned(h, c), c)
           /\ \A c \in EntryType : /\ Orphaned(h, c) \in EntryType /\ Same(Orphaned(h, c), c)
                                   /\ Orphaned(h, c).issued = c.issued
BY Zenon DEF Orphaned, RequestType, EntryType, Same

LEMMA LeftThinned ==
    ASSUME Configured, SingletonTypeOK, UNCHANGED <<net, entries>>
    PROVE  NetThinned /\ LogThinned
<1>1. NetThinned
  BY Zenon DEF NetThinned, SingletonTypeOK, Same
<1>2. LogThinned
  <2> DEFINE f == [i \in 1..Len(entries) |-> i]
  <2>1. /\ entries' \in Seq(EntryType) /\ Len(entries) \in Nat /\ entries' = entries
        /\ f \in [1..Len(entries') -> 1..Len(entries)]
        /\ \A i \in 1..Len(entries') : f[i] = i
    BY DEF SingletonTypeOK
  <2> HIDE DEF f
  <2> QED
    BY <2>1, Zenon DEF LogThinned, Same
<1> QED
  BY <1>1, <1>2, Zenon

LEMMA StoppedThinned ==
    ASSUME Configured, SingletonTypeOK, NEW h \in Holders, StopWaiting(h)
    PROVE  NetThinned /\ LogThinned
<1>1. NetThinned
  BY OrphanedKeeps, Zenon DEF NetThinned, StopWaiting, SingletonTypeOK
<1>2. LogThinned
  <2> DEFINE f == [i \in 1..Len(entries) |-> i]
  <2>1. entries \in Seq(EntryType) /\ Len(entries) \in Nat /\ DOMAIN entries = 1..Len(entries)
    BY DEF SingletonTypeOK
  <2>2. \A i \in 1..Len(entries) : entries[i] \in EntryType
    BY <2>1
  <2>3. /\ entries' \in Seq(EntryType) /\ Len(entries') = Len(entries)
        /\ \A i \in 1..Len(entries) : entries'[i] = Orphaned(h, entries[i])
    BY <2>1, <2>2, OrphanedKeeps DEF StopWaiting
  <2>4. /\ f \in [1..Len(entries') -> 1..Len(entries)]
        /\ \A i \in 1..Len(entries') : f[i] = i
    BY <2>1, <2>3, Zenon
  <2> HIDE DEF f
  <2>5. \A i \in 1..Len(entries') : Same(entries'[i], entries[f[i]]) /\ entries'[i].issued = entries[f[i]].issued
    BY <2>2, <2>3, <2>4, OrphanedKeeps
  <2> QED
    BY <2>1, <2>3, <2>4, <2>5, Zenon DEF LogThinned
<1> QED
  BY <1>1, <1>2, Zenon

LEMMA AppliedThinned ==
    ASSUME Configured, SingletonTypeOK, entries # <<>>, entries' = Tail(entries), net' = net
    PROVE  NetThinned /\ LogThinned
<1>1. NetThinned
  BY Zenon DEF NetThinned, SingletonTypeOK, Same
<1>2. LogThinned
  <2>0. entries \in Seq(EntryType)
    BY Zenon DEF SingletonTypeOK
  <2>1. /\ entries' \in Seq(EntryType) /\ Len(entries') = Len(entries) - 1 /\ Len(entries) \in Nat
        /\ \A i \in 1..Len(entries') : entries'[i] = entries[i + 1]
    BY <2>0
  <2> DEFINE f == [i \in 1..Len(entries') |-> i + 1]
  <2>2. /\ f \in [1..Len(entries') -> 1..Len(entries)]
        /\ \A i \in 1..Len(entries') : f[i] = i + 1
    BY <2>1
  <2> HIDE DEF f
  <2>3. \A m, n \in 1..Len(entries') : m <= n => f[m] <= f[n]
    BY <2>1, <2>2
  <2>4. \A m \in 1..Len(entries') : Same(entries'[m], entries[f[m]]) /\ entries'[m].issued = entries[f[m]].issued
    BY <2>1, <2>2, Zenon DEF Same
  <2> QED
    BY <2>1, <2>2, <2>3, <2>4, Zenon DEF LogThinned
<1> QED
  BY <1>1, <1>2, Zenon

LEMMA CutThinned ==
    ASSUME Configured, SingletonTypeOK, NEW k \in 0..Len(entries), entries' = SubSeq(entries, 1, k), net' = net
    PROVE  NetThinned /\ LogThinned
<1>1. NetThinned
  BY Zenon DEF NetThinned, SingletonTypeOK, Same
<1>2. LogThinned
  <2>1. /\ entries' \in Seq(EntryType) /\ Len(entries') = k /\ Len(entries) \in Nat
        /\ \A i \in 1..Len(entries') : entries'[i] = entries[i]
    BY DEF SingletonTypeOK
  <2> DEFINE f == [i \in 1..Len(entries') |-> i]
  <2>2. /\ f \in [1..Len(entries') -> 1..Len(entries)]
        /\ \A i \in 1..Len(entries') : f[i] = i
    BY <2>1
  <2> HIDE DEF f
  <2>3. \A i, j \in 1..Len(entries') : i <= j => f[i] <= f[j]
    BY <2>2, Zenon
  <2>4. \A i \in 1..Len(entries') : Same(entries'[i], entries[f[i]]) /\ entries'[i].issued = entries[f[i]].issued
    BY <2>1, <2>2, Zenon DEF Same
  <2> QED
    BY <2>1, <2>2, <2>3, <2>4, Zenon DEF LogThinned
<1> QED
  BY <1>1, <1>2, Zenon

(* A thinned log keeps its stamps in order as time passes. *)
LEMMA ThinnedStamps ==
    ASSUME Configured, RunInv, LogThinned, now' \in Nat, now <= now'
    PROVE  Stamps'
<1> USE DEF Configured
<1>1. now \in Nat /\ entries \in Seq(EntryType) /\ Len(entries) \in Nat
  BY DEF RunInv, SingletonTypeOK
<1>2. entries' \in Seq(EntryType) /\ Len(entries') \in Nat
  BY DEF LogThinned
<1>3. PICK f \in [1..Len(entries') -> 1..Len(entries)] :
         /\ \A i, j \in 1..Len(entries') : i <= j => f[i] <= f[j]
         /\ \A i \in 1..Len(entries') : Same(entries'[i], entries[f[i]]) /\ entries'[i].issued = entries[f[i]].issued
  BY Zenon DEF LogThinned
<1>4. \A i \in 1..Len(entries) : entries[i].issued \in Int
  <2>1. \A i \in 1..Len(entries) : entries[i] \in EntryType
    BY <1>1
  <2> QED
    BY <2>1, Zenon DEF EntryType
<1> SUFFICES ASSUME NEW i \in 1..Len(entries')
             PROVE  /\ entries'[i].issued <= now' + Drift
                    /\ \A j \in i..Len(entries') : entries'[i].issued <= entries'[j].issued + Drift
  BY Zenon DEF Stamps
<1>5. entries'[i].issued <= now' + Drift
  <2>1. f[i] \in 1..Len(entries) /\ entries'[i].issued = entries[f[i]].issued
    BY <1>3, Zenon
  <2>2. entries[f[i]].issued <= now + Drift /\ entries[f[i]].issued \in Int
    BY <1>4, <2>1, Zenon DEF RunInv, Stamps
  <2> QED
    BY <1>1, <2>1, <2>2
<1>6. ASSUME NEW j \in i..Len(entries')
      PROVE  entries'[i].issued <= entries'[j].issued + Drift
  <2>1. j \in 1..Len(entries') /\ i <= j
    BY <1>2
  <2>2. f[i] \in 1..Len(entries) /\ f[j] \in f[i]..Len(entries)
    BY <1>1, <1>3, <2>1
  <2> QED
    BY <1>3, <2>1, <2>2, Zenon DEF RunInv, Stamps
<1> QED
  BY <1>5, <1>6, Zenon

(* Requests stay well named when a runner starts a run only under a grant  *)
(* newer than any request.                                                 *)
LEMMA ThinnedRequests ==
    ASSUME Configured, RunInv, NetThinned, LogThinned, NEW h \in Holders, NEW r \in RunnerType,
           run' = [run EXCEPT ![h] = r],
           grant'.generation \in Nat, grant.generation <= grant'.generation,
           r.pc = "running" =>
             \/ run[h].pc = "running" /\ r.generation = run[h].generation
             \/ grant.generation < r.generation
    PROVE  RunRequests'
<1>1. /\ entries \in Seq(EntryType) /\ net \subseteq RequestType /\ grant.generation \in Nat
      /\ run \in [Holders -> RunnerType]
  BY Zenon DEF RunInv, SingletonTypeOK
<1>2. ASSUME NEW c, NEW d, d.holder \in Holders, d.generation \in Nat, Same(c, d), Named(d)
      PROVE  Named(c)'
  <2>1. d.generation <= grant'.generation
    BY <1>1, <1>2 DEF Named
  <2>2. CASE d.holder = h
    BY <1>1, <1>2, <2>1, <2>2 DEF Named, Same, RunnerType
  <2>3. CASE d.holder # h
    BY <1>1, <1>2, <2>1, <2>3, Zenon DEF Named, Same
  <2> QED
    BY <2>2, <2>3, Zenon
<1>3. ASSUME NEW c \in net'
      PROVE  Named(c)'
  <2>1. PICK d \in net : Same(c, d)
    BY Zenon DEF NetThinned
  <2>2. d.holder \in Holders /\ d.generation \in Nat /\ Named(d)
    BY <1>1, Zenon DEF RequestType, RunInv, RunRequests
  <2> QED
    BY <1>2, <2>1, <2>2, Zenon
<1>4. ASSUME NEW i \in 1..Len(entries')
      PROVE  Named(entries[i])'
  <2>1. PICK k \in 1..Len(entries) : Same(entries'[i], entries[k])
    BY Zenon DEF LogThinned
  <2>2. entries[k] \in EntryType /\ Named(entries[k])
    BY <1>1 DEF RunInv, RunRequests
  <2>3. entries[k].holder \in Holders /\ entries[k].generation \in Nat
    BY <2>2, Zenon DEF EntryType
  <2> QED
    BY <1>2, <2>1, <2>2, <2>3, Zenon DEF Named
<1> QED
  BY <1>3, <1>4, Zenon DEF RunRequests

(* A run whose deadline did not move stays behind every entry. *)
LEMMA ThinnedAhead ==
    ASSUME Configured, LogThinned, NEW h \in Holders, Ahead(h), run'[h].until = run[h].until
    PROVE  Ahead(h)'
BY Zenon DEF LogThinned, Ahead

-----------------------------------------------------------------------------

LEMMA RunsInit ==
    ASSUME Configured PROVE SingletonInit => RunInv
<1> SUFFICES ASSUME SingletonInit PROVE RunInv
  OBVIOUS
<1> USE DEF Configured, SingletonInit
<1>1. SingletonTypeOK
  <2>1. Resting("idle") \in RunnerType
    BY DEF Resting, Runner, RunnerType
  <2> QED
    BY <2>1 DEF SingletonTypeOK, Grant
<1>2. RunRequests /\ Stamps
  BY DEF RunRequests, Stamps
<1>3. Standings
  BY DEF Standings, Active, Resting, Runner, Grant
<1> QED
  BY <1>1, <1>2, <1>3, Zenon DEF RunInv

(* A step of one runner that starts no run and keeps the grant it runs     *)
(* under, sending nothing.                                                 *)
LEMMA QuietStep ==
    ASSUME Configured, RunInv, NEW h \in Holders, NEW r \in RunnerType,
           run' = [run EXCEPT ![h] = r],
           NetThinned, LogThinned,
           UNCHANGED <<now, term, grant>>,
           r.generation <= grant.generation,
           r.pc = "running" => run[h].pc = "running",
           r.pc \in {"running", "releasing"} =>
             Active(h) /\ r.generation = run[h].generation /\ r.until = run[h].until
    PROVE  RunInv'
<1> USE DEF Configured
<1>1. SingletonTypeOK'
  BY Zenon DEF RunInv, SingletonTypeOK, NetThinned, LogThinned
<1>2. RunRequests'
  <2>1. grant'.generation \in Nat /\ grant.generation <= grant'.generation
    BY DEF RunInv, SingletonTypeOK
  <2>2. r.pc = "running" => run[h].pc = "running" /\ r.generation = run[h].generation
    OBVIOUS
  <2> QED
    BY <2>1, <2>2, ThinnedRequests, Zenon
<1>3. Stamps'
  BY ThinnedStamps DEF RunInv, SingletonTypeOK
<1>4. ASSUME NEW i \in Holders, Active(i)'
      PROVE  Standing(i)'
  <2>1. Active(i) /\ run'[i].generation = run[i].generation /\ run'[i].until = run[i].until
    BY <1>4, Zenon DEF RunInv, SingletonTypeOK, Active
  <2>2. Standing(i)
    BY <2>1, Zenon DEF RunInv, Standings
  <2>3. Ahead(i)'
    BY <2>1, <2>2, ThinnedAhead, Zenon DEF Standing
  <2>4. Deadline(i)'
    BY <2>1, <2>2, Zenon DEF Standing, Deadline
  <2> QED
    BY <2>3, <2>4, Zenon DEF Standing
<1>5. \A i \in Holders : (run[i].generation <= grant.generation)'
  BY Zenon DEF RunInv, SingletonTypeOK, Standings
<1> QED
  BY <1>1, <1>2, <1>3, <1>4, <1>5, Zenon DEF RunInv, Standings

(* The same step with a request sent, which names the runner's own grant; *)
(* a release is sent only as the run stops.                               *)
LEMMA SendingStep ==
    ASSUME Configured, RunInv, NEW h \in Holders, NEW r \in RunnerType,
           NEW op \in {"Acquire", "Renew", "Release"},
           Send(op, h),
           run' = [run EXCEPT ![h] = r],
           UNCHANGED <<now, term, grant>>,
           r.generation <= grant.generation,
           op = "Release" => r.pc # "running",
           r.pc = "running" => run[h].pc = "running",
           r.pc \in {"running", "releasing"} =>
             Active(h) /\ r.generation = run[h].generation /\ r.until = run[h].until
    PROVE  RunInv'
<1> USE DEF Configured
<1> PICK c : c = JobRequest(op, h)
  OBVIOUS
<1>1. net' = net \cup {c} /\ entries' = entries
  BY Zenon DEF Send
<1>2. c \in RequestType /\ c.op = op /\ c.holder = h /\ c.generation = run[h].generation
  BY Zenon DEF JobRequest, RequestType, RunInv, SingletonTypeOK, RunnerType
<1>3. SingletonTypeOK'
  BY <1>1, <1>2, Zenon DEF RunInv, SingletonTypeOK
<1>4. RunRequests'
  <2>1. ASSUME NEW d, d.holder \in Holders, d.generation \in Nat, Named(d)
        PROVE  Named(d)'
    BY <2>1, Zenon DEF Named, RunInv, SingletonTypeOK, RunnerType
  <2>2. \A d \in net : Named(d)'
    BY <2>1, Zenon DEF RunInv, SingletonTypeOK, RequestType, RunRequests
  <2>3. \A i \in 1..Len(entries) : entries[i] \in EntryType
    BY DEF RunInv, SingletonTypeOK
  <2>4. \A i \in 1..Len(entries) : Named(entries[i])'
    BY <1>1, <2>1, <2>3, Zenon DEF RunInv, EntryType, RunRequests, Named
  <2>5. Named(c)'
    BY <1>2, Zenon DEF Named, RunInv, Standings, SingletonTypeOK
  <2> QED
    BY <1>1, <2>2, <2>4, <2>5, Zenon DEF RunRequests
<1>5. Stamps'
  BY <1>1, Zenon DEF RunInv, Stamps
<1>6. ASSUME NEW i \in Holders, Active(i)'
      PROVE  Standing(i)'
  <2>1. Active(i) /\ run'[i].generation = run[i].generation /\ run'[i].until = run[i].until
    BY <1>6, Zenon DEF RunInv, SingletonTypeOK, Active
  <2> QED
    BY <1>1, <2>1, Zenon DEF RunInv, Standings, Standing, Deadline, Ahead
<1>7. \A i \in Holders : (run[i].generation <= grant.generation)'
  BY Zenon DEF RunInv, SingletonTypeOK, Standings
<1> QED
  BY <1>3, <1>4, <1>5, <1>6, <1>7, Zenon DEF RunInv, Standings

(* A runner between two runs has no grant and no outcome yet to defend. *)
LEMMA RestingRunner ==
    ASSUME Configured, NEW pc \in {"claiming", "counted", "idle", "dead"}
    PROVE  /\ Resting(pc) \in RunnerType
           /\ Resting(pc).pc = pc
           /\ Resting(pc).generation = 0
BY DEF Resting, Runner, RunnerType

(* A runner that ends its run, claims or dies without sending anything. *)
LEMMA RestingStep ==
    ASSUME Configured, RunInv, NEW h \in Holders, NEW pc \in {"claiming", "counted", "idle", "dead"},
           run' = [run EXCEPT ![h] = Resting(pc)],
           NetThinned, LogThinned,
           UNCHANGED <<now, term, grant>>
    PROVE  RunInv'
<1> DEFINE r == Resting(pc)
<1>1. r \in RunnerType /\ r.pc = pc /\ r.generation = 0
  BY RestingRunner, Zenon
<1>2. r.generation <= grant.generation
  BY <1>1 DEF RunInv, SingletonTypeOK
<1>3. r.pc # "running" /\ r.pc # "releasing"
  BY <1>1, Zenon
<1> HIDE DEF r
<1>4. run' = [run EXCEPT ![h] = r]
  BY Zenon DEF r
<1> QED
  BY <1>1, <1>2, <1>3, <1>4, QuietStep, Zenon

(* The runner's own steps keep the invariant. *)
LEMMA RunnerInvariant ==
    ASSUME Configured, RunInv, NEW h \in Holders,
           \/ ClaimJob(h) \/ ClaimUnanswered(h)
           \/ Renew(h) \/ RenewUnanswered(h)
           \/ Cancel(h)
           \/ \E ok \in BOOLEAN : EndBody(h, ok)
           \/ ReleaseUnanswered(h)
           \/ Crash(h)
    PROVE  RunInv'
<1> USE DEF RunInv
<1>1. /\ run[h] \in RunnerType
      /\ run[h].generation <= grant.generation
      /\ grant.generation \in Nat
  BY Zenon DEF SingletonTypeOK, Standings
<1>3. \A rn \in {"armed", "sent", "stopped", "lost"} :
         /\ Renewal(run[h], rn) \in RunnerType
         /\ Renewal(run[h], rn).pc = run[h].pc
         /\ Renewal(run[h], rn).generation = run[h].generation
         /\ Renewal(run[h], rn).until = run[h].until
  BY <1>1, Zenon DEF Renewal, Runner, RunnerType
<1>4. CASE ClaimJob(h)
  <2> DEFINE r == Resting("claiming")
  <2>1. r \in RunnerType /\ r.pc = "claiming" /\ r.generation = 0
    BY RestingRunner, Zenon
  <2>2. run' = [run EXCEPT ![h] = r] /\ Send("Acquire", h) /\ UNCHANGED <<now, term, grant>>
    BY <1>4, Zenon DEF ClaimJob
  <2>3. r.generation <= grant.generation
    BY <1>1, <2>1
  <2> HIDE DEF r
  <2> QED
    BY <2>1, <2>2, <2>3, SendingStep, Zenon
<1>5. CASE ClaimUnanswered(h)
  BY <1>5, StoppedThinned, RestingStep, Zenon DEF ClaimUnanswered
<1>6. CASE Renew(h)
  <2>1. run' = [run EXCEPT ![h] = Renewal(run[h], "sent")]
    BY <1>6, Zenon DEF Renew
  <2> QED
    BY <1>1, <1>3, <1>6, <2>1, SendingStep, Zenon DEF Renew, Active
<1>7. CASE RenewUnanswered(h)
  <2>1. PICK rn \in {"armed", "stopped"} : run' = [run EXCEPT ![h] = Renewal(run[h], rn)]
    BY <1>7, Zenon DEF RenewUnanswered
  <2> QED
    BY <1>1, <1>3, <1>7, <2>1, StoppedThinned, QuietStep, Zenon DEF RenewUnanswered, Active
<1>8. CASE Cancel(h)
  <2>1. run' = [run EXCEPT ![h] = Renewal(run[h], "stopped")]
    BY <1>8, Zenon DEF Cancel
  <2> QED
    BY <1>1, <1>3, <1>8, <2>1, LeftThinned, QuietStep, Zenon DEF Cancel, Active
<1>9. CASE \E ok \in BOOLEAN : EndBody(h, ok)
  <2> PICK ok \in BOOLEAN : EndBody(h, ok)
    BY <1>9, Zenon
  <2>1. CASE run[h].renewal = "lost"
    BY <2>1, LeftThinned, RestingStep, Zenon DEF EndBody
  <2>2. CASE run[h].renewal # "lost"
    <3> DEFINE r == Runner("releasing", run[h].term, run[h].generation, run[h].until, "stopped", ok)
    <3>1. /\ r \in RunnerType /\ r.pc = "releasing"
          /\ r.generation = run[h].generation /\ r.until = run[h].until
      BY <1>1, Zenon DEF Runner, RunnerType
    <3>2. run' = [run EXCEPT ![h] = r] /\ Send("Release", h) /\ UNCHANGED <<now, term, grant>>
      BY <2>2, Zenon DEF EndBody
    <3>3. Active(h)
      BY Zenon DEF EndBody, Active
    <3> HIDE DEF r
    <3> QED
      BY <1>1, <3>1, <3>2, <3>3, SendingStep, Zenon
  <2> QED
    BY <2>1, <2>2, Zenon
<1>10. CASE ReleaseUnanswered(h)
  <2>1. PICK pc \in {"counted", "idle"} : run' = [run EXCEPT ![h] = Resting(pc)]
    BY <1>10, Zenon DEF ReleaseUnanswered
  <2> QED
    BY <1>10, <2>1, StoppedThinned, RestingStep, Zenon DEF ReleaseUnanswered
<1>11. CASE Crash(h)
  BY <1>11, StoppedThinned, RestingStep, Zenon DEF Crash
<1> QED
  BY <1>4, <1>5, <1>6, <1>7, <1>8, <1>9, <1>10, <1>11, Zenon

(* A request reaches the leader: its stamp is a reading of now. *)
LEMMA ArriveInvariant ==
    ASSUME Configured, RunInv, NEW c \in net, Reach(c)
    PROVE  RunInv'
<1> USE DEF Configured
<1>1. PICK t \in Reading : entries' = Append(entries, Entry(c, t))
  BY Zenon DEF Reach, stamp_leader_time
<1> PICK e : e = Entry(c, t)
  OBVIOUS
<1>2. /\ now \in Nat /\ t \in Int /\ now <= t /\ t <= now + Drift
      /\ entries \in Seq(EntryType) /\ c \in RequestType /\ Len(entries) \in Nat
  BY DEF Reading, RunInv, SingletonTypeOK
<1>3. e \in EntryType /\ e.issued = t /\ Same(e, c)
  BY <1>2, Zenon DEF Entry, EntryType, RequestType, Same
<1>4. /\ entries' \in Seq(EntryType) /\ Len(entries') = Len(entries) + 1
      /\ \A i \in 1..Len(entries) : entries'[i] = entries[i]
      /\ entries'[Len(entries) + 1] = e
  BY <1>1, <1>2, <1>3
<1>5. net' = net \ {c} /\ UNCHANGED <<now, term, grant, run>>
  BY Zenon DEF Reach
<1>6. \A i \in 1..Len(entries') : i \in 1..Len(entries) \/ i = Len(entries) + 1
  BY <1>2, <1>4
<1>7. \A i \in 1..Len(entries) : entries[i].issued \in Int
  <2>1. \A i \in 1..Len(entries) : entries[i] \in EntryType
    BY <1>2
  <2> QED
    BY <2>1, Zenon DEF EntryType
<1>8. SingletonTypeOK'
  BY <1>4, <1>5, Zenon DEF RunInv, SingletonTypeOK
<1>9. RunRequests'
  BY <1>3, <1>4, <1>5, <1>6 DEF RunInv, RunRequests, Named, Same
<1>10. Stamps'
  <2> SUFFICES ASSUME NEW i \in 1..Len(entries'), NEW j \in i..Len(entries')
               PROVE  entries'[i].issued <= now + Drift /\ entries'[i].issued <= entries'[j].issued + Drift
    <3>1. \A i \in 1..Len(entries') : i \in i..Len(entries')
      BY <1>2, <1>4
    <3> QED
      BY <1>5, <3>1, Zenon DEF Stamps
  <2>1. CASE i = Len(entries) + 1
    <3>1. j = i
      BY <1>2, <1>4, <2>1
    <3> QED
      BY <1>2, <1>3, <1>4, <2>1, <3>1
  <2>2. CASE i \in 1..Len(entries) /\ j \in i..Len(entries)
    <3>1. j \in 1..Len(entries)
      BY <1>2, <2>2
    <3> QED
      BY <1>4, <2>2, <3>1, Zenon DEF RunInv, Stamps
  <2>3. CASE i \in 1..Len(entries) /\ j = Len(entries) + 1
    <3>1. entries[i].issued <= now + Drift /\ entries[i].issued \in Int
      BY <1>7, <2>3, Zenon DEF RunInv, Stamps
    <3> QED
      BY <1>2, <1>3, <1>4, <2>3, <3>1
  <2> QED
    BY <1>2, <1>4, <1>6, <2>1, <2>2, <2>3
<1>11. Standings'
  <2> SUFFICES ASSUME NEW h \in Holders, Active(h), NEW i \in 1..Len(entries')
               PROVE  run[h].until <= entries'[i].issued + Drift + LeaseSecs
    BY <1>5, Zenon DEF RunInv, Standings, Standing, Deadline, Ahead, Active
  <2>1. Standing(h) /\ run[h].until \in Int
    BY Zenon DEF RunInv, Standings, SingletonTypeOK, RunnerType
  <2>2. run[h].until <= t + Drift + LeaseSecs
    <3>1. run[h].until <= now + Drift + LeaseSecs
      BY <2>1, Zenon DEF Standing, Deadline
    <3> QED
      BY <1>2, <2>1, <3>1
  <2> QED
    BY <1>3, <1>4, <1>6, <2>1, <2>2, Zenon DEF Standing, Ahead
<1> QED
  BY <1>8, <1>9, <1>10, <1>11, Zenon DEF RunInv

-----------------------------------------------------------------------------
(* Applying an entry.                                                      *)

(* What the invariant says of the entry about to be applied. *)
LEMMA HeadFacts ==
    ASSUME Configured, RunInv, entries # <<>>, NEW c, c = Head(entries), entries' = Tail(entries)
    PROVE  /\ c \in EntryType
           /\ c.holder \in Holders
           /\ run[c.holder] \in RunnerType
           /\ now \in Nat /\ grant.generation \in Nat /\ grant.expires \in Int
           /\ c.generation \in Nat /\ Named(c)
           /\ c.issued \in Int /\ c.issued <= now + Drift
           /\ \A i \in 1..Len(entries') : c.issued <= entries'[i].issued + Drift
           /\ \A h \in Holders : Active(h) => run[h].until <= c.issued + Drift + LeaseSecs
<1>1. /\ entries \in Seq(EntryType) /\ Len(entries) \in Nat \ {0}
      /\ c = entries[1] /\ 1 \in 1..Len(entries)
  BY DEF RunInv, SingletonTypeOK
<1>2. c \in EntryType
  BY <1>1
<1>3. /\ Len(entries') = Len(entries) - 1
      /\ \A i \in 1..Len(entries') : entries'[i] = entries[i + 1] /\ i + 1 \in 1..Len(entries)
  BY <1>1
<1>4. \A i \in 1..Len(entries') : c.issued <= entries'[i].issued + Drift
  BY <1>1, <1>3, Zenon DEF RunInv, Stamps
<1>5. \A h \in Holders : Active(h) => run[h].until <= c.issued + Drift + LeaseSecs
  BY <1>1, Zenon DEF RunInv, Standings, Standing, Ahead
<1>6. Named(c) /\ c.issued <= now + Drift
  BY <1>1, Zenon DEF RunInv, RunRequests, Stamps
<1> QED
  BY <1>2, <1>4, <1>5, <1>6, Zenon DEF RunInv, SingletonTypeOK, EntryType

(* An undisturbed run keeps its standing through a new deadline of another *)
(* holder's grant, and through a new grant made once the old one lapsed.   *)
LEMMA OthersStand ==
    ASSUME Configured, RunInv, NEW t \in Int, UNCHANGED <<now, term>>, LogThinned,
           grant'.generation \in Nat, grant.generation <= grant'.generation,
           NEW i \in Holders, run'[i] = run[i],
           grant' # grant =>
             \/ grant'.generation = grant.generation /\ grant.holder # i
             \/ grant'.generation > grant.generation /\ acquirable(grant, t) /\ t <= now + Drift
    PROVE  (run[i].generation <= grant.generation /\ (Active(i) => Standing(i)))'
<1> USE DEF Configured
<1>1. run[i] \in RunnerType /\ now \in Nat /\ i # None
  BY Zenon DEF RunInv, SingletonTypeOK
<1>2. run[i].generation <= grant.generation /\ (Active(i) => Standing(i))
  BY Zenon DEF RunInv, Standings
<1>3. grant.generation \in Nat /\ grant.expires \in Int /\ run[i].generation \in Nat /\ run[i].until \in Int
  BY <1>1, Zenon DEF RunInv, SingletonTypeOK, RunnerType
<1>4. Active(i) => Ahead(i)'
  BY <1>2, ThinnedAhead, Zenon DEF Standing
<1> SUFFICES Active(i) => Deadline(i)'
  BY <1>2, <1>3, <1>4 DEF Active, Standing
<1>5. CASE grant' = grant
  BY <1>1, <1>2, <1>5, Zenon DEF Standing, Deadline
<1>6. CASE grant'.generation = grant.generation /\ grant.holder # i
  BY <1>1, <1>2, <1>3, <1>6, Zenon DEF Standing, Deadline
<1>7. CASE grant'.generation > grant.generation /\ acquirable(grant, t) /\ t <= now + Drift
  BY <1>1, <1>2, <1>3, <1>7 DEF Standing, Deadline, acquirable, Held, lapsed
<1> QED
  BY <1>5, <1>6, <1>7, Zenon

(* Applying a claim: refused claims change nothing that counts; a granted  *)
(* one supersedes only a grant that had lapsed.                            *)
LEMMA AcquireInvariant ==
    ASSUME Configured, RunInv, entries # <<>>, NEW c, c = Head(entries), ApplyAcquire(c)
    PROVE  RunInv'
<1> USE DEF Configured
<1> DEFINE h == c.holder
           next == acquire_singleton(grant, c)
           granted == bounded_singleton_lease(c.issued, next.expires) /\ acquirable(grant, c.issued)
           r == IF ~c.live \/ run[h].pc # "claiming" THEN run[h]
                ELSE IF granted THEN Runner("running", next.term, next.generation, next.expires, "armed", FALSE)
                ELSE Resting("idle")
<1>1. /\ entries' = Tail(entries) /\ net' = net /\ now' = now /\ term' = term
      /\ grant' = IF granted THEN next ELSE grant
      /\ run' = [run EXCEPT ![h] = r]
  BY Zenon DEF ApplyAcquire, Applies
<1>2. /\ h \in Holders /\ run[h] \in RunnerType /\ c.issued \in Int
      /\ now \in Nat /\ grant.generation \in Nat /\ c.issued <= now + Drift
      /\ term \in Nat \ {0} /\ run \in [Holders -> RunnerType]
  BY <1>1, HeadFacts, Zenon DEF RunInv, SingletonTypeOK
<1>20. NetThinned /\ LogThinned /\ Stamps'
  BY <1>1, <1>2, AppliedThinned, ThinnedStamps DEF RunInv
<1>21. \A k \in 1..Len(entries') : c.issued <= entries'[k].issued + Drift
  BY <1>1, HeadFacts, Zenon
<1>22. \A k \in 1..Len(entries') : entries'[k].issued \in Int
  <2>1. entries' \in Seq(EntryType)
    BY <1>20, Zenon DEF LogThinned
  <2>2. \A k \in 1..Len(entries') : entries'[k] \in EntryType
    BY <2>1
  <2> QED
    BY <2>2, Zenon DEF EntryType
<1>23. \A k \in 1..Len(entries') : c.issued + LeaseSecs <= entries'[k].issued + Drift + LeaseSecs
  BY <1>2, <1>21, <1>22, Delayed, Zenon
<1>24. /\ c.issued + LeaseSecs <= now + Drift + LeaseSecs
       /\ c.issued + LeaseSecs <= c.issued + LeaseSecs + Drift
  BY <1>2
<1>3. /\ next \in [generation : Nat, holder : Holders \cup {None}, term : Nat, expires : Int]
      /\ next.generation = grant.generation + 1
      /\ next.holder = h
      /\ next.term = term
      /\ next.expires = c.issued + LeaseSecs
  BY <1>2 DEF acquire_singleton, Grant
<1> HIDE DEF next
<1>4. r \in RunnerType
  <2>1. Resting("idle") \in RunnerType
    BY RestingRunner, Zenon
  <2> QED
    BY <1>2, <1>3, <2>1, Zenon DEF Runner, RunnerType
<1>5. r.pc \in {"running", "releasing"} =>
        \/ r = run[h]
        \/ granted /\ r.pc = "running" /\ r.generation = next.generation /\ r.until = next.expires
  <2>1. Resting("idle").pc = "idle"
    BY RestingRunner, Zenon
  <2> QED
    BY <2>1, Zenon DEF Runner
<1>6. r.generation <= grant'.generation
  <2>1. Resting("idle").generation = 0
    BY RestingRunner, Zenon
  <2>2. run[h].generation \in Nat /\ run[h].generation <= grant.generation
    BY <1>2, Zenon DEF RunInv, Standings, RunnerType
  <2> QED
    BY <1>1, <1>2, <1>3, <2>1, <2>2 DEF Runner
<1>7. grant'.generation \in Nat /\ grant.generation <= grant'.generation
  BY <1>1, <1>2, <1>3
<1> HIDE DEF r, granted
<1>8. SingletonTypeOK'
  <2>1. /\ now' \in Nat /\ term' \in Nat \ {0} /\ net' \subseteq RequestType
        /\ entries' \in Seq(EntryType)
    BY <1>1, <1>2, <1>20, Zenon DEF NetThinned, LogThinned
  <2>2. run' \in [Holders -> RunnerType]
    BY <1>1, <1>2, <1>4, Zenon
  <2>3. next.term # 0 /\ next.generation # 0
    BY <1>2, <1>3, SMTT(30)
  <2>4. /\ grant' \in [generation : Nat, holder : Holders \cup {None}, term : Nat, expires : Int]
        /\ grant'.holder # None => grant'.term # 0 /\ grant'.generation # 0
    BY <1>1, <1>3, <2>3, Zenon DEF RunInv, SingletonTypeOK
  <2> QED
    BY <2>1, <2>2, <2>4, Zenon DEF SingletonTypeOK
<1>9. RunRequests'
  <2>1. r.pc = "running" =>
             \/ run[h].pc = "running" /\ r.generation = run[h].generation
             \/ grant.generation < r.generation
    BY <1>2, <1>3, <1>5
  <2> QED
    BY <1>1, <1>2, <1>4, <1>7, <2>1, <1>20, ThinnedRequests, Zenon
<1>10. ASSUME NEW i \in Holders
       PROVE  (run[i].generation <= grant.generation /\ (Active(i) => Standing(i)))'
  <2>1. grant' # grant => grant'.generation > grant.generation /\ acquirable(grant, c.issued)
    BY <1>1, <1>2, <1>3 DEF granted
  <2>2. CASE run'[i] = run[i]
    BY <1>1, <1>2, <1>7, <2>1, <2>2, <1>20, OthersStand, Zenon
  <2>3. CASE run'[i] # run[i]
    <3>1. i = h /\ run'[h] = r /\ r # run[h]
      BY <1>1, <1>2, <2>3, Zenon
    <3>2. ~Active(h)' \/ (granted /\ r.generation = next.generation /\ r.until = next.expires)
      BY <1>5, <3>1, Zenon DEF Active
    <3>3. Active(h)' => Ahead(h)'
      <4>1. Active(h)' => run'[h].until = c.issued + LeaseSecs
        BY <1>3, <3>1, <3>2, Zenon
      <4> QED
        BY <1>23, <4>1, Zenon DEF Ahead
    <3>4. Active(h)' => Deadline(h)'
      BY <1>1, <1>3, <1>24, <3>1, <3>2, Zenon DEF Deadline
    <3> QED
      BY <1>6, <3>1, <3>3, <3>4, Zenon DEF Standing
  <2> QED
    BY <2>2, <2>3, Zenon
<1> QED
  BY <1>8, <1>9, <1>10, <1>20, Zenon DEF RunInv, Standings

(* Applying a renewal: the deadline moves to a stamp no more than Drift    *)
(* behind the one its holder was told.                                     *)
LEMMA RenewInvariant ==
    ASSUME Configured, RunInv, entries # <<>>, NEW c, c = Head(entries), ApplyRenew(c)
    PROVE  RunInv'
<1> USE DEF Configured
<1> DEFINE h == c.holder
           expires == c.issued + LeaseSecs
           owned == owned_singleton(grant, h, c.term, c.generation, c.issued)
           next == Grant(grant.generation, h, c.term, expires)
           r == IF ~Awaited(c, h) THEN run[h]
                ELSE IF owned THEN Runner("running", run[h].term, run[h].generation, expires, "armed", FALSE)
                ELSE Renewal(run[h], "lost")
<1>1. /\ entries' = Tail(entries) /\ net' = net /\ now' = now /\ term' = term
      /\ grant' = IF owned THEN next ELSE grant
      /\ run' = [run EXCEPT ![h] = r]
  BY Zenon DEF ApplyRenew, Applies
<1>2. /\ h \in Holders /\ run[h] \in RunnerType /\ c.issued \in Int
      /\ now \in Nat /\ grant.generation \in Nat /\ c.issued <= now + Drift
      /\ term \in Nat \ {0} /\ run \in [Holders -> RunnerType] /\ c.term \in Nat
  <2>1. c \in EntryType
    BY <1>1, HeadFacts, Zenon
  <2> QED
    BY <1>1, <2>1, HeadFacts, Zenon DEF RunInv, SingletonTypeOK, EntryType
<1>20. NetThinned /\ LogThinned /\ Stamps'
  BY <1>1, <1>2, AppliedThinned, ThinnedStamps DEF RunInv
<1>21. \A k \in 1..Len(entries') : c.issued <= entries'[k].issued + Drift
  BY <1>1, HeadFacts, Zenon
<1>22. \A k \in 1..Len(entries') : entries'[k].issued \in Int
  <2>1. entries' \in Seq(EntryType)
    BY <1>20, Zenon DEF LogThinned
  <2>2. \A k \in 1..Len(entries') : entries'[k] \in EntryType
    BY <2>1
  <2> QED
    BY <2>2, Zenon DEF EntryType
<1>23. \A k \in 1..Len(entries') : c.issued + LeaseSecs <= entries'[k].issued + Drift + LeaseSecs
  BY <1>2, <1>21, <1>22, Delayed, Zenon
<1>3. /\ run[h].generation \in Nat /\ run[h].until \in Int /\ run[h].generation <= grant.generation
      /\ Active(h) => Standing(h)
  BY <1>2, Zenon DEF RunInv, Standings, RunnerType
<1>4. /\ next \in [generation : Nat, holder : Holders \cup {None}, term : Nat, expires : Int]
      /\ next.generation = grant.generation
      /\ next.holder = h
      /\ next.term = c.term
      /\ next.expires = expires
  BY <1>2 DEF Grant
<1>5. owned => /\ grant.holder = h /\ grant.term = c.term /\ grant.generation = c.generation
               /\ h # None
  BY <1>2, Zenon DEF owned_singleton
<1>6. r \in RunnerType
  <2>1. Renewal(run[h], "lost") \in RunnerType
    BY <1>2, Zenon DEF Renewal, Runner, RunnerType
  <2>2. expires \in Int /\ run[h].term \in Nat
    BY <1>2 DEF RunnerType
  <2>3. Runner("running", run[h].term, run[h].generation, expires, "armed", FALSE) \in RunnerType
    BY <1>3, <2>2, Zenon DEF Runner, RunnerType
  <2> QED
    BY <1>2, <2>1, <2>3, Zenon
<1>7. /\ r.pc = run[h].pc /\ r.generation = run[h].generation
      /\ r.until = run[h].until \/ (owned /\ r.until = expires /\ run[h].generation = c.generation)
  BY <1>2, Zenon DEF Runner, Renewal, Awaited
<1> HIDE DEF next, r, owned
<1>8. /\ grant'.generation = grant.generation
      /\ grant'.generation \in Nat /\ grant.generation <= grant'.generation
  BY <1>1, <1>2, <1>4
<1>9. SingletonTypeOK'
  BY <1>1, <1>20, <1>2, <1>4, <1>5, <1>6, Zenon DEF RunInv, SingletonTypeOK, NetThinned, LogThinned
<1>10. RunRequests'
  BY <1>1, <1>2, <1>6, <1>7, <1>8, <1>20, ThinnedRequests, Zenon
<1>11. ASSUME NEW i \in Holders
       PROVE  (run[i].generation <= grant.generation /\ (Active(i) => Standing(i)))'
  <2>1. CASE i # h
    <3>1. run'[i] = run[i]
      BY <1>1, <1>2, <2>1, Zenon
    <3>2. grant' # grant => grant.holder # i
      BY <1>1, <1>5, <2>1, Zenon
    <3> QED
      BY <1>1, <1>2, <1>8, <3>1, <3>2, <1>20, OthersStand, Zenon
  <2>2. CASE i = h
    <3>1. run'[h] = r
      BY <1>1, <1>2, Zenon
    <3> SUFFICES ASSUME Active(h)' PROVE Standing(h)'
      BY <1>2, <1>3, <1>7, <1>8, <2>2, <3>1, Zenon
    <3>4. Active(h) /\ Standing(h)
      BY <1>3, <1>7, <3>1, Zenon DEF Active
    <3>5. Ahead(h)'
      <4>1. CASE run'[h].until = run[h].until
        BY <1>2, <1>20, <3>4, <4>1, ThinnedAhead, Zenon DEF Standing
      <4>2. CASE run'[h].until = expires
        BY <1>23, <4>2, Zenon DEF Ahead
      <4> QED
        BY <1>7, <3>1, <4>1, <4>2, Zenon
    <3>6. run[h].until <= c.issued + Drift + LeaseSecs
      BY <1>1, <1>2, <3>4, HeadFacts, Zenon
    <3>2. CASE owned
      <4>2. run'[h].generation = run[h].generation /\ grant'.expires = expires /\ grant'.holder = h
        BY <1>1, <1>4, <1>7, <3>1, <3>2, Zenon
      <4>3. run'[h].until <= expires + Drift /\ run'[h].until <= now + Drift + LeaseSecs
        <5>1. run[h].until <= now + Drift + LeaseSecs
          BY <3>4, Zenon DEF Standing, Deadline
        <5> QED
          BY <1>2, <1>3, <1>7, <3>1, <3>6, <5>1, SMTT(30)
      <4>4. run'[h].generation # grant'.generation => run'[h].until + Skew <= now + Drift + Drift
        <5>1. run'[h].generation # grant'.generation => run'[h].until = run[h].until
          BY <1>5, <1>7, <1>8, <3>1, <3>2, Zenon
        <5> QED
          BY <1>8, <3>4, <4>2, <5>1, Zenon DEF Standing, Deadline
      <4>1. Deadline(h)'
        BY <1>1, <1>8, <4>2, <4>3, <4>4, Zenon DEF Deadline
      <4> QED
        BY <3>5, <4>1, Zenon DEF Standing
    <3>3. CASE ~owned
      <4>1. Deadline(h)'
        BY <1>1, <1>2, <1>3, <1>7, <3>1, <3>3, <3>4, Zenon DEF Standing, Deadline
      <4> QED
        BY <3>5, <4>1, Zenon DEF Standing
    <3> QED
      BY <3>2, <3>3, Zenon
  <2> QED
    BY <2>1, <2>2, Zenon
<1> QED
  BY <1>9, <1>10, <1>11, <1>20, Zenon DEF RunInv, Standings

(* Applying a release: it frees only the grant of a run that has ended. *)
LEMMA ReleaseInvariant ==
    ASSUME Configured, RunInv, entries # <<>>, NEW c, c = Head(entries), ApplyRelease(c)
    PROVE  RunInv'
<1> USE DEF Configured
<1> DEFINE h == c.holder
           owned == owned_singleton(grant, h, c.term, c.generation, c.issued)
           pc == IF owned /\ run[h].ok THEN "counted" ELSE "idle"
           r == IF run[h].pc # "releasing" \/ run[h].generation # c.generation THEN run[h]
                ELSE Resting(pc)
<1>1. /\ entries' = Tail(entries) /\ net' = net /\ now' = now /\ term' = term
      /\ grant' = IF owned THEN Freed(grant) ELSE grant
      /\ run' = [run EXCEPT ![h] = r]
  BY Zenon DEF ApplyRelease, Applies
<1>2. /\ h \in Holders /\ run[h] \in RunnerType /\ c.issued \in Int
      /\ now \in Nat /\ grant.generation \in Nat /\ c.generation \in Nat
      /\ term \in Nat \ {0} /\ run \in [Holders -> RunnerType]
      /\ run[h].generation \in Nat /\ run[h].generation <= grant.generation
  BY <1>1, HeadFacts, Zenon DEF RunInv, SingletonTypeOK, Standings, RunnerType
<1>21. entries # <<>> /\ SingletonTypeOK
  BY Zenon DEF ApplyRelease, Applies, RunInv
<1>22. NetThinned /\ LogThinned
  BY <1>1, <1>21, AppliedThinned, Zenon
<1>23. now' \in Nat /\ now <= now'
  BY <1>1, <1>2, SMTT(30)
<1>20. NetThinned /\ LogThinned /\ Stamps'
  BY <1>22, <1>23, ThinnedStamps, Zenon
<1>3. /\ Freed(grant) \in [generation : Nat, holder : Holders \cup {None}, term : Nat, expires : Int]
      /\ Freed(grant).generation = grant.generation
      /\ Freed(grant).holder = None
  BY <1>2 DEF Freed, Grant
<1>4. owned => grant.holder = h /\ grant.generation = c.generation
  BY Zenon DEF owned_singleton
<1>5. /\ Resting(pc) \in RunnerType /\ Resting(pc).pc \in {"counted", "idle"}
      /\ Resting(pc).generation = 0
  BY RestingRunner, Zenon
<1> HIDE DEF pc, owned
<1>6. r \in RunnerType
  BY <1>2, <1>5, Zenon
<1>7. r = run[h] \/ (r.generation = 0 /\ r.pc \in {"counted", "idle"})
  BY <1>5, Zenon
<1>8. r = run[h] => run[h].pc # "releasing" \/ run[h].generation # c.generation
  BY <1>5, Zenon
<1> HIDE DEF r
<1>9. /\ grant'.generation = grant.generation
      /\ grant'.generation \in Nat /\ grant.generation <= grant'.generation
  BY <1>1, <1>2, <1>3, SMTT(30)
<1>10. SingletonTypeOK'
  BY <1>1, <1>20, <1>2, <1>3, <1>6, ZenonT(60), Zenon DEF RunInv, SingletonTypeOK, NetThinned, LogThinned
<1>11. RunRequests'
  BY <1>1, <1>2, <1>6, <1>7, <1>9, <1>20, ThinnedRequests, Zenon
<1>12. ASSUME NEW i \in Holders
       PROVE  (run[i].generation <= grant.generation /\ (Active(i) => Standing(i)))'
  <2>1. CASE run'[i] = run[i] /\ (grant' # grant => grant.holder # i)
    BY <1>1, <1>2, <1>9, <2>1, <1>20, OthersStand, Zenon
  <2>2. CASE run'[i] # run[i]
    <3>1. i = h /\ run'[i] = r /\ r # run[h]
      BY <1>1, <1>2, <2>2, Zenon
    <3> QED
      BY <1>2, <1>7, <1>9, <3>1 DEF Active
  <2>3. CASE run'[i] = run[i] /\ grant' # grant /\ grant.holder = i
    <3>1. i = h /\ owned /\ r = run[h] /\ grant.generation = c.generation
      BY <1>1, <1>2, <1>4, <2>3, Zenon
    <3>2. c.op = "Release"
      BY Zenon DEF ApplyRelease, Applies
    <3>3. ~(Active(h) /\ run[h].generation = grant.generation)
      <4>1. Named(c)
        BY <1>1, HeadFacts, Zenon
      <4> QED
        BY <1>2, <1>8, <3>1, <3>2, <4>1, SMTT(30) DEF Named, Active
    <3>4. Active(h) => Standing(h)
      BY <1>2, Zenon DEF RunInv, Standings
    <3>5. Active(h) => Ahead(h)'
      BY <1>2, <1>20, <2>3, <3>1, <3>4, ThinnedAhead, Zenon DEF Standing
    <3>6. Active(h) => Deadline(h)'
      BY <1>1, <1>2, <1>9, <2>3, <3>1, <3>3, <3>4, Zenon DEF Standing, Deadline
    <3> QED
      BY <1>2, <1>9, <2>3, <3>1, <3>5, <3>6, Zenon DEF Active, Standing
  <2> QED
    BY <2>1, <2>2, <2>3, Zenon
<1> QED
  BY <1>10, <1>11, <1>12, <1>20, Zenon DEF RunInv, Standings

(* Every step keeps the invariant. *)
LEMMA RunsNext ==
    ASSUME Configured PROVE RunInv /\ [SingletonNext]_singletonVars => RunInv'
<1> SUFFICES ASSUME RunInv, [SingletonNext]_singletonVars PROVE RunInv'
  BY Zenon
<1> USE DEF Configured
<1>1. CASE UNCHANGED singletonVars
  BY <1>1, Zenon DEF singletonVars, RunInv, SingletonTypeOK, RunRequests, Named, Stamps, Standings, Standing, Deadline, Ahead, Active
<1>2. ASSUME NetThinned, LogThinned, UNCHANGED <<grant, run>>, term' \in Nat \ {0},
             now' \in Nat, now <= now'
      PROVE  RunInv'
  <2>1. SingletonTypeOK'
    BY <1>2, Zenon DEF RunInv, SingletonTypeOK, NetThinned, LogThinned
  <2>2. RunRequests'
    <3>1. CASE Holders = {}
      <4>1. net' \subseteq RequestType /\ entries' \in Seq(EntryType)
        BY <1>2, Zenon DEF NetThinned, LogThinned
      <4>2. \A i \in 1..Len(entries') : entries'[i] \in EntryType
        BY <4>1
      <4>3. \A c : c \notin RequestType
        BY <3>1, Zenon DEF RequestType
      <4>4. \A c : c \notin EntryType
        BY <3>1, Zenon DEF EntryType
      <4> QED
        BY <4>1, <4>2, <4>3, <4>4, Zenon DEF RunRequests
    <3>2. ASSUME NEW h \in Holders PROVE RunRequests'
      <4>1. run[h] \in RunnerType /\ run' = [run EXCEPT ![h] = run[h]]
        BY <1>2, Zenon DEF RunInv, SingletonTypeOK
      <4>2. grant'.generation \in Nat /\ grant.generation <= grant'.generation
        BY <1>2 DEF RunInv, SingletonTypeOK
      <4> QED
        BY <1>2, <4>1, <4>2, ThinnedRequests, Zenon
    <3> QED
      BY <3>1, <3>2, Zenon
  <2>3. Stamps'
    BY <1>2, ThinnedStamps, Zenon
  <2>4. ASSUME NEW h \in Holders, Active(h) PROVE Standing(h)'
    <3>1. Standing(h) /\ run[h].until \in Int /\ now \in Nat
      BY <2>4, Zenon DEF RunInv, Standings, SingletonTypeOK, RunnerType
    <3>2. Ahead(h)'
      BY <1>2, <3>1, ThinnedAhead, Zenon DEF Standing
    <3>3. Deadline(h)'
      BY <1>2, <3>1 DEF Standing, Deadline
    <3> QED
      BY <3>2, <3>3, Zenon DEF Standing
  <2> QED
    BY <1>2, <2>1, <2>2, <2>3, <2>4, Zenon DEF RunInv, Standings, Active
<1>3. CASE NewLeader
  <2>1. term' \in Nat \ {0} /\ now' = now /\ now \in Nat
    BY <1>3 DEF NewLeader, RunInv, SingletonTypeOK
  <2>2. NetThinned /\ LogThinned
    BY <1>3, CutThinned, Zenon DEF NewLeader, RunInv
  <2> QED
    BY <1>2, <1>3, <2>1, <2>2 DEF NewLeader
<1>4. CASE SingletonTick
  <2>1. term' \in Nat \ {0} /\ now' \in Nat /\ now <= now'
    BY <1>4 DEF SingletonTick, RunInv, SingletonTypeOK
  <2>2. NetThinned /\ LogThinned
    BY <1>4, LeftThinned, Zenon DEF SingletonTick, RunInv
  <2> QED
    BY <1>2, <1>4, <2>1, <2>2, Zenon DEF SingletonTick
<1>5. ASSUME NEW c \in net, Lose(c) PROVE RunInv'
  <2>1. term' \in Nat \ {0} /\ now' = now /\ now \in Nat
    BY <1>5, Zenon DEF Lose, RunInv, SingletonTypeOK
  <2>2. NetThinned
    BY <1>5, Zenon DEF Lose, RunInv, SingletonTypeOK, NetThinned, Same
  <2>3. LogThinned
    <3>1. entries \in Seq(EntryType) /\ entries' = entries /\ Len(entries) \in Nat
      BY <1>5 DEF Lose, RunInv, SingletonTypeOK
    <3> DEFINE f == [i \in 1..Len(entries) |-> i]
    <3>2. f \in [1..Len(entries') -> 1..Len(entries)] /\ \A i \in 1..Len(entries') : f[i] = i
      BY <3>1, Zenon
    <3> HIDE DEF f
    <3> QED
      BY <3>1, <3>2, Zenon DEF LogThinned, Same
  <2> QED
    BY <1>2, <1>5, <2>1, <2>2, <2>3 DEF Lose
<1>6. ASSUME NEW c \in net, Reach(c) PROVE RunInv'
  BY <1>6, ArriveInvariant, Zenon
<1>7. CASE entries # <<>> /\ ApplyAcquire(Head(entries))
  BY <1>7, AcquireInvariant, Zenon
<1>8. CASE entries # <<>> /\ ApplyRenew(Head(entries))
  BY <1>8, RenewInvariant, Zenon
<1>9. CASE entries # <<>> /\ ApplyRelease(Head(entries))
  BY <1>9, ReleaseInvariant, Zenon
<1> QED
  BY <1>1, <1>3, <1>4, <1>5, <1>6, <1>7, <1>8, <1>9, RunnerInvariant, Zenon DEF SingletonNext

(* Type correctness of the singleton grant and its runners. *)
THEOREM RunsTyped == SingletonSpec => []SingletonTypeOK
<1>1. RunInv => SingletonTypeOK
  BY Zenon DEF RunInv
<1>8. SingletonInit => RunInv
  BY RunsInit, SingletonAssumption, Zenon
<1>9. RunInv /\ [SingletonNext]_singletonVars => RunInv'
  BY RunsNext, SingletonAssumption, Zenon
<1> QED
  BY <1>1, <1>8, <1>9, PTL DEF SingletonSpec

(* With clocks within the skew, the two margins leave no room for a holder *)
(* that still trusts its grant after it was superseded.                    *)
LEMMA InvariantExcludesOverlap ==
    ASSUME Configured PROVE SkewCoversDrift /\ RunInv => NoOverlap
<1> SUFFICES ASSUME SkewCoversDrift, RunInv, NEW h \in Holders, BelievesHeld(h)
             PROVE  run[h].generation = grant.generation
  BY Zenon DEF NoOverlap
<1>1. Active(h) /\ Standing(h) /\ now \in Nat /\ run[h].until \in Int
  BY Zenon DEF BelievesHeld, RunInv, Standings, SingletonTypeOK, RunnerType
<1>2. now + Skew < run[h].until
  BY <1>1 DEF Configured, BelievesHeld, singleton_grant_admits, Reading
<1> QED
  BY <1>1, <1>2 DEF Configured, Standing, Deadline, SkewCoversDrift

(* A holder that may still believe in its grant is the job's only holder   *)
(* (SingletonHold::lapsed against singleton_grant_admits), however late a  *)
(* request arrives, provided no two clocks are further apart than the skew.*)
THEOREM HoldersNeverOverlap == SkewCoversDrift => (SingletonSpec => []NoOverlap)
<1> SUFFICES ASSUME SkewCoversDrift PROVE SingletonSpec => []NoOverlap
  OBVIOUS
<1>1. RunInv => NoOverlap
  BY InvariantExcludesOverlap, SingletonAssumption, Zenon
<1>8. SingletonInit => RunInv
  BY RunsInit, SingletonAssumption, Zenon
<1>9. RunInv /\ [SingletonNext]_singletonVars => RunInv'
  BY RunsNext, SingletonAssumption, Zenon
<1> QED
  BY <1>1, <1>8, <1>9, PTL DEF SingletonSpec

(* A run leaves "releasing" for "counted" in two ways: the release was     *)
(* committed under its own generation, or went unanswered while the run    *)
(* could still believe in its grant.                                       *)
LEMMA CountingStep ==
    ASSUME Configured, SkewCoversDrift, RunInv, [SingletonNext]_singletonVars, NEW h \in Holders,
           run[h].pc = "releasing", run'[h].pc = "counted"
    PROVE  grant.generation = run[h].generation
<1> USE DEF Configured
<1>1. run \in [Holders -> RunnerType] /\ run' # run
  BY Zenon DEF RunInv, SingletonTypeOK
<1>2. CASE UNCHANGED singletonVars
  BY <1>1, <1>2, Zenon DEF singletonVars
<1>3. CASE NewLeader \/ SingletonTick \/ \E c \in net : Reach(c) \/ Lose(c)
  BY <1>1, <1>3, Zenon DEF NewLeader, SingletonTick, Reach, Lose
<1>4. ASSUME entries # <<>>, NEW c, c = Head(entries), ApplyAcquire(c) \/ ApplyRenew(c)
      PROVE  FALSE
  <2>1. c.holder \in Holders
    BY <1>4, HeadFacts, Zenon DEF ApplyAcquire, ApplyRenew, Applies
  <2>2. run'[h] = run[h] \/ (run'[h].pc # "counted")
    <3>1. Resting("idle").pc = "idle"
      BY RestingRunner, Zenon
    <3> QED
      BY <1>1, <1>4, <2>1, <3>1, Zenon DEF ApplyAcquire, ApplyRenew, Awaited, Runner, Renewal
  <2> QED
    BY <2>2, Zenon
<1>5. ASSUME entries # <<>>, NEW c, c = Head(entries), ApplyRelease(c)
      PROVE  grant.generation = run[h].generation
  <2>1. c.holder = h
    BY <1>1, <1>5, HeadFacts, ZenonT(60), Zenon DEF ApplyRelease, Applies
  <2>2. owned_singleton(grant, h, c.term, c.generation, c.issued) \/ run'[h] = Resting("idle") \/ run'[h] = run[h]
    BY <1>1, <1>5, <2>1, Zenon DEF ApplyRelease
  <2>3. Resting("idle").pc = "idle"
    BY RestingRunner, Zenon
  <2>4. owned_singleton(grant, h, c.term, c.generation, c.issued)
    BY <2>2, <2>3, Zenon
  <2>5. run[h].generation = c.generation
    BY <1>1, <1>5, <2>1, Zenon DEF ApplyRelease
  <2> QED
    BY <2>4, <2>5, Zenon DEF owned_singleton
<1>6. ASSUME ReleaseUnanswered(h)
      PROVE  grant.generation = run[h].generation
  <2>1. PICK t \in Reading : run'[h] = Resting(IF run[h].ok /\ singleton_grant_admits(run[h].until, t)
                                                THEN "counted" ELSE "idle")
    BY <1>1, <1>6, Zenon DEF ReleaseUnanswered
  <2>2. Resting("idle").pc = "idle"
    BY RestingRunner, Zenon
  <2>3. singleton_grant_admits(run[h].until, t)
    BY <2>1, <2>2, Zenon
  <2>4. BelievesHeld(h)
    BY <2>3, Zenon DEF BelievesHeld, Active
  <2> QED
    BY <2>4, InvariantExcludesOverlap, Zenon DEF NoOverlap
<1>7. ASSUME NEW i \in Holders, i # h,
             \/ ClaimJob(i) \/ ClaimUnanswered(i) \/ Renew(i) \/ RenewUnanswered(i) \/ Cancel(i)
             \/ (\E ok \in BOOLEAN : EndBody(i, ok)) \/ ReleaseUnanswered(i) \/ Crash(i)
      PROVE  FALSE
  <2>1. run'[h] = run[h]
    BY <1>1, <1>7, Zenon DEF ClaimJob, ClaimUnanswered, Renew, RenewUnanswered, Cancel, EndBody, ReleaseUnanswered, Crash
  <2> QED
    BY <2>1, Zenon
<1>8. ASSUME \/ ClaimJob(h) \/ ClaimUnanswered(h) \/ Renew(h) \/ RenewUnanswered(h) \/ Cancel(h)
             \/ (\E ok \in BOOLEAN : EndBody(h, ok)) \/ Crash(h)
      PROVE  FALSE
  <2>1. Resting("dead").pc = "dead"
    BY RestingRunner, Zenon
  <2>2. CASE Crash(h)
    BY <1>1, <2>1, <2>2, Zenon DEF Crash
  <2>3. CASE \/ ClaimJob(h) \/ ClaimUnanswered(h) \/ Renew(h) \/ RenewUnanswered(h) \/ Cancel(h)
             \/ \E ok \in BOOLEAN : EndBody(h, ok)
    <3>1. run[h].pc \in {"idle", "counted", "idle", "claiming", "running"}
      BY <2>3, Zenon DEF ClaimJob, ClaimUnanswered, Renew, RenewUnanswered, Cancel, EndBody
    <3> QED
      BY <3>1, Zenon
  <2> QED
    BY <1>8, <2>2, <2>3, ZenonT(60), Zenon
<1> QED
  BY <1>2, <1>3, <1>4, <1>5, <1>6, <1>7, <1>8, Zenon DEF SingletonNext

(* A run is counted only if the job was granted to nobody else since its   *)
(* own grant (scheduler.rs, finish_fence), with clocks within the skew.    *)
THEOREM CountedRunsAreOwned == SkewCoversDrift => (SingletonSpec => CountedRunsOwned)
<1> SUFFICES ASSUME SkewCoversDrift PROVE SingletonSpec => CountedRunsOwned
  OBVIOUS
<1>1. RunInv /\ [SingletonNext]_singletonVars =>
        [\A h \in Holders :
           run[h].pc = "releasing" /\ run'[h].pc = "counted" => grant.generation = run[h].generation]_singletonVars
  BY CountingStep, SingletonAssumption, Zenon
<1>8. SingletonInit => RunInv
  BY RunsInit, SingletonAssumption, Zenon
<1>9. RunInv /\ [SingletonNext]_singletonVars => RunInv'
  BY RunsNext, SingletonAssumption, Zenon
<1> QED
  BY <1>1, <1>8, <1>9, PTL DEF SingletonSpec, CountedRunsOwned

(* A grant never returns to an earlier generation, and a generation never  *)
(* changes hands, whatever the delays.                                     *)
THEOREM GenerationsAreOwned == SingletonSpec => GenerationsOwned
<1>1. RunInv /\ [SingletonNext]_singletonVars =>
        [/\ grant'.generation >= grant.generation
         /\ grant'.generation = grant.generation => grant'.holder \in {grant.holder, None}]_singletonVars
  <2> SUFFICES ASSUME RunInv, [SingletonNext]_singletonVars
               PROVE  /\ grant'.generation >= grant.generation
                      /\ grant'.generation = grant.generation => grant'.holder \in {grant.holder, None}
    OBVIOUS
  <2>1. grant.generation \in Nat
    BY Zenon DEF RunInv, SingletonTypeOK
  <2>2. CASE grant' = grant
    BY <2>1, <2>2
  <2>3. ASSUME NEW c, ApplyAcquire(c), grant' # grant
        PROVE  grant'.generation = grant.generation + 1
    BY <2>3, Zenon DEF ApplyAcquire, acquire_singleton, Grant
  <2>4. ASSUME NEW c, ApplyRenew(c) \/ ApplyRelease(c), grant' # grant
        PROVE  grant'.generation = grant.generation /\ grant'.holder \in {grant.holder, None}
    <3>1. CASE ApplyRenew(c)
      <4>1. grant.holder = c.holder /\ grant' = Grant(grant.generation, c.holder, c.term, c.issued + LeaseSecs)
        BY <2>4, <3>1, Zenon DEF ApplyRenew, owned_singleton
      <4> QED
        BY <4>1, Zenon DEF Grant
    <3>2. CASE ApplyRelease(c)
      <4>1. grant' = Grant(grant.generation, None, 0, 0)
        BY <2>4, <3>2, Zenon DEF ApplyRelease, Freed
      <4> QED
        BY <4>1, Zenon DEF Grant
    <3> QED
      BY <2>4, <3>1, <3>2, Zenon
  <2>5. grant' = grant \/ \E c : ApplyAcquire(c) \/ ApplyRenew(c) \/ ApplyRelease(c)
    BY Zenon DEF SingletonNext, singletonVars, ClaimJob, ClaimUnanswered, Renew, RenewUnanswered, Cancel, EndBody,
           ReleaseUnanswered, Crash, Reach, Lose, NewLeader, SingletonTick
  <2> QED
    BY <2>1, <2>2, <2>3, <2>4, <2>5
<1>8. SingletonInit => RunInv
  BY RunsInit, SingletonAssumption, Zenon
<1>9. RunInv /\ [SingletonNext]_singletonVars => RunInv'
  BY RunsNext, SingletonAssumption, Zenon
<1> QED
  BY <1>1, <1>8, <1>9, PTL DEF SingletonSpec, GenerationsOwned
=============================================================================
