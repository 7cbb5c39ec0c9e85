----------------------------- MODULE WriteLease -----------------------------
(***************************************************************************)
(* A metadata mutation and the authority transfers that race it.           *)
(*                                                                         *)
(* A write request learns the authority's epoch (a publish claims the      *)
(* home, a control only snapshots the epoch), leases that epoch through    *)
(* consensus, re-checks the lease on its own clock inside the metadata     *)
(* transaction, commits, and gives the lease back.  Operators move,        *)
(* advance or forget the authority.  The leader stamps a command with its  *)
(* own clock as it enters the log (raft/node.rs); it is applied later, or  *)
(* never, and the submitter may have stopped waiting by then.  Entries are *)
(* applied here in any order, of which the log's is one: no property below *)
(* depends on it.                                                          *)
(***************************************************************************)
EXTENDS OwnershipState

CONSTANTS
    Authorities,
    Writes,         \* write requests; each carries its own lease id (a uuid)
    CommitBound,    \* how long a transaction may run after its lease check
    MaxEpoch,       \* bound on epochs
    MaxForgets      \* bound on forget commands applied per authority

ASSUME LeaseAssumption ==
    /\ Drift \in Nat
    /\ CommitBound \in Nat
    /\ Drift + CommitBound <= 2 * Skew
    /\ MaxTime \in Nat
    /\ MaxInFlight \in Nat
    /\ MaxEpoch \in Nat
    /\ MaxForgets \in Nat

VARIABLES
    records,    \* the replicated authority records
    forgets,    \* history: how often each authority was forgotten
    sent,       \* lease requests on their way to the leader
    log,        \* commands stamped by the leader and not applied
    req         \* per write request, the state of its handler

vars == <<now, records, forgets, sent, log, req>>

(* A request that has not started, and one that is over. *)
Blank(pc) == [pc |-> pc, kind |-> "control", authority |-> None, dc |-> None, fence |-> UNASSIGNED,
              born |-> 0, expires |-> 0, checked |-> 0]
Idle == Blank("idle")
Done == Blank("done")

Init ==
    /\ now = 0
    /\ records = [a \in Authorities |-> Unowned]
    /\ forgets = [a \in Authorities |-> 0]
    /\ sent = {}
    /\ log = {}
    /\ req = [w \in Writes |-> Idle]

-----------------------------------------------------------------------------
(* The write request.                                                      *)

Fenced(kind, a, d, epoch) ==
    [pc |-> "fenced", kind |-> kind, authority |-> a, dc |-> d, fence |-> epoch,
     born |-> forgets[a], expires |-> 0, checked |-> 0]

(* A publish resolves the authority's home, assigning its own datacenter   *)
(* when it has none, and goes on only at home.                             *)
Claim(w, a, d) ==
    LET claimed == assign_home(records[a], d).record
    IN  /\ req[w] = Idle
        /\ records' = [records EXCEPT ![a] = claimed]
        /\ req' = [req EXCEPT ![w] = IF claimed.home = d
                                     THEN Fenced("publish", a, d, claimed.epoch)
                                     ELSE Done]
        /\ UNCHANGED <<now, forgets, sent, log>>

(* Yank, delete, restore, promote and finalize only snapshot the epoch,    *)
(* from the local replica, which may lag behind the committed one.         *)
Snapshot(w, a, d) ==
    /\ req[w] = Idle
    /\ \E epoch \in UNASSIGNED..MaxEpoch : req' = [req EXCEPT ![w] = Fenced("control", a, d, epoch)]
    /\ UNCHANGED <<now, records, forgets, sent, log>>

SubmitBegin(w) ==
    /\ req[w].pc = "fenced"
    /\ sent' = sent \cup {[authority |-> req[w].authority, epoch |-> req[w].fence, id |-> w]}
    /\ req' = [req EXCEPT ![w].pc = "submitted"]
    /\ UNCHANGED <<now, records, forgets, log>>

(* The request reaches the leader, whose reading starts the lease. *)
Arrive(c) ==
    /\ \E t \in Reading :
         log' = log \cup {[op |-> "Begin", authority |-> c.authority, epoch |-> c.epoch, id |-> c.id,
                           issued |-> t, expires |-> t + LeaseSecs]}
    /\ sent' = sent \ {c}
    /\ UNCHANGED <<now, records, forgets, req>>

(* The client write times out or its leader is unreachable.  The command   *)
(* may be applied all the same.                                            *)
GiveUp(w) ==
    /\ req[w].pc = "submitted"
    /\ req' = [req EXCEPT ![w] = Done]
    /\ UNCHANGED <<now, records, forgets, sent, log>>

(* Deliberately wrong variant: the writer stops at expiry, not before it. *)
admits_until_expiry(expires, t) == t < expires

admits(expires, t) == t + Skew < expires

(* The check at the head of the transaction. *)
CheckLease(w) ==
    /\ req[w].pc = "leased"
    /\ \E t \in Reading :
         req' = [req EXCEPT
                   ![w].pc = IF admits(req[w].expires, t) THEN "checked" ELSE "releasing",
                   ![w].checked = now]
    /\ UNCHANGED <<now, records, forgets, sent, log>>

(* A checked transaction commits, or fails, at any later moment: its       *)
(* effect on the metadata store is not part of this model.                 *)
EndTxn(w) ==
    /\ req[w].pc = "checked"
    /\ req' = [req EXCEPT ![w].pc = "releasing"]
    /\ UNCHANGED <<now, records, forgets, sent, log>>

SubmitFinish(w) ==
    /\ req[w].pc = "releasing"
    /\ log' = log \cup {[op |-> "Finish", authority |-> req[w].authority,
                         epoch |-> req[w].fence, id |-> w]}
    /\ req' = [req EXCEPT ![w] = Done]
    /\ UNCHANGED <<now, records, forgets, sent>>

-----------------------------------------------------------------------------
(* Operators.                                                              *)

OperatorOps == {"Transfer", "Advance", "Forget"}

OperatorCommands(a, t) ==
         {[op |-> "Transfer", authority |-> a, home |-> d, at |-> t] : d \in Datacenters}
    \cup {[op |-> op, authority |-> a, at |-> t] : op \in {"Advance", "Forget"}}

(* An operator's command reaches the leader. *)
SubmitOperator(a) ==
    /\ Cardinality({c \in log : c.op \in OperatorOps}) < MaxInFlight
    /\ \E t \in Reading : \E c \in OperatorCommands(a, t) : log' = log \cup {c}
    /\ UNCHANGED <<now, records, forgets, sent, req>>

-----------------------------------------------------------------------------
(* Consensus applies a command.                                            *)

ApplyBegin(c) ==
    LET w == c.id
        out == begin_write(records[c.authority], c.epoch, w, c.issued, c.expires)
    IN  /\ c.op = "Begin"
        /\ records' = [records EXCEPT ![c.authority] = out.record]
        /\ req' = [req EXCEPT ![w] =
                     IF @.pc # "submitted" THEN @
                     ELSE IF out.effect = "WriteLeased" THEN [@ EXCEPT !.pc = "leased", !.expires = c.expires]
                     ELSE Done]
        /\ log' = log \ {c}
        /\ UNCHANGED <<now, forgets, sent>>

ApplyFinish(c) ==
    /\ c.op = "Finish"
    /\ records' = [records EXCEPT ![c.authority] = finish_write(@, c.epoch, c.id).record]
    /\ log' = log \ {c}
    /\ UNCHANGED <<now, forgets, sent, req>>

ApplyOperator(c) ==
    LET a == c.authority
        out == CASE c.op = "Transfer" -> transfer(records[a], c.home, c.at)
                 [] c.op = "Advance"  -> advance_epoch(records[a], c.at)
                 [] c.op = "Forget"   -> forget(records[a], c.at)
    IN  /\ c.op \in OperatorOps
        /\ out.record.epoch <= MaxEpoch
        /\ out.effect = "Forgotten" => forgets[a] < MaxForgets
        /\ records' = [records EXCEPT ![a] = out.record]
        /\ forgets' = [forgets EXCEPT ![a] = IF out.effect = "Forgotten" THEN @ + 1 ELSE @]
        /\ log' = log \ {c}
        /\ UNCHANGED <<now, sent, req>>

Tick ==
    /\ now < MaxTime
    /\ now' = now + 1
    /\ UNCHANGED <<records, forgets, sent, log, req>>

Next ==
    \/ \E w \in Writes :
         \/ \E a \in Authorities, d \in Datacenters : Claim(w, a, d) \/ Snapshot(w, a, d)
         \/ SubmitBegin(w)
         \/ GiveUp(w)
         \/ CheckLease(w)
         \/ EndTxn(w)
         \/ SubmitFinish(w)
    \/ \E a \in Authorities : SubmitOperator(a)
    \/ \E c \in sent : Arrive(c)
    \/ \E c \in log : ApplyBegin(c) \/ ApplyFinish(c) \/ ApplyOperator(c)
    \/ Tick

Spec == Init /\ [][Next]_vars

-----------------------------------------------------------------------------
(* Properties.                                                             *)

Lease == [id : Writes, epoch : Nat \ {UNASSIGNED}, expires : Int]

Record == [home : Datacenters \cup {None}, epoch : Nat, writes : SUBSET Lease]

Busy == {"fenced", "submitted", "leased", "checked", "releasing"}

Request == [pc : Busy \cup {"idle", "done"}, kind : {"publish", "control"},
            authority : Authorities \cup {None}, dc : Datacenters \cup {None},
            fence : Nat, born : Nat, expires : Int, checked : Nat]

Command ==
         [op : {"Begin"}, authority : Authorities, epoch : Nat, id : Writes, issued : Int, expires : Int]
    \cup [op : {"Finish"}, authority : Authorities, epoch : Nat, id : Writes]
    \cup [op : {"Transfer"}, authority : Authorities, home : Datacenters, at : Int]
    \cup [op : {"Advance", "Forget"}, authority : Authorities, at : Int]

(* Every variable has its type; an authority has a home exactly when its   *)
(* epoch is not zero, as `restore` demands of a snapshot.                  *)
TypeOK ==
    /\ now \in Nat
    /\ records \in [Authorities -> Record]
    /\ \A a \in Authorities : Assigned(records[a]) <=> records[a].epoch # UNASSIGNED
    /\ forgets \in [Authorities -> Nat]
    /\ sent \subseteq [authority : Authorities, epoch : Nat, id : Writes]
    /\ log \subseteq Command
    /\ req \in [Writes -> Request]
    /\ \A w \in Writes : req[w].pc \in Busy => req[w].authority \in Authorities

(* Request w is inside a transaction that passed its lease check no longer *)
(* than `bound` ago: it may commit in this very state.                     *)
MayCommit(w) == req[w].pc = "checked"
MayCommitWithin(w, bound) == MayCommit(w) /\ now - req[w].checked <= bound

Current(w) == records[req[w].authority]

(* A transaction that passed its lease check and commits within            *)
(* CommitBound commits while the epoch it leased is still the authority's: *)
(* no transfer, advance or forget is applied under it (peryx-ha lib.rs,    *)
(* AUTHORITY_CLOCK_SKEW_SECS: "their commit windows cannot overlap").      *)
FencedCommit ==
    \A w \in Writes : MayCommitWithin(w, CommitBound) => Current(w).epoch = req[w].fence

(* The windows in which a transaction may commit, and the epochs. *)
OpenWindows ==
    {[write |-> w, authority |-> req[w].authority, epoch |-> req[w].fence] :
        w \in {v \in Writes : MayCommitWithin(v, CommitBound)}}

Epochs == [a \in Authorities |-> records[a].epoch]

Windows == INSTANCE CommitWindow WITH epoch <- Epochs, open <- OpenWindows

(* The lease protocol implements CommitWindow: seen through its open       *)
(* windows and its epochs, a step opens a window under the current epoch,  *)
(* closes some, or moves an authority that has none open.                  *)
CommitWindows == Windows!Spec

(* A publish commits in the datacenter that is the authority's home at     *)
(* that moment, unless the authority was forgotten since it claimed.       *)
PublishAtHome ==
    \A w \in Writes :
        /\ MayCommitWithin(w, CommitBound)
        /\ req[w].kind = "publish"
        /\ forgets[req[w].authority] = req[w].born
        => Current(w).home = req[w].dc
=============================================================================
