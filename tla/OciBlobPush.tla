---------------------------- MODULE OciBlobPush ----------------------------
(***************************************************************************)
(* Pushing a blob into one hosted OCI repository: the commit of an upload, *)
(* monolithic or staged in chunks, and the cross-repository mount          *)
(* (peryx-ecosystem-oci/src/registry/blobs/mod.rs, uploads.rs,             *)
(* admission.rs, authority.rs and src/quota.rs), the deletion              *)
(* of a blob, and the two finalizers that publish a retained write: the    *)
(* maintenance sweep (registry/finalize.rs) and the operator drain         *)
(* (peryx-ha-distributed/src/authority_drain.rs).                          *)
(*                                                                         *)
(* A push is several metadata transactions with awaits between them, on    *)
(* four ledgers: the quota, the ingress intents, the operation outcomes    *)
(* and the memberships the repository serves.  A request's future may be   *)
(* dropped at any await, and the process may restart.                      *)
(*                                                                         *)
(* The authority lease of a commit (modelled in WriteLease) appears here   *)
(* as its verdict: a commit is fenced or it is not.  Store faults, which   *)
(* abort a request or a pass, are left out.  A retention period outlasts a *)
(* request: a request that was in flight when an intent was staged is an   *)
(* elder of it, and the intent is not reaped before its elders are done.   *)
(***************************************************************************)
EXTENDS QuotaLedger, IngressIntents

CONSTANTS
    Pushes,      \* concurrent requests
    Finalizers,  \* finalization passes that may run at once
    DrainBatch,  \* intents the drain lists at a time
    MaxStaged    \* bound on the intents ever admitted

Digests == {q.digest : q \in Requests}
RequestOf(d) == CHOOSE q \in Requests : q.digest = d
Size(d) == RequestOf(d).bytes
Authority == CHOOSE a \in Authorities : TRUE
Allocation(d) == allocation_key(RequestOf(d))

ASSUME PushAssumption == None \notin Digests /\ Authorities # {}

VARIABLES
    quota,      \* the quota ledger
    intents,    \* the ingress intents, keyed by digest
    outcomes,   \* the operation ledger, keyed by digest (blob_operation)
    members,    \* digests the repository serves
    stored,     \* digests whose bytes the blob store holds
    push,       \* the requests in flight
    finalizer,  \* the finalizers' passes
    issued,     \* reservation ids handed out
    landed      \* digests whose membership committed since their intent was staged

vars == <<quota, intents, outcomes, members, stored, push, finalizer, issued, landed>>

Idle == [pc |-> "idle", digest |-> None, kind |-> "upload", id |-> None, elder |-> FALSE]
(* A pass resumes after a number; -1 comes before the first. *)
NoPass == [pc |-> "idle", kind |-> "sweep", queue |-> <<>>, resume |-> -1, digest |-> None, id |-> None]

Init ==
    /\ quota = NoQuota
    /\ intents = NoIntents
    /\ outcomes = [d \in Digests |-> "none"]
    /\ members = {} /\ stored = {} /\ landed = {}
    /\ push = [p \in Pushes |-> Idle]
    /\ finalizer = [f \in Finalizers |-> NoPass]
    /\ issued = {}

Done(p) == push' = [push EXCEPT ![p] = Idle]
Goto(p, pc) == push' = [push EXCEPT ![p].pc = pc]

----------------------------------------------------------------------------
(* A request *)

Started(d, kind, id) ==
    [pc |-> IF kind = "mount" THEN "publishing" ELSE "storing",
     digest |-> d, kind |-> kind, id |-> id, elder |-> FALSE]

Fresh == {id \in Ids \ issued : \A other \in Ids \ issued : id <= other}

Unstaged == {p \in Pushes : push[p].pc \in {"storing", "staging"}}

(***************************************************************************)
(* commit_blob and mount_blob until they hold their reservation: a digest  *)
(* already served is not reserved again, a refused reservation ends the    *)
(* request, and the operation is claimed.  A membership that changes       *)
(* between its reading and the reservation has the same effect as one that *)
(* changes right after.  The index configures a quota.                     *)
(***************************************************************************)
Begin(p, d, kind) ==
    /\ push[p].pc = "idle"
    /\ IF kind = "mount" THEN d \in stored ELSE intents.seq + Cardinality(Unstaged) < MaxStaged
    /\ \/ /\ d \in members
          /\ push' = [push EXCEPT ![p] = Started(d, kind, None)]
          /\ UNCHANGED <<quota, issued>>
       \/ /\ d \notin members
          /\ Admits(quota, RequestOf(d))
          /\ \E id \in Fresh :
               /\ quota' = reserve_quota(quota, id, RequestOf(d))
               /\ issued' = issued \cup {id}
               /\ push' = [push EXCEPT ![p] = Started(d, kind, id)]
    /\ outcomes' = claim_operation(outcomes, d)
    /\ UNCHANGED <<intents, members, stored, finalizer, landed>>

(* release_reservation, and the operation's failure. *)
GiveBack(p) ==
    /\ quota' = release(quota, push[p].id)
    /\ outcomes' = finalize_operation(outcomes, push[p].digest, "failed")
    /\ Done(p)

(* pending.commit(&storage): the bytes become durable under their digest. *)
Store(p) ==
    /\ push[p].pc = "storing"
    /\ stored' = stored \cup {push[p].digest}
    /\ Goto(p, "staging")
    /\ UNCHANGED <<quota, intents, outcomes, members, finalizer, issued, landed>>

(* The commit of the bytes failed, a digest mismatch most likely. *)
StoreFails(p) ==
    /\ push[p].pc = "storing"
    /\ GiveBack(p)
    /\ UNCHANGED <<intents, members, stored, finalizer, issued, landed>>

Admission(p) ==
    [authority |-> Authority, key |-> push[p].digest, digest |-> push[p].digest,
     size |-> Size(push[p].digest), payload |-> push[p].id]

(***************************************************************************)
(* stage_ingress_intent: a fresh or a duplicate intent goes on to publish, *)
(* a full authority sheds the push and takes its reservation back.         *)
(***************************************************************************)
Stage(p) ==
    LET outcome == stage_outcome(intents, Admission(p))
        d == push[p].digest
    IN  /\ push[p].pc = "staging"
        /\ intents' = stage_intent(intents, Admission(p))
        /\ \/ /\ outcome = "admitted"
              /\ push' = [q \in Pushes |->
                   [push[q] EXCEPT !.elder = @ \/ push[q].digest = d,
                                   !.pc = IF q = p THEN "publishing" ELSE @]]
              /\ landed' = landed \ {d}
              /\ UNCHANGED <<quota, outcomes>>
           \/ /\ outcome = "duplicate"
              /\ Goto(p, "publishing")
              /\ UNCHANGED <<quota, outcomes, landed>>
           \/ /\ outcome \notin {"admitted", "duplicate"}
              /\ GiveBack(p)
              /\ UNCHANGED landed
        /\ UNCHANGED <<members, stored, finalizer, issued>>

(* commit_blob_membership: the transaction that makes the digest served. *)
Join(d) == members' = members \cup {d} /\ landed' = landed \cup {d}

(***************************************************************************)
(* commit_epoch around commit_blob_membership.  The reservation commits    *)
(* only with an inserted membership and is released otherwise.  One that   *)
(* is no longer pending fails the transaction, membership included.        *)
(***************************************************************************)
Publish(p) ==
    LET d == push[p].digest
        id == push[p].id
    IN  /\ push[p].pc = "publishing"
        /\ id = None \/ id \in Pending(quota)
        /\ Join(d)
        /\ quota' = IF id = None THEN quota
                    ELSE settle_reservations(quota, <<id>>, IF d \in members THEN {} ELSE {id})
        /\ Goto(p, IF push[p].kind = "mount" THEN "acking" ELSE "settling")
        /\ UNCHANGED <<intents, outcomes, stored, finalizer, issued>>

(* ReservationUnavailable rolled the transaction back. *)
PublishFails(p) ==
    /\ push[p].pc = "publishing"
    /\ push[p].id # None /\ push[p].id \notin Pending(quota)
    /\ Goto(p, "unwinding")
    /\ UNCHANGED <<quota, intents, outcomes, members, stored, finalizer, issued, landed>>

(* finalize releases the reservation whatever its state, and the request errs. *)
Unwind(p) ==
    /\ push[p].pc = "unwinding"
    /\ quota' = release(quota, push[p].id)
    /\ Done(p)
    /\ UNCHANGED <<intents, outcomes, members, stored, finalizer, issued, landed>>

(***************************************************************************)
(* The lease was refused, or had run out by the first guard.  A fenced     *)
(* upload keeps its intent, its reservation and its operation; a fenced    *)
(* mount has no intent and gives back what it took.                        *)
(***************************************************************************)
Fenced(p) ==
    /\ push[p].pc = "publishing"
    /\ \/ push[p].kind = "mount" /\ GiveBack(p)
       \/ push[p].kind = "upload" /\ Done(p) /\ UNCHANGED <<quota, outcomes>>
    /\ UNCHANGED <<intents, members, stored, finalizer, issued, landed>>

(* settle_ingress_intent *)
Settle(p) ==
    /\ push[p].pc = "settling"
    /\ intents' = advance_intent(intents, push[p].digest, "admitted")
    /\ Goto(p, "acking")
    /\ UNCHANGED <<quota, outcomes, members, stored, finalizer, issued, landed>>

(* publish_acknowledged: an unproven policy leaves the operation pending. *)
Acknowledge(p, proven) ==
    /\ push[p].pc = "acking"
    /\ outcomes' = IF proven THEN finalize_operation(outcomes, push[p].digest, "published")
                   ELSE outcomes
    /\ Done(p)
    /\ UNCHANGED <<quota, intents, members, stored, finalizer, issued, landed>>

(* The client hung up, or the lease ran out after the membership committed. *)
Dropped(p) ==
    /\ push[p].pc \in {"storing", "publishing", "settling"}
    /\ Done(p)
    /\ UNCHANGED <<quota, intents, outcomes, members, stored, finalizer, issued, landed>>

(* release_blob_membership, under its own lease. *)
Delete(d) ==
    /\ d \in members
    /\ members' = members \ {d}
    /\ quota' = release_committed_allocation(quota, Allocation(d))
    /\ UNCHANGED <<intents, outcomes, stored, push, finalizer, issued, landed>>

----------------------------------------------------------------------------
(* The finalizers *)

Pass(f, pass) == finalizer' = [finalizer EXCEPT ![f] = pass]
Entry(d) == [digest |-> d, id |-> intents.records[d].payload]

(* finalize_admitted reads its batch, payloads included, once per tick. *)
SweepStart(f) ==
    LET pending == list_pending_intents(intents)
    IN  /\ finalizer[f].pc = "idle"
        /\ pending # <<>>
        /\ Pass(f, [NoPass EXCEPT !.pc = "next",
                                  !.queue = [i \in DOMAIN pending |-> Entry(pending[i])]])
        /\ UNCHANGED <<quota, intents, outcomes, members, stored, push, issued, landed>>

(* drain_pending lists a page past the last intent it offered, refused
   ones included, and stops after a page that is not full. *)
Page(resume) ==
    LET rest == list_pending_intents_for(intents, Authority, resume)
    IN  SubSeq(rest, 1, IF Len(rest) < DrainBatch THEN Len(rest) ELSE DrainBatch)

DrainPage(f) ==
    LET page == Page(finalizer[f].resume)
    IN  /\ \/ finalizer[f].pc = "idle"
           \/ finalizer[f].kind = "drain" /\ finalizer[f].pc = "next" /\ finalizer[f].queue = <<>>
        /\ page # <<>>
        /\ Pass(f, [NoPass EXCEPT !.pc = "next", !.kind = "drain",
                      !.queue = [i \in DOMAIN page |-> [digest |-> page[i], id |-> None]],
                      !.resume = intents.records[page[Len(page)]].seq])
        /\ UNCHANGED <<quota, intents, outcomes, members, stored, push, issued, landed>>

(* The batch is done; a drain has no further page, or is cancelled. *)
PassEnds(f) ==
    /\ finalizer[f].pc = "next" /\ finalizer[f].queue = <<>>
    /\ Pass(f, NoPass)
    /\ UNCHANGED <<quota, intents, outcomes, members, stored, push, issued, landed>>

(* The drain reads the staging record again when its turn comes. *)
Offered(f) ==
    LET head == Head(finalizer[f].queue)
    IN  IF finalizer[f].kind = "sweep" THEN head
        ELSE IF head.digest \in Staged(intents) THEN Entry(head.digest)
        ELSE [digest |-> None, id |-> None]

Popped(f) == [finalizer[f] EXCEPT !.queue = Tail(@)]

(* finalize_one refuses what no upload can finalize here. *)
Refuse(f) ==
    /\ finalizer[f].pc = "next" /\ finalizer[f].queue # <<>>
    /\ Offered(f).digest # None
    /\ intents' = refuse_intent(intents, Offered(f).digest)
    /\ Pass(f, Popped(f))
    /\ UNCHANGED <<quota, outcomes, members, stored, push, issued, landed>>

(* The home could not be claimed, or the record is gone. *)
Skip(f) ==
    /\ finalizer[f].pc = "next" /\ finalizer[f].queue # <<>>
    /\ Pass(f, Popped(f))
    /\ UNCHANGED <<quota, intents, outcomes, members, stored, push, issued, landed>>

(* publish: the content is stored and the home is here; claim the operation. *)
Take(f) ==
    /\ finalizer[f].pc = "next" /\ finalizer[f].queue # <<>>
    /\ Offered(f).digest \in stored
    /\ outcomes' = claim_operation(outcomes, Offered(f).digest)
    /\ Pass(f, [Popped(f) EXCEPT !.pc = "charging", !.digest = Offered(f).digest,
                                !.id = Offered(f).id])
    /\ UNCHANGED <<quota, intents, members, stored, push, issued, landed>>

(* commit_quota_reservation on the reservation the interrupted push took. *)
Charge(f) ==
    /\ finalizer[f].pc = "charging"
    /\ quota' = commit_reservation(quota, finalizer[f].id)
    /\ Pass(f, [finalizer[f] EXCEPT !.pc = "publishing"])
    /\ UNCHANGED <<intents, outcomes, members, stored, push, issued, landed>>

Republish(f) ==
    /\ finalizer[f].pc = "publishing"
    /\ Join(finalizer[f].digest)
    /\ Pass(f, [finalizer[f] EXCEPT !.pc = "settling"])
    /\ UNCHANGED <<quota, intents, outcomes, stored, push, issued>>

(* Deliberately wrong variant: a fenced publication is taken for a committed one. *)
RepublishFenced_settles(f) ==
    /\ finalizer[f].pc = "publishing"
    /\ Pass(f, [finalizer[f] EXCEPT !.pc = "settling"])
    /\ UNCHANGED <<quota, intents, outcomes, members, stored, push, issued, landed>>

RepublishFenced(f) ==
    /\ finalizer[f].pc = "publishing"
    /\ Pass(f, [finalizer[f] EXCEPT !.pc = "next", !.digest = None, !.id = None])
    /\ UNCHANGED <<quota, intents, outcomes, members, stored, push, issued, landed>>

SettleRetained(f) ==
    /\ finalizer[f].pc = "settling"
    /\ intents' = advance_intent(intents, finalizer[f].digest, "admitted")
    /\ outcomes' = finalize_operation(outcomes, finalizer[f].digest, "published")
    /\ Pass(f, [finalizer[f] EXCEPT !.pc = "next", !.digest = None, !.id = None])
    /\ UNCHANGED <<quota, members, stored, push, issued, landed>>

----------------------------------------------------------------------------
(* Maintenance and restart *)

Elders(d) == {p \in Pushes : push[p].digest = d /\ push[p].elder}
Finalizing(d) ==
    \E f \in Finalizers :
      \/ finalizer[f].digest = d
      \/ \E i \in DOMAIN finalizer[f].queue : finalizer[f].queue[i].digest = d

(* WriteLedgerReap, one row at a time. *)
Expire(d) ==
    /\ d \in Expirable(intents) /\ Elders(d) = {}
    /\ intents' = expire_stale_intents(intents, d)
    /\ UNCHANGED <<quota, outcomes, members, stored, push, finalizer, issued, landed>>

Prune(d) ==
    /\ d \in Prunable(intents) /\ Elders(d) = {} /\ ~Finalizing(d)
    /\ intents' = prune_ingress_intents(intents, d)
    /\ UNCHANGED <<quota, outcomes, members, stored, push, finalizer, issued, landed>>

(* The grace of a pending reservation outlasts the request that took it. *)
ReapQuota ==
    LET held == {push[p].id : p \in Pushes}
        old == Pending(quota) \ held
    IN  /\ old # {}
        /\ quota' = settle_reservations(quota, InOrder(old), {})
        /\ UNCHANGED <<intents, outcomes, members, stored, push, finalizer, issued, landed>>

(* The process dies and the next one repairs every pending reservation. *)
Restart ==
    /\ quota' = settle_reservations(quota, InOrder(Pending(quota)), {})
    /\ push' = [p \in Pushes |-> Idle]
    /\ finalizer' = [f \in Finalizers |-> NoPass]
    /\ UNCHANGED <<intents, outcomes, members, stored, issued, landed>>

Request(p) ==
    \/ \E d \in Digests, kind \in {"upload", "mount"} : Begin(p, d, kind)
    \/ Store(p) \/ StoreFails(p) \/ Stage(p) \/ Publish(p) \/ PublishFails(p) \/ Unwind(p)
    \/ Fenced(p) \/ Settle(p) \/ (\E proven \in BOOLEAN : Acknowledge(p, proven)) \/ Dropped(p)

Finalize(f) ==
    \/ SweepStart(f) \/ DrainPage(f) \/ PassEnds(f) \/ Refuse(f) \/ Skip(f) \/ Take(f) \/ Charge(f)
    \/ Republish(f) \/ RepublishFenced(f) \/ SettleRetained(f)

Next ==
    \/ \E p \in Pushes : Request(p)
    \/ \E d \in Digests : Delete(d)
    \/ \E f \in Finalizers : Finalize(f)
    \/ \E d \in Digests : Expire(d) \/ Prune(d)
    \/ ReapQuota
    \/ Restart

Spec == Init /\ [][Next]_vars

----------------------------------------------------------------------------
(* Properties *)

(***************************************************************************)
(* Whatever requests, finalizers and the reaper do in between, the sweep's *)
(* index holds the pending intents and only those, and the capacity an     *)
(* authority is charged is what its retained intents hold                  *)
(* (ingress_intent.rs keeps the three tables in step).                     *)
(***************************************************************************)
IntentLedgerConsistent == IntentsConsistent(intents)

(***************************************************************************)
(* Nothing settles a write that was never published: a finalizer advances  *)
(* an intent only after a membership of its digest committed since the     *)
(* intent was staged (finalize.rs: the membership commit runs first and    *)
(* the settle follows it), whatever fences, deletes and prunes intervene.  *)
(***************************************************************************)
SettlesPublished ==
    [][\A d \in Digests :
         /\ PhaseOf(intents, d) = "pending" /\ PhaseOf(intents', d) = "admitted"
         /\ finalizer' # finalizer
         => d \in landed]_vars
=============================================================================
