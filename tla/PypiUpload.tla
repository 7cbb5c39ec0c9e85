----------------------------- MODULE PypiUpload -----------------------------
(***************************************************************************)
(* Uploading a distribution to one hosted PyPI project                     *)
(* (peryx-ecosystem-pypi/src/serving/post.rs, admission.rs, cache/         *)
(* mutate.rs, upload.rs, store/uploads.rs and quota.rs) and the finalizer  *)
(* that settles an upload a restart interrupted (serving/                  *)
(* finalize_sweep.rs and finalize.rs).                                     *)
(*                                                                         *)
(* An upload stages an intent, claims its operation, resolves the home,    *)
(* reserves quota, stores its bytes, publishes its row, records the        *)
(* placement, settles the intent and finalizes the operation, each in a    *)
(* transaction of its own.                                                 *)
(* Its future may be dropped at an await, where a guard returns the quota  *)
(* and nothing returns the intent, and the process may restart anywhere.   *)
(*                                                                         *)
(* The authority lease (WriteLease) appears as its verdict.  A file is     *)
(* never removed: a delete marks its row trashed and keeps it.  Nothing is *)
(* assumed of how long a request takes: the reaper may run between any two *)
(* of its steps and take its intent, its operation and its reservation.    *)
(* Provenance bundles are left out.                                        *)
(***************************************************************************)
EXTENDS QuotaLedger, IngressIntents

CONSTANTS
    Uploads,    \* concurrent requests
    Finalizers, \* finalization passes that may run at once
    Files,      \* filenames of the project
    MaxStaged   \* bound on the intents ever admitted

Digests == {q.digest : q \in Requests}
Authority == CHOOSE a \in Authorities : TRUE
RequestOf(d) == CHOOSE q \in Requests : q.digest = d
Size(d) == RequestOf(d).bytes

(* What a client sends, and the operation id minted from it. *)
Operations == [file : Files, digest : Digests]

ASSUME UploadAssumption == None \notin Ids /\ None \notin Digests

VARIABLES
    quota,      \* the quota ledger
    intents,    \* the ingress intents, keyed by file (intent_key)
    outcomes,   \* the operation ledger
    rows,       \* file -> the digest its row publishes, or None
    stored,     \* digests whose bytes the blob store holds
    placed,     \* digests with an artifact placement row
    upload,     \* the requests in flight
    finalizer   \* the finalizers' passes

vars == <<quota, intents, outcomes, rows, stored, placed, upload, finalizer>>

Idle == [pc |-> "idle", op |-> None, id |-> None, fresh |-> FALSE]
NoPass == [pc |-> "idle", queue |-> <<>>]

Init ==
    /\ quota = NoQuota
    /\ intents = NoIntents
    /\ outcomes = [op \in Operations |-> "none"]
    /\ rows = [f \in Files |-> None]
    /\ stored = {} /\ placed = {}
    /\ upload = [u \in Uploads |-> Idle]
    /\ finalizer = [f \in Finalizers |-> NoPass]

Goto(u, pc) == upload' = [upload EXCEPT ![u].pc = pc]
Done(u) == upload' = [upload EXCEPT ![u] = Idle]
FileOf(u) == upload[u].op.file
DigestOf(u) == upload[u].op.digest

----------------------------------------------------------------------------
(* A request *)

Admission(c) ==
    [authority |-> Authority, key |-> c.file, digest |-> c.digest, size |-> Size(c.digest),
     payload |-> None]

(* admit: a conflicting or shed upload is refused and leaves no trace. *)
Admit(u, c) ==
    LET outcome == stage_outcome(intents, Admission(c))
    IN  /\ upload[u].pc = "idle"
        /\ outcome \in {"admitted", "duplicate"}
        /\ outcome = "admitted" => intents.seq < MaxStaged
        /\ intents' = stage_intent(intents, Admission(c))
        /\ upload' = [upload EXCEPT ![u] =
             [pc |-> "claiming", op |-> c, id |-> None, fresh |-> outcome = "admitted"]]
        /\ UNCHANGED <<quota, outcomes, rows, stored, placed, finalizer>>

(* claim_operation and claim_short_circuit: a published one is replayed. *)
Claim(u) ==
    LET op == upload[u].op
    IN  /\ upload[u].pc = "claiming"
        /\ Goto(u, IF outcomes[op] = "published" THEN "releasing" ELSE "homing")
        /\ outcomes' = claim_operation(outcomes, op)
        /\ UNCHANGED <<quota, intents, rows, stored, placed, finalizer>>

(* An id that no reservation has and no request holds, reaped or not. *)
Fresh == Ids \ (Live(quota) \cup {upload[u].id : u \in Uploads})

(* first_publish_fence granted the home, and project_quota_reservation. *)
Reserve(u) ==
    /\ upload[u].pc = "homing"
    /\ \/ \E id \in Fresh :
            /\ Admits(quota, RequestOf(DigestOf(u)))
            /\ quota' = reserve_quota(quota, id, RequestOf(DigestOf(u)))
            /\ upload' = [upload EXCEPT ![u].pc = "storing", ![u].id = id]
       \/ /\ ~Admits(quota, RequestOf(DigestOf(u)))
          /\ Goto(u, "releasing")
          /\ UNCHANGED quota
    /\ UNCHANGED <<intents, outcomes, rows, stored, placed, finalizer>>

(* The home is elsewhere, or could not be resolved. *)
Homeless(u) ==
    /\ upload[u].pc = "homing"
    /\ Goto(u, "releasing")
    /\ UNCHANGED <<quota, intents, outcomes, rows, stored, placed, finalizer>>

(* stage_publish: the bytes are committed under their digest. *)
Store(u) ==
    /\ upload[u].pc = "storing"
    /\ stored' = stored \cup {DigestOf(u)}
    /\ Goto(u, "publishing")
    /\ UNCHANGED <<quota, intents, outcomes, rows, placed, finalizer>>

(* PendingQuota::drop, then the error: the reservation goes back first. *)
Fail(u) ==
    /\ quota' = release(quota, upload[u].id)
    /\ upload' = [upload EXCEPT ![u].pc = "releasing", ![u].id = None]

(* A blob write failed, or the authority was superseded. *)
StoreFails(u) ==
    /\ upload[u].pc \in {"storing", "publishing"}
    /\ Fail(u)
    /\ UNCHANGED <<intents, outcomes, rows, stored, placed, finalizer>>

(* Deliberately wrong variant: a row of other content is overwritten. *)
upload_conflict_overwriting(row, digest) ==
    IF row = digest THEN "skip" ELSE "commit"

upload_conflict(row, digest) ==
    IF row = None THEN "commit" ELSE IF row = digest THEN "skip" ELSE "exists"

(* Deliberately wrong variant: a reservation that is gone is not noticed. *)
Publish_unchecked(u) ==
    LET verdict == upload_conflict(rows[FileOf(u)], DigestOf(u))
    IN  /\ upload[u].pc = "publishing"
        /\ \/ /\ verdict \in {"commit", "skip"}
              /\ rows' = [rows EXCEPT ![FileOf(u)] = DigestOf(u)]
              /\ quota' = settle_reservations(quota, <<upload[u].id>>,
                                              IF verdict = "commit" THEN {upload[u].id} ELSE {})
              /\ upload' = [upload EXCEPT ![u].pc = "leaving", ![u].id = None]
           \/ verdict = "exists" /\ Fail(u) /\ UNCHANGED rows
        /\ UNCHANGED <<intents, outcomes, stored, placed, finalizer>>

(***************************************************************************)
(* commit_publish: the guard reads the row inside the transaction that     *)
(* writes it, and the reservation commits only with a written row.  A      *)
(* reservation the reaper took meanwhile (ReservationUnavailable) discards *)
(* the transaction, row included.                                          *)
(***************************************************************************)
Publish(u) ==
    LET verdict == upload_conflict(rows[FileOf(u)], DigestOf(u))
        settles == Settles(quota, {upload[u].id})
    IN  /\ upload[u].pc = "publishing"
        /\ \/ /\ verdict \in {"commit", "skip"} /\ settles
              /\ rows' = [rows EXCEPT ![FileOf(u)] = DigestOf(u)]
              /\ quota' = settle_reservations(quota, <<upload[u].id>>,
                                              IF verdict = "commit" THEN {upload[u].id} ELSE {})
              /\ upload' = [upload EXCEPT ![u].pc = "leaving", ![u].id = None]
           \/ (verdict = "exists" \/ ~settles) /\ Fail(u) /\ UNCHANGED rows
        /\ UNCHANGED <<intents, outcomes, stored, placed, finalizer>>

(* The lease is given back, and record_home_placement, whose failure is only logged. *)
Place(u) ==
    /\ upload[u].pc = "leaving"
    /\ placed' \in {placed, placed \cup {DigestOf(u)}}
    /\ Goto(u, "advancing")
    /\ UNCHANGED <<quota, intents, outcomes, rows, stored, finalizer>>

Advance(u) ==
    /\ upload[u].pc = "advancing"
    /\ intents' = advance_intent(intents, FileOf(u), "admitted")
    /\ Goto(u, "acking")
    /\ UNCHANGED <<quota, outcomes, rows, stored, placed, finalizer>>

(* ack_response: only a proven write finalizes its operation. *)
Acknowledge(u, proven) ==
    /\ upload[u].pc = "acking"
    /\ outcomes' = IF proven THEN finalize_operation(outcomes, upload[u].op, "published")
                   ELSE outcomes
    /\ Done(u)
    /\ UNCHANGED <<quota, intents, rows, stored, placed, finalizer>>

(* The error exit of admit_and_store. *)
Release(u) ==
    /\ upload[u].pc = "releasing"
    /\ intents' = IF upload[u].fresh THEN release_intent(intents, FileOf(u)) ELSE intents
    /\ Done(u)
    /\ UNCHANGED <<quota, outcomes, rows, stored, placed, finalizer>>

(* A drop while the durability is confirmed is an unproven Acknowledge. *)
Awaiting == {"homing", "storing", "publishing", "leaving"}

(* Deliberately wrong variant: a dropped future keeps its reservation. *)
Dropped_keeping(u) ==
    /\ upload[u].pc \in Awaiting
    /\ Done(u)
    /\ UNCHANGED <<quota, intents, outcomes, rows, stored, placed, finalizer>>

(* The client hung up: PendingQuota::drop runs, and nothing else does. *)
Dropped(u) ==
    /\ upload[u].pc \in Awaiting
    /\ quota' = release(quota, upload[u].id)
    /\ Done(u)
    /\ UNCHANGED <<intents, outcomes, rows, stored, placed, finalizer>>

Request(u) ==
    \/ \E c \in Operations : Admit(u, c)
    \/ Claim(u) \/ Reserve(u) \/ Homeless(u) \/ Store(u) \/ StoreFails(u) \/ Publish(u) \/ Place(u)
    \/ Advance(u) \/ (\E proven \in BOOLEAN : Acknowledge(u, proven)) \/ Release(u) \/ Dropped(u)

----------------------------------------------------------------------------
(* The finalizer *)

Pass(f, pass) == finalizer' = [finalizer EXCEPT ![f] = pass]
Offer(file) == [file |-> file, digest |-> intents.records[file].digest]
Offered(f) == Head(finalizer[f].queue)
Popped(f) == [NoPass EXCEPT !.queue = Tail(finalizer[f].queue),
                            !.pc = IF Len(finalizer[f].queue) = 1 THEN "idle" ELSE "next"]

(* finalize_admitted reads its batch, records included, once per tick. *)
SweepStart(f) ==
    LET pending == list_pending_intents(intents)
    IN  /\ finalizer[f].pc = "idle" /\ pending # <<>>
        /\ Pass(f, [pc |-> "next", queue |-> [i \in DOMAIN pending |-> Offer(pending[i])]])
        /\ UNCHANGED <<quota, intents, outcomes, rows, stored, placed, upload>>

(* finalize_retained reads the record the drain named, whatever its phase by now. *)
DrainStart(f) ==
    /\ finalizer[f].pc = "idle"
    /\ \E file \in Staged(intents) : Pass(f, [pc |-> "next", queue |-> <<Offer(file)>>])
    /\ UNCHANGED <<quota, intents, outcomes, rows, stored, placed, upload>>

(* locate found no row, or no route to it any more, or could not read it. *)
Refuse(f) ==
    /\ finalizer[f].pc = "next"
    /\ intents' = refuse_intent(intents, Offered(f).file)
    /\ Pass(f, Popped(f))
    /\ UNCHANGED <<quota, outcomes, rows, stored, placed, upload>>

(* Nobody may write the project any more, or the finalize is refused: not
   staged, no placement, no lease. *)
Skip(f) ==
    /\ finalizer[f].pc \in {"next", "publishing"}
    /\ Pass(f, Popped(f))
    /\ UNCHANGED <<quota, intents, outcomes, rows, stored, placed, upload>>

(* Deliberately wrong variant: the row is not looked for. *)
Look_unlocated(f) ==
    LET file == Offered(f).file
    IN  /\ finalizer[f].pc = "next"
        /\ file \in Staged(intents)
        /\ Pass(f, IF is_terminal(outcomes[Offered(f)]) \/ intents.records[file].digest # Offered(f).digest
                   THEN Popped(f) ELSE [finalizer[f] EXCEPT !.pc = "publishing"])
        /\ UNCHANGED <<quota, intents, outcomes, rows, stored, placed, upload>>

(***************************************************************************)
(* finalize_one has a row and finalize_admitted_upload reads the intent    *)
(* and the outcome ahead of its awaits: a terminal operation is replayed   *)
(* and a record that is no longer the one offered is refused.              *)
(***************************************************************************)
Look(f) ==
    LET file == Offered(f).file
    IN  /\ finalizer[f].pc = "next"
        /\ rows[file] # None
        /\ file \in Staged(intents)
        /\ Pass(f, IF is_terminal(outcomes[Offered(f)]) \/ intents.records[file].digest # Offered(f).digest
                   THEN Popped(f) ELSE [finalizer[f] EXCEPT !.pc = "publishing"])
        /\ UNCHANGED <<quota, intents, outcomes, rows, stored, placed, upload>>

(***************************************************************************)
(* publish through commit_finalized_write.  The guard finds a row and      *)
(* writes none; stamp_finalized discards the transaction when the          *)
(* operation became terminal, and else publishes it and settles the intent *)
(* of the key in the same transaction.                                     *)
(***************************************************************************)
commit_finalized_write(f) ==
    /\ finalizer[f].pc = "publishing"
    /\ Offered(f).digest \in placed
    /\ \/ /\ is_terminal(outcomes[Offered(f)])
          /\ UNCHANGED <<intents, outcomes>>
       \/ /\ ~is_terminal(outcomes[Offered(f)])
          /\ outcomes' = [outcomes EXCEPT ![Offered(f)] = "published"]
          /\ intents' = advance_intent(intents, Offered(f).file, "admitted")
    /\ Pass(f, Popped(f))
    /\ UNCHANGED <<quota, rows, stored, placed, upload>>

Finalize(f) ==
    SweepStart(f) \/ DrainStart(f) \/ Refuse(f) \/ Skip(f) \/ Look(f) \/ commit_finalized_write(f)

----------------------------------------------------------------------------
(* Maintenance and restart *)

(* ArtifactPlacementRepairJob promotes content the store holds. *)
Observe(d) ==
    /\ d \in stored \ placed
    /\ placed' = placed \cup {d}
    /\ UNCHANGED <<quota, intents, outcomes, rows, stored, upload, finalizer>>

(* WriteLedgerReap, one row at a time. *)
Expire(file) ==
    /\ file \in Expirable(intents)
    /\ intents' = expire_stale_intents(intents, file)
    /\ UNCHANGED <<quota, outcomes, rows, stored, placed, upload, finalizer>>

Prune(file) ==
    /\ file \in Prunable(intents)
    /\ intents' = prune_ingress_intents(intents, file)
    /\ UNCHANGED <<quota, outcomes, rows, stored, placed, upload, finalizer>>

prune_operation_outcomes(op) ==
    /\ outcomes[op] # "none"
    /\ outcomes' = [outcomes EXCEPT ![op] = "none"]
    /\ UNCHANGED <<quota, intents, rows, stored, placed, upload, finalizer>>

(***************************************************************************)
(* The last step of WriteLedgerReap.  Which pending reservations are past  *)
(* the grace, and how many of them one batch takes, is left open: a        *)
(* request may outlive the grace.                                          *)
(***************************************************************************)
repair_abandoned_quota_reservations(abandoned) ==
    /\ abandoned # {}
    /\ quota' = settle_reservations(quota, InOrder(abandoned), {})
    /\ UNCHANGED <<intents, outcomes, rows, stored, placed, upload, finalizer>>

(* The process dies and the next one repairs every pending reservation. *)
Restart ==
    /\ quota' = settle_reservations(quota, InOrder(Pending(quota)), {})
    /\ upload' = [u \in Uploads |-> Idle]
    /\ finalizer' = [f \in Finalizers |-> NoPass]
    /\ UNCHANGED <<intents, outcomes, rows, stored, placed>>

Next ==
    \/ \E u \in Uploads : Request(u)
    \/ \E f \in Finalizers : Finalize(f)
    \/ \E d \in Digests : Observe(d)
    \/ \E file \in Files : Expire(file) \/ Prune(file)
    \/ \E op \in Operations : prune_operation_outcomes(op)
    \/ \E abandoned \in SUBSET Pending(quota) : repair_abandoned_quota_reservations(abandoned)
    \/ Restart

Spec == Init /\ [][Next]_vars

----------------------------------------------------------------------------
(* Properties *)

(***************************************************************************)
(* A file once published keeps its content: of concurrent uploads of one   *)
(* name the first row wins, also when the intent that would have refused   *)
(* the other was released or reaped                                        *)
(* (upload_conflict inside the publishing transaction).                    *)
(***************************************************************************)
FilesAreImmutable ==
    [][\A file \in Files : rows[file] # None => rows'[file] = rows[file]]_vars

(***************************************************************************)
(* The project is charged once for each file it serves and for nothing     *)
(* else, through retries, duplicates, dropped futures, restarts and a      *)
(* reaper that takes the reservation of a slow upload                      *)
(* (commit_driver_txn_with_quota_if_commit commits the reservation with    *)
(* the row it pays for, or neither).                                       *)
(***************************************************************************)
Charge(file) == allocation_key(RequestOf(rows[file]))
Served == {file \in Files : rows[file] # None}
ChargedAsServed ==
    /\ Cardinality(Committed(quota)) = Cardinality(Served)
    /\ {allocation_key(quota.reservations[id].request) : id \in Committed(quota)}
         = {Charge(file) : file \in Served}

(***************************************************************************)
(* Every pending reservation is held by exactly one request in flight and  *)
(* is for its bytes, so none is left for the reaper to find but those of   *)
(* requests that outlive its grace (PendingQuota: "A pending upload        *)
(* allocation that releases itself when its request future is cancelled"). *)
(***************************************************************************)
HoldersOf(id) == {u \in Uploads : upload[u].id = id}
ReservationsAreHeld ==
    \A id \in Pending(quota) :
      \E u \in Uploads :
        /\ HoldersOf(id) = {u}
        /\ quota.reservations[id].request = RequestOf(DigestOf(u))

(***************************************************************************)
(* Nothing settles ahead of its row: a file whose intent is admitted or    *)
(* whose operation is published is one the project serves, although the    *)
(* finalizer settles on what it read before its awaits.                    *)
(***************************************************************************)
SettledIsServed ==
    /\ \A file \in Files : PhaseOf(intents, file) = "admitted" => rows[file] # None
    /\ \A op \in Operations : outcomes[op] = "published" => rows[op.file] # None

(***************************************************************************)
(* A published operation, which is what a retry is answered from, names    *)
(* content the project serves (finalize.rs: "The upload's bytes were       *)
(* already stored where it was admitted").                                 *)
(***************************************************************************)
PublishedIsServed ==
    \A op \in Operations :
      outcomes[op] = "published" => rows[op.file] = op.digest

=============================================================================
