----------------------------- MODULE ReplicaSync -----------------------------
(***************************************************************************)
(* A read replica follows the writer's journal (peryx-ha-distributed/src/  *)
(* replica_runtime.rs, multi_pull.rs, multi_peer.rs, replica.rs,           *)
(* blob_plane.rs) from two peers: the primary, and a relay, which is a     *)
(* replica that serves its own journal.  The primary publishes checkpoints *)
(* and drops the journal below them (peryx-storage/src/meta/checkpoint.rs, *)
(* checkpoint_transfer.rs, journal.rs); a replica that asks for a dropped  *)
(* record is refused and installs the checkpoint in its place.             *)
(* prune_journal_batch drops only records below the floor that publishing  *)
(* left, which no reader is served, so the floor stands for both.          *)
(*                                                                         *)
(* The replica's cursor row is written in every transaction that moves its *)
(* journal serial, so one variable stands for both.  Change i writes the   *)
(* row History[i] and references one blob, which is named i.  The peers    *)
(* relay one writer, so the branches that refuse another source, version   *)
(* or schema are left out.                                                 *)
(***************************************************************************)
EXTENDS Integers, Sequences, FiniteSets, FiniteSetsExt

CONSTANTS
    History,        \* the row each change writes, in serial order
    Order,          \* the peers, in the order the set joined them
    PageLimit,      \* records of a page, and blobs of a recovery page
    MaxGeneration,  \* bound on checkpoints, but for those that clear a lease
    MaxFaults       \* bound on failed calls, lapsed leases and restarts together

ASSUME ReplicaAssumption ==
    /\ Len(History) > 0 /\ Order \in Seq({"primary", "relay"})
    /\ PageLimit \in Nat \ {0} /\ MaxGeneration \in Nat /\ MaxFaults \in Nat

VARIABLES
    head,       \* the primary's serial
    published,  \* the primary's checkpoint; generation 0 is none
    pin,        \* its lease: "none", "held", "lapsed", "spent" (over its lifetime)
    relay,      \* the relay's serial and retained floor
    rows,       \* the replica's rows: the change each one was last written by
    serial,     \* the replica's journal serial, and its cursor
    floor,      \* the first record its journal retains
    staged,     \* the checkpoint transfer it has staged, if any
    recovery,   \* the installed checkpoint's blobs still to look for, if any
    blobs,      \* blobs in its store
    views,      \* the durable frontiers of the search and the blob view
    members,    \* the peer set: per peer its frontier, its health and whether it is due
    pc,         \* where the replica's cycle is
    replies,    \* per peer, what it answered this cycle
    round,      \* the cycle's other locals
    proved,     \* blobs a remote peer has served a probe of
    faults

vars == <<head, published, pin, relay, rows, serial, floor, staged, recovery, blobs,
          views, members, pc, replies, round, proved, faults>>
writerVars == <<head, published, pin, relay>>
storeVars == <<rows, serial, floor, staged, recovery, blobs, views>>
stateVars == <<rows, serial, floor>>
cycleVars == <<members, pc, replies, round>>

Peers == Range(Order)
Keys == Range(History)
None == [serial |-> 0, generation |-> 0, rows |-> <<>>]
NoStage == [manifest |-> None, got |-> <<>>]
NoReply == [kind |-> "none", page |-> {}]
NoRecovery == [serial |-> 0, left |-> {0}]
Idle == [answered |-> FALSE, failed |-> FALSE, at |-> 1, evidence |-> {}]

(* The rows after changes `serials` on top of `base` (CheckpointState::apply, *)
(* and the rows apply_page writes).                                           *)
Applied(base, serials) ==
    [k \in Keys |-> Max({base[k]} \cup {i \in serials : History[i] = k})]

Empty == [k \in Keys |-> 0]

(* PeerSet::join at the replica's durable serial. *)
Joined(at) == [p \in Peers |-> [frontier |-> at, health |-> "ready", due |-> TRUE]]

Init ==
    /\ head = 0 /\ pin = "none"
    /\ published = [None EXCEPT !.rows = Empty]
    /\ relay = [serial |-> 0, floor |-> 1]
    /\ rows = Empty /\ serial = 0 /\ floor = 1
    /\ staged = NoStage /\ recovery = NoRecovery
    /\ blobs = {} /\ views = [search |-> 0, blob |-> 0]
    /\ members = Joined(0)
    /\ pc = "idle" /\ replies = [p \in Peers |-> NoReply] /\ round = Idle
    /\ proved = {} /\ faults = 0

Fault == faults < MaxFaults /\ faults' = faults + 1

-----------------------------------------------------------------------------
(* The primary and the relay. *)

Write ==
    /\ head < Len(History)
    /\ head' = head + 1
    /\ UNCHANGED <<published, pin, relay, storeVars, cycleVars, proved, faults>>

(* A held lease keeps the checkpoint; an unchanged one is published again only  *)
(* to clear a lease.  The journal after the last checkpoint is folded onto it.  *)
publish_checkpoint ==
    /\ published.generation < MaxGeneration \/ pin # "none"
    /\ pin # "held"
    /\ \/ published.generation = 0
       \/ published.serial # head
       \/ pin # "none"
    /\ published' = [serial |-> head, generation |-> published.generation + 1,
                     rows |-> Applied(published.rows, (published.serial + 1)..head)]
    /\ pin' = "none"
    /\ UNCHANGED <<head, relay, storeVars, cycleVars, proved, faults>>

(* The lease of the pin runs out, or its whole lifetime. *)
PinLapses ==
    /\ \/ pin = "held" /\ pin' = "lapsed"
       \/ pin \in {"held", "lapsed"} /\ pin' = "spent"
    /\ Fault
    /\ UNCHANGED <<head, published, relay, storeVars, cycleVars, proved>>

(* What a node's journal holds, and the first serial it lets a reader ask for. *)
Feed(p) ==
    IF p = "primary"
    THEN [head |-> head, floor |-> IF published.generation > 0 THEN published.serial + 1 ELSE 1]
    ELSE [head |-> relay.serial, floor |-> relay.floor]

below_floor(feed, after) == after + 1 < feed.floor

(* The relay is a replica of the primary alone: its cycles are abstracted to  *)
(* what they leave it to serve, a journal that grows in order or that an      *)
(* installed checkpoint replaced.  It serves no blobs and no checkpoint.      *)
RelayFollows ==
    /\ "relay" \in Peers
    /\ LET feed == Feed("primary") IN
       IF below_floor(feed, relay.serial)
       THEN relay' = [serial |-> published.serial, floor |-> published.serial + 1]
       ELSE /\ relay.serial < head
            /\ relay' = [relay EXCEPT !.serial = @ + 1]
    /\ UNCHANGED <<head, published, pin, storeVars, cycleVars, proved, faults>>

-----------------------------------------------------------------------------
(* One cycle of the replica: pages first. *)

(* select: every due peer is asked for what follows its frontier.  A peer   *)
(* that was put off is due again once its delay has passed.                 *)
Waiting == {p \in Peers : ~members[p].due}

StartCycle(elapsed) ==
    /\ pc = "idle"
    /\ pc' = "fetch"
    /\ members' = [p \in Peers |-> [members[p] EXCEPT !.due = @ \/ p \in elapsed]]
    /\ replies' = [p \in Peers |->
                     [NoReply EXCEPT !.kind = IF members'[p].due THEN "asked" ELSE "none"]]
    /\ UNCHANGED <<writerVars, storeVars, round, proved, faults>>

(* build_change_page: a page is a prefix of what follows, cut by its limits. *)
Pages(p) ==
    LET feed == Feed(p)
        after == members[p].frontier
        held == {i \in (after + 1)..feed.head : i >= feed.floor}
        ends == {m \in held : m < Min(held) + PageLimit}
    IN IF held = {} THEN {{}} ELSE {{i \in held : i <= n} : n \in ends}

Answer(p) ==
    /\ pc = "fetch" /\ replies[p].kind = "asked"
    /\ LET feed == Feed(p) IN
       IF p = "relay" /\ relay.serial = 0
       THEN replies' = [replies EXCEPT ![p].kind = "unsynced"]
       ELSE IF below_floor(feed, members[p].frontier)
            THEN replies' = [replies EXCEPT ![p].kind = "below"]
            ELSE \E page \in Pages(p) :
                   replies' = [replies EXCEPT ![p] = [kind |-> "page", page |-> page]]
    /\ UNCHANGED <<writerVars, storeVars, members, pc, round, proved, faults>>

Lost(p) ==
    /\ pc = "fetch" /\ replies[p].kind = "asked" /\ Fault
    /\ replies' = [replies EXCEPT ![p].kind = "lost"]
    /\ UNCHANGED <<writerVars, storeVars, members, pc, round, proved>>

Paged(p) == replies[p].kind = "page"

(* settle and back_off.  A refused cursor is terminal but needs no explicit *)
(* rearm, so the peer is quarantined, not retired.                          *)
Settled(p) ==
    CASE Paged(p) -> [members[p] EXCEPT !.health = "ready", !.due = TRUE]
      [] replies[p].kind = "below" -> [members[p] EXCEPT !.health = "below", !.due = FALSE]
      [] replies[p].kind \in {"lost", "unsynced"} ->
           [members[p] EXCEPT !.health = "waiting", !.due = FALSE]
      [] OTHER -> members[p]

Settle ==
    /\ pc = "fetch" /\ \A p \in Peers : replies[p].kind # "asked"
    /\ members' = [p \in Peers |-> Settled(p)]
    /\ round' = [Idle EXCEPT !.answered = \E p \in Peers : Paged(p)]
    /\ pc' = "apply"
    /\ UNCHANGED <<writerVars, storeVars, replies, proved, faults>>

(* Deliberately wrong variant: a page that starts after a gap is applied. *)
GapAllowed(page) == page # {}

(* ValidatedPage::new: the page starts at the cursor and has no gap. *)
Valid(page) == page = (serial + 1)..Max(page)

(* pull_round and apply_page: what of the next peer's batch is new is one     *)
(* transaction, then a view is rebuilt, or cannot be.  The first failure ends *)
(* the round.                                                                 *)
ApplyBatch ==
    LET p == Order[round.at]
        fresh == {i \in replies[p].page : i > serial}
        next == [round EXCEPT !.at = @ + 1]
    IN  /\ pc = "apply" /\ round.at <= Len(Order) /\ ~round.failed
        /\ \/ /\ fresh = {}
              /\ round' = next
              /\ UNCHANGED <<rows, serial, views, faults>>
           \/ /\ fresh # {} /\ ~Valid(fresh)
              /\ round' = [next EXCEPT !.failed = TRUE]
              /\ UNCHANGED <<rows, serial, views, faults>>
           \/ /\ fresh # {} /\ Valid(fresh)
              /\ rows' = Applied(rows, fresh)
              /\ serial' = Max(fresh)
              /\ round' = next
              /\ \/ views' = [views EXCEPT !.search = Max({@, Max(fresh)})] /\ UNCHANGED faults
                 \/ UNCHANGED views /\ Fault
        /\ UNCHANGED <<writerVars, floor, staged, recovery, blobs, members, pc, replies, proved>>

(* Deliberately wrong variant: a commit ends the draining and no more. *)
Unmoved(p, at) == members[p]

(* PeerSet::commit never moves a frontier back. *)
Committed(p, at) == [members[p] EXCEPT !.frontier = Max({@, at})]

Drained(p) == replies[p].page # {}

(* The drained peers are committed.  A failed round ends the cycle. *)
EndRound ==
    /\ pc = "apply" /\ (round.failed \/ round.at > Len(Order))
    /\ members' = [p \in Peers |-> IF Drained(p) THEN Committed(p, serial) ELSE members[p]]
    /\ replies' = [p \in Peers |-> NoReply]
    /\ IF round.failed
       THEN pc' = "idle" /\ round' = Idle
       ELSE pc' = "recover" /\ round' = [round EXCEPT !.at = 1]
    /\ UNCHANGED <<writerVars, storeVars, proved, faults>>

-----------------------------------------------------------------------------
(* Then a checkpoint, when the primary has refused the cursor.  The relay     *)
(* serves none: a recovery from it fails and changes nothing.                 *)

Refused == "primary" \in Peers /\ members["primary"].health = "below"

(* The cycle goes on to the blobs when a peer answered or a recovery did. *)
AfterRecovery(recovered) ==
    IF round.answered \/ recovered
    THEN pc' = "blobs" /\ UNCHANGED round
    ELSE pc' = "idle" /\ round' = Idle

SkipRecovery ==
    /\ pc = "recover" /\ ~Refused
    /\ AfterRecovery(FALSE)
    /\ UNCHANGED <<writerVars, storeVars, members, replies, proved, faults>>

RecoveryFails ==
    /\ pc \in {"recover", "stage"} /\ Refused /\ Fault
    /\ AfterRecovery(FALSE)
    /\ UNCHANGED <<writerVars, storeVars, members, replies, proved>>

(* install_checkpoint: what is staged of the same manifest is kept. *)
StartTransfer ==
    /\ pc = "recover" /\ Refused
    /\ staged' = IF staged.manifest = published
                 THEN staged ELSE [manifest |-> published, got |-> <<>>]
    /\ pc' = "stage"
    /\ UNCHANGED <<writerVars, stateVars, recovery, blobs, views, members, replies, round, proved,
                   faults>>

KeyOrder == CHOOSE order \in Bijection(1..Cardinality(Keys), Keys) : TRUE

(* checkpoint_chunk_at_generation: only the current generation, within the  *)
(* lease's lifetime.  A chunk holds one row.                                *)
ServesChunk == staged.manifest.generation = published.generation /\ pin # "spent"

StageChunk ==
    /\ pc = "stage" /\ Len(staged.got) < Len(KeyOrder)
    /\ ServesChunk
    /\ pin' = "held"
    /\ staged' = [staged EXCEPT !.got = Append(@, published.rows[KeyOrder[Len(@) + 1]])]
    /\ UNCHANGED <<head, published, relay, stateVars, recovery, blobs, views, cycleVars, proved,
                   faults>>

ChunkRefused ==
    /\ pc = "stage" /\ Len(staged.got) < Len(KeyOrder)
    /\ ~ServesChunk
    /\ AfterRecovery(FALSE)
    /\ UNCHANGED <<writerVars, storeVars, members, replies, proved, faults>>

(* The rows the staged chunks encode. *)
decode_staged ==
    [k \in Keys |-> staged.got[CHOOSE i \in DOMAIN KeyOrder : KeyOrder[i] = k]]

(* Deliberately wrong variant: the blob view starts at the checkpoint. *)
replace_state_readable(decoded, m) ==
    /\ rows' = decoded
    /\ serial' = m.serial
    /\ floor' = m.serial + 1
    /\ recovery' = [serial |-> m.serial, left |-> Range(decoded) \ {0}]
    /\ views' = [views EXCEPT !.blob = m.serial]

(* replace_state: rows, journal, floor, cursor, blob recovery and blob view *)
(* in one transaction.  The search view stays where it was.                 *)
replace_state(decoded, m) ==
    /\ rows' = decoded
    /\ serial' = m.serial
    /\ floor' = m.serial + 1
    /\ recovery' = [serial |-> m.serial, left |-> Range(decoded) \ {0}]
    /\ views' = [views EXCEPT !.blob = Max({m.serial - 1, 0})]

(* The digest of the manifest covers every row: what the chunks add up to is  *)
(* installed when it is the state the manifest was made of, and else the      *)
(* recovery fails.                                                            *)
Install ==
    /\ pc = "stage" /\ Len(staged.got) = Len(KeyOrder)
    /\ IF decode_staged = staged.manifest.rows
       THEN /\ replace_state(decode_staged, staged.manifest)
            /\ pc' = "discard" /\ UNCHANGED round
       ELSE AfterRecovery(FALSE) /\ UNCHANGED <<stateVars, recovery, views>>
    /\ UNCHANGED <<writerVars, staged, blobs, members, replies, proved, faults>>

(* PeerSet::rearm acts on a retired peer only, and this one is quarantined. *)
rearm(m) == IF m.health = "retired" THEN [m EXCEPT !.health = "ready", !.due = TRUE] ELSE m

(* The staged bytes go in a transaction of their own; then the peer's       *)
(* frontier is moved up.                                                    *)
Discard ==
    /\ pc = "discard"
    /\ staged' = NoStage
    /\ members' = [members EXCEPT !["primary"] = rearm(Committed("primary", serial))]
    /\ AfterRecovery(TRUE)
    /\ UNCHANGED <<writerVars, stateVars, recovery, blobs, views, replies, proved, faults>>

-----------------------------------------------------------------------------
(* Then the blobs: those of an installed checkpoint before the journal's.   *)

FirstOf(set) == {b \in set : Cardinality({c \in set : c < b}) < PageLimit}

EndCycle == pc' = "idle" /\ round' = Idle

(* pull_checkpoint_blobs: one page.  A complete page moves the cursor, and  *)
(* the last one lets the cycle go on.                                       *)
PullCheckpoint ==
    LET page == FirstOf(recovery.left)
    IN  /\ pc = "blobs" /\ recovery # NoRecovery
        /\ \E got \in SUBSET (page \ blobs) :
              /\ blobs' = blobs \cup got
              /\ IF page \subseteq blobs'
                 THEN IF page = recovery.left
                      THEN pc' = "rebuild" /\ UNCHANGED <<recovery, round, faults>>
                      ELSE /\ recovery' = [recovery EXCEPT !.left = @ \ page]
                           /\ EndCycle /\ UNCHANGED faults
                 ELSE Fault /\ EndCycle /\ UNCHANGED recovery
        /\ UNCHANGED <<writerVars, stateVars, staged, views, members, replies, proved>>

(* replace_checkpoint rebuilds the search index at the current serial. *)
Rebuild ==
    /\ pc = "rebuild"
    /\ \/ /\ views' = [views EXCEPT !.search = Max({@, serial})]
          /\ pc' = "advance" /\ UNCHANGED <<round, faults>>
       \/ Fault /\ EndCycle /\ UNCHANGED views
    /\ UNCHANGED <<writerVars, stateVars, staged, recovery, blobs, members, replies, proved>>

advance_checkpoint_blob_recovery ==
    /\ pc = "advance"
    /\ recovery' = NoRecovery
    /\ views' = [views EXCEPT !.blob = recovery.serial]
    /\ pc' = "blobs"
    /\ UNCHANGED <<writerVars, stateVars, staged, blobs, members, replies, round, proved, faults>>

(* The journal records the blob view looks at next. *)
Outstanding ==
    LET first == Max({floor, views.blob + 1})
    IN  {i \in first..serial : i < first + PageLimit}

(* pull_outstanding: each missing blob is fetched, left to a remote peer    *)
(* that proves it serves it, or still missing.  A loss that a retry cannot  *)
(* mend ends the cycle ahead of the frontier and drops the evidence.        *)
PullTail ==
    /\ pc = "blobs" /\ recovery = NoRecovery
    /\ \E got \in SUBSET (Outstanding \ blobs) :
       \E remote \in SUBSET ((Outstanding \ blobs) \ got) :
          /\ blobs' = blobs \cup got
          /\ proved' = proved \cup remote
          /\ \/ /\ pc' = "frontier" /\ round' = [round EXCEPT !.evidence = remote]
                /\ IF Outstanding \subseteq blobs \cup got \cup remote THEN UNCHANGED faults ELSE Fault
             \/ ~(Outstanding \subseteq blobs \cup got \cup remote) /\ Fault /\ EndCycle
    /\ UNCHANGED <<writerVars, stateVars, staged, recovery, views, members, replies>>

(* advance_blob_frontier: up to the first record with an unavailable blob.  *)
AdvanceFrontier ==
    LET missing == Outstanding \ (blobs \cup round.evidence)
        reach == IF missing # {} THEN Min(missing) - 1 ELSE Max(Outstanding \cup {views.blob})
    IN  /\ pc = "frontier"
        /\ views' = [views EXCEPT !.blob = Max({@, reach})]
        /\ EndCycle
        /\ UNCHANGED <<writerVars, stateVars, staged, recovery, blobs, members, replies, proved,
                       faults>>

-----------------------------------------------------------------------------

(* A search brings a stale index up to the current serial (ensure_current). *)
Search ==
    /\ views.search < serial
    /\ views' = [views EXCEPT !.search = serial]
    /\ UNCHANGED <<writerVars, stateVars, staged, recovery, blobs, cycleVars, proved, faults>>

(* The store survives a restart; the peer set and the cycle do not. *)
Restart ==
    /\ Fault
    /\ members' = Joined(serial)
    /\ pc' = "idle" /\ replies' = [p \in Peers |-> NoReply] /\ round' = Idle
    /\ UNCHANGED <<writerVars, storeVars, proved>>

Cycle ==
    \/ \E elapsed \in SUBSET Waiting : StartCycle(elapsed)
    \/ Settle \/ ApplyBatch \/ EndRound
    \/ \E p \in Peers : Answer(p)
    \/ SkipRecovery \/ StartTransfer \/ StageChunk \/ ChunkRefused \/ Install \/ Discard
    \/ PullCheckpoint \/ Rebuild \/ advance_checkpoint_blob_recovery
    \/ PullTail \/ AdvanceFrontier

Next ==
    \/ Write \/ publish_checkpoint \/ PinLapses \/ RelayFollows
    \/ Cycle
    \/ \E p \in Peers : Lost(p)
    \/ RecoveryFails \/ Search \/ Restart

Spec == Init /\ [][Next]_vars

(* The replica's task runs its cycle for ever, every delay ends, the        *)
(* primary's retention task comes round and the relay's own task runs.      *)
Asks(p) == \E elapsed \in SUBSET Waiting : p \in elapsed /\ StartCycle(elapsed)

FairSpec ==
    /\ Spec
    /\ WF_vars(Cycle)
    /\ \A p \in Peers : SF_vars(Asks(p))
    /\ WF_vars(publish_checkpoint)
    /\ WF_vars(RelayFollows)

-----------------------------------------------------------------------------

(* The replica's rows are those the writer had at the replica's serial, and *)
(* so is every checkpoint the writer publishes, whatever pages, transfers,  *)
(* refusals and restarts led there (apply_page, replace_state,              *)
(* publish_checkpoint).                                                     *)
StateIsFold ==
    /\ rows = Applied(Empty, 1..serial)
    /\ published.rows = Applied(Empty, 1..published.serial)

(* readable_frontier: the slowest of the store and the required views. *)
readable_frontier == Min({serial, views.search, views.blob})

(* holds_below_readable_frontier: a hosted page carries the store's serial. *)
Serves == readable_frontier >= serial

(* A replica that answers reads holds, or has found at a peer, the blob of  *)
(* every row it serves ("reads cannot name absent bytes", ReplicaLoop::     *)
(* cycle).                                                                  *)
ReadableIsBacked == Serves => (Range(rows) \ {0}) \subseteq blobs \cup proved

(* The cursor of a peer is past what the store holds: a checkpoint has      *)
(* taken the store back, and commit does not follow.                        *)
Overtaken == \E p \in Peers : members[p].frontier > serial

(* Once the writer stops, the replica reaches its last change with every    *)
(* blob, through refusals, checkpoints, failures and a restart, unless it   *)
(* stays overtaken for ever (ReplicaLoop::run).                             *)
CatchesUp == <>[]~Overtaken => <>[](serial = head /\ views.blob >= serial)

(* A round that ends, well or not, leaves every drained peer at the last    *)
(* committed serial ("after resetting all drained peers to the last         *)
(* committed serial", pull_round).                                          *)
DrainedAreReset ==
    [][EndRound => \A p \in Peers : Drained(p) => members'[p].frontier = serial]_vars
=============================================================================
