# Verification of peryx

TLA+ modules for the parts of peryx whose correctness depends on the order in which things happen: the
availability group's ownership state, leases, transfers and control commands, the store of a consensus member,
the job scheduler, the ledgers behind a hosted write, webhook deliveries and read replicas. TLC checks the modules
on small instances; TLAPS proves the main safety properties for every value of the constants. `PROJECT.json` lists
components, runs, mutants, the map from definitions to source lines, findings, hazards and theorems.

To check: `tlc -config WriteLease.cfg MCWriteLease` (and so on, one line per run of `PROJECT.json`) and
`tlapm <module>.tla` for each module whose name ends in `Proofs`.

## The system

peryx is a package index and registry server (PyPI and OCI) in Rust, about forty crates. Its parts, by what
state they keep and what changes it:

| Part | State | Operations | Hard behaviour |
|---|---|---|---|
| Authority ownership (`peryx-ha-distributed/ownership.rs`, `consensus_runtime.rs`) | per authority: home, epoch, write leases | assign, transfer, advance, forget, begin/finish write | commands applied late or after their caller gave up; clocks that disagree |
| Metadata mutations under a lease (PyPI `mutate.rs`, `finalize.rs`, `post.rs`; OCI `registry/authority.rs`) | the request's epoch and lease | claim or snapshot, lease, check, commit, release | a transfer between check and commit |
| Cluster-singleton leases (`ownership.rs`, `jobs/scheduler.rs`) | grant: holder, term, generation, deadline | acquire, renew, release, lapse | crash, lost answers, late renewals, leader change |
| Control commands (`control.rs`, `consensus_runtime.rs`) | receipt cache per process, replicated window | claim, settle, release, replay, age out, evict | retries on two nodes, membership changes that time out and commit |
| Transfer audits (`authority_transfer.rs`) | audits stored per voter, projectors still owed | project, complete, recover | crash between commit and store; membership changes |
| Planned transfers (`authority_transfer.rs`, `transfer.rs`) | plan, phase, abandonment window | plan, probe, commit, cancel | cancel racing commit |
| Raft storage (`raft/`) | log, snapshot, applied state | append, truncate, build, install, restart | crash between steps; snapshots stored out of order |
| Job scheduler and attempts (`peryx-driver/jobs`, `meta/job.rs`) | conflict keys, permits, attempts | submit, run, cancel, shutdown, recover, prune | shutdown racing admission, failed writes, crash mid-recovery |
| Ingress intents and outcomes (`meta/ingress_intent.rs`, `finalize.rs`, `operation_outcome.rs`) | staged uploads, outcomes | stage, claim, finalize, reap | crash between publish and acknowledgement |
| Quota (`meta/quota.rs`) | usage counters, reservations | reserve, commit, release, repair | two uploads at the limit, shared digests |
| Webhook outbox (`peryx-events/webhook`, `meta/webhook.rs`) | events, queued deliveries, deadlines | fan out, send, retry, dead-letter | restart mid-delivery, refused results |
| Replica sync and checkpoints (`replica*.rs`, `multi_pull.rs`, `blob_plane.rs`, `meta/journal.rs`, `meta/checkpoint*.rs`) | journal, frontiers, checkpoint, blobs | page, apply, stage, install, recover | gaps, pruning under a slow replica, lapsed leases |
| Write acknowledgement (`write_ack.rs`, `receipt_quorum.rs`, ...) | receipts per datacenter | gather, time out | late receipts |
| Placement and reclamation (`blob_placement.rs`, `reclaim*.rs`, `copy_runtime.rs`) | placements, guards, tombstones | plan, report, mark | reclaim racing a new reference |
| Peer liveness (`liveness.rs`, `circuit.rs`, `backoff.rs`) | per peer state | call, fail, probe | concurrent probes |
| Blob store (`peryx-storage/blob`) | staged and committed blobs | stage, commit, delete | two writers of a digest |
| OCI upload sessions, PyPI page cache | sessions, cached pages | open, append, finish; fetch, revalidate | concurrent chunks, stale pages |
| Policy, retention, PQL, index resolution | none | pure evaluation | precedence at the edges |
| Rate limiting, upstream retries | buckets, budgets | take, refill | boundaries |
| Identity, HTTP, CLI, configuration, backup, search, web, metrics | records, files, views | request handling | mostly single-step |

How they meet: every mutation of an authority goes through its write lease; every lease, singleton grant and
keyed control command is an entry of one replicated log, which each member keeps in its Raft store; the scheduler
runs the maintenance jobs of all other parts and fences the cluster-wide ones by singleton leases; a transfer
coordinator drives the moves of an authority, and every move leaves an audit at every voter. A hosted upload
reserves quota, stages an intent, publishes under its lease, settles the intent and tells the webhooks; replicas
follow the journal those transactions write.

## Modules

| Module | What it is |
|---|---|
| `LeaseClock` | the clocks and margins that both kinds of lease are read on |
| `OwnershipState` | the authority commands of `OwnershipState::apply`, as operators from a record to a record and an effect |
| `WriteLease` | requests, operators and consensus around those commands |
| `CommitWindow` | what write leases promise, with no clock, lease or log: the abstract specification `WriteLease` implements |
| `SingletonLease` | one singleton grant and the schedulers that compete for it |
| `ControlGroup` | the nodes the next two modules have in common |
| `ControlWindow` | keyed control commands, the cache in front of them, transfer audits |
| `TransferCoordinator` | planned moves, their drivers and their cancellations |
| `RaftStore` | log, applied state and snapshots of one consensus member |
| `JobScheduler` | admission, permits, attempts, shutdown, crash and recovery |
| `QuotaLedger` | the quota tables, one operator per transaction; used by the three modules below |
| `QuotaStore` | the ledger as its callers drive it |
| `IngressIntents` | intent and outcome ledgers, one operator per transaction |
| `OciBlobPush` | blob commit, mount, deletion and both finalizers, on all four ledgers |
| `PypiUpload` | upload, its finalizer, the placement repair and the reaper |
| `WebhookOutbox` | outbox, queue, deadlines and the delivery worker |
| `ReplicaSync` | a replica, its two peers, checkpoints and the blob plane |
| `LeaseProofs` | theorems about `WriteLease` and `SingletonLease` |
| `ControlPlaneProofs` | theorems about `TransferCoordinator` and `ControlWindow` |
| `StoresProofs` | theorems about `RaftStore` and `WebhookOutbox` |
| `JobSchedulerProofs`, `ReplicaSyncProofs`, `OciBlobPushProofs` | theorems about the module of that name |
| `QuotaProofs` | theorems about `QuotaStore` |
| `HostedWriteProofs` | theorems about `PypiUpload` |
| `MC...` | instances for TLC; `MCStores` composes `RaftStore`, `QuotaStore` and `WebhookOutbox` |

An operator whose comment starts "Deliberately wrong variant" is a plausible mistake in the definition that
follows it. It is used by no specification: put in place of that definition it makes TLC report the property
named with it under "mutants", which shows that the property depends on the code.

### WriteLease

`records` is the replicated map, `log` the commands that entered consensus and are not yet applied, `req` the
handler of each write request, `now` true time, `forgets` a history counter. A publish claims a home (`Claim`);
yank, delete, restore, promote and finalize only read the epoch of the local replica, which may lag, so `Snapshot`
takes any epoch. A command is stamped by the leader's clock as it enters the log (`raft/node.rs`); clocks differ
by at most `Drift`. `GiveUp` is the client write that times out, whose command stays in the log. `CheckLease` is
`AuthorityWriteLease::admits` at the head of the transaction, `EndTxn` its end at any later time, `SubmitFinish`
the release. `SubmitOperator` and `ApplyOperator` are transfer, advance and forget. A command may stay in the log
for ever, which is a lost one.

Consensus is openraft, outside the repository: the log is taken to apply each command at most once, in one
order. What the transaction writes is not modelled here, only when it may commit.

### SingletonLease

`grant` is the `SingletonRecord`, `run` the scheduler of each process incarnation, `term` the leader's term; a
request is in `net`, enters `entries` stamped by the leader, and is applied or lost. The scheduler's steps follow
`claim_singleton`, `renew_lease`, `run_persisted` and `SingletonRun::finish`; `Crash` ends a holder, whose name is
never used again (`new_holder`).

### ControlWindow

`window` is the replicated `controls`, `cache` the receipts each process keeps, `handler` the control request it
serves, `stored` the audits in its metadata store, `moves` a history of decided transfers. A transfer is decided
and receipted in one entry; a membership change is claimed first, executed by consensus itself, and settled or
released after. `ReplayCached`, `Evict`, `Abandon` and `CrashNode` are the process cache; `project` and
`recover_transfer_audits` the audits. Entries of this window carry the submitter's reading, and a membership change
the roster its submitter planned from the voters it saw. `ReplaceVoter` first adds its learner, an entry that
changes no voter and mints no receipt; only its second entry is modelled.

### TransferCoordinator

`plan` holds every move ever started, by number, with its phase and where its driver is; `running` is the
coordinator's registry, `abandoned` its window of moves that did not happen, `log` and `decided` consensus. A
driver probes the target until it has the coordinator's serial of the moment the move was asked for (`barrier`),
claims the commit under the plan's lock and submits it without. `Cancel`, `CancelPlan` and `Signal` are a
cancellation request, which races all of this; `ClientGone` is a dropped request future, `Crash` a process exit.

### RaftStore

`log`, `purged`, `saved` and `reserved` are on disk, the rest is memory a restart rebuilds. A snapshot is taken
under the state lock, then stored by a task without it (`tasks`), so several are on their way at once; each
carries a rank so that a late one does not replace an earlier-finished later one. An entry is its index, a state
the number of entries replayed into it, so "the state at position k" is k.

### JobScheduler

A task is one submission; which permits it holds follows from its `pc`. `Submit` is the cancellation check, before
the lock; `Admit` what happens under it; `Spawn` the tracked spawn after it. `AcquireWorker`, `AcquireKind`,
`AcquireScope` are the three waits of `run_admitted`, `Execute` to `Leave` the rest of it. `runs` is the attempt
history, `unclosed` the attempts whose closing write failed in this process. `Prune` is one batch of
`JobHistoryCleanup`, `recover_interrupted_job_run_batch` one of the start-up recovery. Permits are dropped in one
step at `Leave`; the code drops them one after the other without an await. The fence is left open here (a run may
be refused, may lose its lease, may have its success rejected): `SingletonLease` says when.

`Owner` chooses who owns the scheduler: "server" follows `process.rs`, which stops without calling
`JobScheduler::shutdown` and recovers attempts at start; "client" stands for any owner that calls `shutdown` before
it exits, as `run_node_job` does, and may do so while other callers submit.

### QuotaLedger and QuotaStore

A ledger is one record of the six quota tables; every operator is one write transaction and maps the ledger before
it to the one after. Counters have a committed and a reserved part and a largest value, `MaxU64`. `QuotaStore`
drives the operators: reserve, commit with driver rows, replace, delete, release, and both repairs.

### IngressIntents, OciBlobPush, PypiUpload

`IngressIntents` has the intent tables in the same style, and the operation outcomes. `OciBlobPush` and
`PypiUpload` run requests, finalizers and maintenance over the ledgers with every await a place where the future
may be dropped and every step a place where the process may restart. The write lease appears as its verdict. In
`OciBlobPush` a retention period outlasts a request; in `PypiUpload` nothing is assumed of durations, so the reaper
may take the intent, the operation or the reservation of a request that is still running. A publish that finds its
reservation gone discards its transaction and fails.

### WebhookOutbox

`outbox`, `queue` and `due` are tables, `worker` the delivery loop with its sends in flight, targets busy, results
held because the store refused them, and the reasons for its next scan. Deadlines pass in any order. The store may
fail and the process may stop at any step, `MaxFaults` times in all.

### ReplicaSync

The replica's cycle is a sequence of steps: start, ask each peer for a page, drain the set in order, apply,
commit the frontiers or go for a checkpoint (pin, stage, install), then work on the blob plane. The primary writes, publishes
checkpoints and drops the journal below them; the relay follows it and serves its own journal. `pin` is the lease
on a checkpoint being read. A transfer is installed when what its chunks decode to has the manifest's digest, and
else the recovery fails. A blob loss that a retry cannot mend ends the cycle before the blob frontier moves. Failed
calls, lapsed leases and restarts are counted together by `MaxFaults`.

## Runs

Passing:

| Run | Shows |
|---|---|
| `write_lease` | with two racing writers and clocks that disagree, a commit within `CommitBound` of its lease check happens under the current epoch, a publish at home, and the protocol implements `CommitWindow` |
| `singleton_lease` | no two holders at once; a run counts only if nobody else was granted the job meanwhile |
| `control_window` | a mover is answered with its own receipt; no voter loses the audit of the first move under a key; a committed receipt keeps its key until it ages out; a keyed transfer is decided once per window, less clock drift and delay |
| `job_server` | one scope is never swept beyond its limit; open attempts are runs in progress; every admitted job is answered; attempts a process left open are closed in the end, also when recovery is interrupted |
| `job_owner` | runs of one kind and scope never overlap; after a shutdown that returned in time nothing runs, not even a submission it raced; callers are told what the history says, beside the cleanup |
| `transfer` | a plan whose cancellation was answered with Ok never moves anything; a move waits for its barrier; a run comes to its end |
| `stores` | *Raft store:* what was purged is covered by a snapshot, state and position belong together, two builds never share an identifier, the stored snapshot never goes back. *Quota:* the counters are the sums over the reservations, limits are never exceeded, no counter passes `MaxU64`, every allocation key names a live reservation. *Webhooks:* the queue, its deadlines and the work in hand agree, a target's deliveries go in turn, attempts are bounded, and every committed event is delivered or given up on |
| `oci_push` | the three intent tables stay in step; a finalizer settles only what was published |
| `pypi_upload` | a file name keeps its bytes; the project is charged for exactly what it serves; a pending reservation has exactly one request in flight, whose bytes it is for; a settled intent is served. The reaper runs between any two steps |
| `replica` | a replica's rows are the writer's at its serial; it serves only rows whose blobs it can reach; it catches up, unless a checkpoint took its store back behind a peer's frontier for good, which is what `replica_reset` is about |

Violations, each a place where the repository says one thing and the code does another:

| Run | The counterexample |
|---|---|
| `pypi_answer` | an upload of other bytes, interrupted, is settled as published by the finalizer, which looks for the file name and not for the digest; its retry is answered as a success while the file serves the first bytes |
| `replica_reset` | a checkpoint older than what a relay delivered takes the store back; a failed round leaves the relay's frontier above the committed serial, which the comment at `multi_pull.rs:29` rules out |

Other places where words and code part, or that a maintainer may want to know, seen while modelling:

- `forget` removes the record, so the next claim counts from epoch 1 again and an older lease of epoch 1 matches:
  `PublishAtHome` therefore excepts an authority forgotten since the publish claimed. The head of `authority.rs`
  says "Exact matching prevents a restarted former home from mutating state after an authority transfer."
- A yank, delete, restore or finalize leases the epoch it read, at whatever member it runs; `contracts.md` says
  "writes at a non-home HA node return `503 Service Unavailable`". `PublishAtHome` speaks of publishes only.
- Nothing bounds the time from the lease check to the commit: `FencedCommit` speaks of commits within
  `CommitBound`, where `registry/authority.rs` says "an expired writer cannot commit after a transfer".
- A receipt in a process's cache does not age; `listener.md` says "a key that ages out of that window is submitted
  again". Replaying an aged key from a cache projects the old audit and strikes the node off a newer one's list,
  so `AuditRetained` speaks of the first move under a key.
- A settlement fills the unsettled record of its key whatever command that record is bound to, which
  can be another one if the first aged out.
- An orderly server stop leaves the attempt of a job in flight open; the next start closes it.
- A transfer request whose client goes away leaves its plan registered: the authority is busy until the process
  restarts, since a cancellation marks the plan and nobody retires it.
- OCI: a push that staged under an intent which is pruned and staged anew settles the newer one; deleting a blob
  or repairing at startup releases the reservation of a retained intent, which a later sweep then publishes
  uncharged; a fence after the charge leaves the blob accounted and absent; a sweep brings back a blob deleted
  between its membership commit and its settle.
- PyPI: a fresh stager that fails releases an intent a concurrent duplicate has joined; refusals during a slow
  store can expire an intent whose row is stored later; a replayed finalization leaves the intent pending until
  the outcome is pruned.
- Webhooks: an event whose notification is lost (a refused acknowledgement, a dropped request) waits in the outbox
  for the next notification, wake-up or restart.
- Replicas: after the reset of `replica_reset`, every round ends in `SerialGap` until the relay misses a round or
  the replica restarts. The readable frontier drops by one at each repeated install, where `observability.md`
  says "The frontier is durable and monotonic". `CheckpointRequired` quarantines the peer, so `rearm` does nothing
  and the checkpoint is installed again every cycle until the quarantine ends.
- Quota: the resource, blob and group reference counters are checked for overflow on the reserved part only.

### Bounds

Two writers, datacenters, holders, nodes, uploads or durable jobs are enough for every race of these modules, each
being between one actor and a rival. In the lease runs time reaches the expiry of a first lease plus the margin
after it, so a lease is granted, used, lapses and is superseded; the runs do not reach the lapse of a second one.

| Run | Instance | Distinct states |
|---|---|---|
| `write_lease` | 2 writers, Skew 1, LeaseSecs 2, Drift 1, CommitBound 1, MaxTime 3, MaxInFlight 1, MaxEpoch 2, MaxForgets 1 | 1,635,436 |
| `singleton_lease` | 2 holders, Drift 1, MaxTime 2, MaxInFlight 2, MaxGeneration 2, MaxTerm 2 | 1,026,616 |
| `control_window` | 2 nodes, 1 key, MaxInFlight 2, MaxTime 2, MaxIndex 2, and either "delayed" (Window 2, Drift 0, MaxDelay 1, a move and a membership change) or "drifting" (Window 3, Drift 1, MaxDelay 0, moves) | 1,561,025 |
| `job_server` | 2 durable tasks, Batch 1, Retain 1, MaxRuns 3, MaxStops 2 | 10,326 |
| `job_owner` | 3 tasks, one a cleanup, PerKind 2, PerScope 2, MaxRuns 3, MaxStops 1 | 686,808 |
| `transfer` | 2 nodes, 1 authority, 1 identity, Budget 2, Retained 1, MaxPlans 2, MaxSerial 1 | 211,139 |
| `stores` | MaxIndex 3, MaxTasks 2, MaxTaken 3; 3 reservations of 9 request shapes, MaxU64 5, RepairBatch 2; 2 events, 2 targets, MaxConcurrent 2, MaxAttempts 2, MaxFaults 2 | 170,544 |
| `oci_push` | 1 push, 2 finalizers, 2 reservations, max_records 1, max_bytes 3, MaxRefusals 1, MaxStaged 2, DrainBatch 1 | 613,572 |
| `pypi_upload` | 2 uploads, 1 finalizer, 3 reservations, MaxStaged 2 | 473,644 |
| `replica` | 3 changes to 2 rows, the relay before the primary, PageLimit 1, MaxGeneration 1, MaxFaults 1 | 765,594 |

`control_window` takes delay and drift in turn because both at once need a longer time line; its theorems have
both. `MaxU64` is just above the sums that fit, so a counter can overflow. The code's batches of 128 and 10,000
differ from 1 only in size. The three stores of `stores` share nothing, so each behaviour moves one of them
(`part`). `oci_push` has one push at a time, which is retried after it failed or was dropped, and one retained
intent; `IntentsConsistentAlways` and `FinalizersSettlePublished` are proved for any number of both. `replica` has
one fault per behaviour, at any step; its two safety theorems bound neither faults nor generations nor the order
of the peers, and `replica_reset` takes the primary first. Symmetry is used over writers, holders, finalizers,
uploads, reservation ids and rival distributions; never with liveness. Deadlock checking
is off where time or the number of requests is bounded, and for a scheduler that has been shut down.

### Fairness

- `JobScheduler`: a spawned task is polled by the runtime and a job body ends (weak fairness on each task's own
  steps); tokio's semaphores queue their waiters in order, so a waiter is not passed over for ever (strong fairness
  on the three acquisitions); a stopped server is started again and its recovery runs (weak fairness).
- `TransferCoordinator`: probes, polls and submissions end in an answer or a timeout, and a cancellation is served
  by a task of its own (weak fairness on the steps of a plan and of a cancellation).
- `WebhookOutbox`: the worker's loop runs and its sends end (weak fairness of `Work`); deadlines pass (of `Pass`).
- `ReplicaSync`: the replica's cycle and the primary's and the relay's tasks run (weak fairness); a peer's backoff
  ends and it is asked again, though it may be put off in between (strong fairness of `Asks`).

Nothing is assumed of crashes, shutdowns, cancellations, submissions, faults or clients.

## Proofs

Every safety property and every action property of a passing run is a theorem, and so is that `WriteLease`
implements `CommitWindow`. The theorems hold for every value of the constants under the named assumptions of the
modules. Each is proved from an inductive invariant, with one lemma per action.

A module of proofs may cover two specifications, which then share no name: their specification formulas
are `SingletonSpec`, `WindowSpec`, `QuotaSpec` and `WebhookSpec` in `SingletonLease`, `ControlWindow`,
`QuotaStore` and `WebhookOutbox`, and `Spec` elsewhere. Where a specification assumes of its constants what its
operator `Configured` says, the lemmas have `Configured` as a hypothesis and the theorems cite the assumption.

*WriteLease* (`OwnershipAssumption`, `LeaseAssumption`). The assumption that matters is
`Drift + CommitBound <= 2 * Skew`: the two margins cover the clocks' disagreement and the transaction's length.
`FencedCommit` is not inductive. The invariant adds that leases on record carry the record's epoch
(`LeasesCurrent`), that commands in flight carry readings a clock can show by now and belong to the handler's current
step (`InFlight`), that a granted lease is on record or its expiry plus the skew has been reached by some clock
(`LeaseStands`), and that a passed check was a skew before expiry (`CheckPassed`). The last two give
`CommitsAreFenced`: were the lease gone, true time would be more than `CommitBound` past the check.
`PublishesCommitAtHome` adds that a publish still presenting the current epoch presents it from the home.
`LeasesImplementWindows` maps the open transactions to windows: a step that changes an epoch under an open window
would give that window two epochs, which the invariant excludes in both states.

*SingletonLease* (`SingletonAssumption`). `HoldersNeverOverlap` and `CountedRunsAreOwned` need `Drift <= Skew` and
nothing of delays, since the leader stamps a request as it enters the log. `RunsTyped` and `GenerationsAreOwned` (a
generation never changes hands) need no such hypothesis. The invariant relates what a holder was told to the committed deadline
(`Standings`): either the grant still stands with at least that deadline, or it lapsed by some clock.

*ControlWindow* (`WindowAssumption`). `ReceiptHolds` is a property of steps and follows from the record operators.
For `OnceInWindow` the invariant says of every decided move that its record still stands or its window is over
(`Standing`), which needs that readings in flight are neither ahead of the clocks nor older than the delay
(`NetOK`), and that records, caches and handlers carry receipts of the command they are bound to (`RecordsOK`,
`CacheOK`, `HandlersOK`). `HeldOK`, from which `AuditsAreRetained` follows, says that a projector is struck off only
by an entry sent after it stored the audit.

*TransferCoordinator* (`TransferAssumption`). `CalledOffPlansNeverMove` needs that the phase of a plan follows its
driver (`PlansOK`), that a command in the log is of a claimed plan whose driver has had no answer (`LogOK`), and, for
a cancellation answered from the abandonment window, that the last retired plan of every authority named there
moved nothing (`WindowOK`). `MovesWaitForTheBarrier` uses that serials only grow.

*RaftStore* (`StoreAssumption`). `PurgedEntriesAreCovered`, `StatesAreReplays` and `SavedNeverGoesBack` rest on the
order of ranks: what is published or on disk is at least as far as every snapshot handed out (`RanksOK`, `HandedOK`).
`SnapshotIdsAreFresh` is the hard one. Its invariant (`NamedOK`) says that an identifier that went out is behind
what the next build takes in this process, after a restart, and after a restart from any snapshot still on its way
to the disk.

*JobScheduler* (`SchedulerAssumption`). The invariant says that admitted runs hold different conflict keys, that
shutdown cancels before it waits, that an attempt has one task and its state follows that task's progress, and
that open attempts of a live process are spoken for. `TypeCorrect`, `SameJobNeverOverlaps`, `ShutdownIsFinal`,
`OpenAttemptsRun` and `CallersKnowHistory` follow. That recovery leaves nothing open rests on `LastBatch`: a batch
that is not full took everything, because the least element left out would have had room.
`ScopesStayBounded` counts the tasks that hold a scope's permit (`ScopesFit`), whose states are more than the
running ones `ScopeBounded` counts; finitely many tasks are assumed for it.

*ReplicaSync* (`ReplicaAssumption`). `ReplicaStateIsFold` needs that replies in hand were cut from the writer's
history and continue where the peer's frontier is (`PagesOK`), and that a staged transfer is a checkpoint the writer published (`StagedOK`).
`ReadableRowsAreBacked` needs that below the blob frontier every row's blob is held or was found at a peer,
and between an install and the end of its recovery that whatever is not is still on the list to look for
(`BlobsOK`), which is where the frontier's drop at an install matters.

*QuotaStore* (`LimitAssumption`, `RequestsValid`). The invariant `Ledger` says that the tables have their shape and
the counters are what a scan of the reservations would count (`Sound`), that totals are within width and limits
(`Capped`), and that the deletion index names committed reservations (`Allocated`). Most of the module is about
`Sound`: how the sum over a finite set changes when one summand comes, goes or changes; how a counter that takes
every reservation (`Split`) and one that takes every shared key once, under its strongest holder (`Shared`), change
when one reservation is added, committed or removed; and that `adds`, `transition` and `rebalance_or_remove` write
exactly those changes. `CountersExact`, `LimitsEnforced` and `AllocationsCommitted` follow.
`TotalsStayInRange` also assumes that no more reservations can be live than a counter counts, because the code checks
the reserved part of the reference counters only.

A sum is a fold, and induction over data is out of reach here, so the lemmas on sums take another way: a table of
all the sums over the subsets of a set exists (`SummingExists`, by the least size for which there would be none), two
such tables agree (`SummingAgree`, by a smallest subset on which they would not), and the library's fold is one of
them. `OciBlobPushProofs` repeats these lemmas, since the two modules extend specifications with variables of the
same names.

*PypiUpload* (`LimitAssumption`, `RequestsValid`, `UploadAssumption`). `ChargedAsServed` and `SettledIsServed` are
conjuncts of the invariant. It adds that a request has the id of a reservation exactly while it stores and
publishes and shares it with nobody, that what is pending under it, unless the reaper took it, is for its own
digest, and that nothing else is pending (`Holdings`, from which `ReservationsAreHeld` follows); and that whoever is
about to settle, a request or a pass, has seen a row of the file (`RowsSeen`); rows are never removed, so what was
seen still stands. `UploadsImmutable` is a property of steps: only `Publish` writes a row, and it reads the row it
would replace.

*OciBlobPush* (`LimitAssumption`, `RequestsValid`, `PushAssumption`). `IntentsSound` says that every intent has a
number of its own below the next one, that the order index holds exactly the pending ones, each under its number, and
that an authority's counters are the number and the bytes of its intents; each transaction of `IngressIntents`
keeps it. For `FinalizersSettlePublished`, `PassesOK` says that what a pass has queued or in hand is still staged
and that the digest of a pass about to settle has landed since its intent was staged. A fresh intent of that digest
would clear the latter, but there is none while the old one is staged, and the retention period keeps it staged
until the pass is done. What a pass lists is a sequence chosen to ascend; that there is one (`OrderExists`) is shown by a smallest set without.

*WebhookOutbox* (`WebhookAssumption`). `DeliveriesExact` is a conjunct of the invariant. `DeliveriesInTurn` follows
from `ActiveOK`: what is in flight, and what has a result that the store refused, is queued with the attempts the worker
knows, and no two of those go to one target. `DeliveriesBounded` follows from `SentOK`: a delivery was sent as often as
the queue says, and once more while it is active.

Only model-checked are the liveness properties (`AdmittedAreAnswered`, `InterruptedAreClosed`, `RunsEnd`,
`DeliveriesSettle`, `CatchesUp`), since fairness and ENABLED are outside what the prover handles.

## Not modelled

At all: the components with that status in `PROJECT.json`, with the reason there. In the modelled ones: the
consensus protocol (openraft), what a metadata transaction writes beyond the ledgers, provenance bundles, manifests
and the chunks of an upload session, page caching, the schedule timer's heap and the bodies of jobs other than the
history cleanup, peers of another source or version. Distributed reclamation only writes tombstones; the orphan
purge that deletes bytes is a command for a store without replicas. Most of the repository's lines are parsing,
rendering, HTTP and command-line wiring, the web interface and test support, which have no state to interleave, so
the modules stand for a small share of the lines.
