---------------------------- MODULE JobScheduler ----------------------------
(* The node-local job scheduler (peryx-driver, jobs/scheduler.rs) and the  *)
(* durable attempt history it writes (jobs/attempts.rs, peryx-storage      *)
(* meta/job.rs), with the process around them.  A task is one submission;  *)
(* it holds what its `pc` says it acquired, so permits are not variables.  *)
(* What a run's fence decides is left open here; see SingletonLease.       *)
EXTENDS Naturals, Sequences, FiniteSets

CONSTANTS
    Tasks,      \* callers that submit, one job at a time each
    KindOf,     \* per task, its job's kind
    ScopeOf,    \* per task, its job's scope
    Durable,    \* the tasks whose job is persisted
    Cleaners,   \* the tasks that run JobHistoryCleanup
    Owner,      \* "server": process.rs; "client": an owner that calls shutdown
    Workers, Queue, PerKind, PerScope,  \* JobLimits
    Retain,     \* attempts the cleanup keeps
    Batch,      \* JOB_RETENTION_BATCH
    MaxRuns,    \* bound on attempts
    MaxStops    \* bound on process exits

ASSUME SchedulerAssumption ==
    /\ IsFiniteSet(Tasks)
    /\ KindOf \in [Tasks -> STRING] /\ ScopeOf \in [Tasks -> STRING]
    /\ Durable \cap Cleaners = {}
    /\ Owner \in {"server", "client"}
    /\ Workers \in Nat \ {0} /\ Queue \in Nat \ {0} /\ PerKind \in Nat \ {0} /\ PerScope \in Nat \ {0}
    /\ Retain \in Nat /\ Batch \in Nat \ {0} /\ MaxRuns \in Nat /\ MaxStops \in Nat

VARIABLES
    mode,       \* the process: serving, draining, drained, expired, stopped, crashed or recovering
    cancel,     \* the scheduler's cancellation token
    inflight,   \* conflict keys of admitted runs
    task,       \* per task, where it is
    runs,       \* the attempt history; a run's id is its position
    unclosed,   \* attempts whose closing write failed in this process
    stops       \* process exits so far

vars == <<mode, cancel, inflight, task, runs, unclosed, stops>>

(* `run` is the attempt's id, 0 without one; `cancelled` its own token. *)
Out == [pc |-> "out", run |-> 0, cancelled |-> FALSE, outcome |-> "none"]

Init ==
    /\ mode = "serving"
    /\ cancel = FALSE
    /\ inflight = {}
    /\ task = [t \in Tasks |-> Out]
    /\ runs = <<>>
    /\ unclosed = {}
    /\ stops = 0

Up == mode \in {"serving", "draining", "drained", "expired"}

ConflictKey(t) == <<KindOf[t], ScopeOf[t]>>

(* The permits, by where a task is. *)
HasScope == {"ready", "fencing", "body", "closing", "settling", "releasing", "leaving"}
HasKind == HasScope \cup {"scope"}
HasWorker == HasKind \cup {"kind"}
Tracked == HasWorker \cup {"worker"}
HasSlot == Tracked \cup {"spawning"}

Holding(pcs) == {t \in Tasks : task[t].pc \in pcs}

Goto(t, pc) == task' = [task EXCEPT ![t].pc = pc]

Ends(t, pc, outcome) == task' = [task EXCEPT ![t].pc = pc, ![t].outcome = outcome]

-----------------------------------------------------------------------------
(* Admission.                                                              *)

(* The shutdown check, before the lock is taken.  A draining scheduler     *)
(* refuses.  MaxRuns bounds what may still become an attempt.              *)
Submit(t) ==
    /\ Up /\ ~cancel
    /\ task[t] = Out
    /\ t \in Durable =>
         Len(runs) + Cardinality({u \in Durable : task[u].pc # "out" /\ task[u].run = 0}) < MaxRuns
    /\ Goto(t, "admitting")
    /\ UNCHANGED <<mode, cancel, inflight, runs, unclosed, stops>>

(* Under the lock: Conflict, QueueFull or a conflict key and a slot. *)
Admit(t) ==
    LET full == Cardinality(Holding(HasSlot)) >= Queue
    IN  /\ Up
        /\ task[t].pc = "admitting"
        /\ IF ConflictKey(t) \in inflight \/ full
           THEN Goto(t, "out") /\ UNCHANGED inflight
           ELSE Goto(t, "spawning") /\ inflight' = inflight \cup {ConflictKey(t)}
        /\ UNCHANGED <<mode, cancel, runs, unclosed, stops>>

(* The task is spawned, and tracked, after the lock is dropped. *)
Spawn(t) ==
    /\ Up
    /\ task[t].pc = "spawning"
    /\ Goto(t, "worker")
    /\ UNCHANGED <<mode, cancel, inflight, runs, unclosed, stops>>

-----------------------------------------------------------------------------
(* run_admitted: permits in a fixed order, then the run.                   *)

AcquireWorker(t) ==
    /\ Up
    /\ task[t].pc = "worker"
    /\ Cardinality(Holding(HasWorker)) < Workers
    /\ Goto(t, "kind")
    /\ UNCHANGED <<mode, cancel, inflight, runs, unclosed, stops>>

AcquireKind(t) ==
    /\ Up
    /\ task[t].pc = "kind"
    /\ Cardinality({u \in Holding(HasKind) : KindOf[u] = KindOf[t]}) < PerKind
    /\ Goto(t, "scope")
    /\ UNCHANGED <<mode, cancel, inflight, runs, unclosed, stops>>

(* Deliberately wrong variant: the scope's permits are counted per kind. *)
AcquireScope_per_kind(t) ==
    /\ Up
    /\ task[t].pc = "scope"
    /\ Cardinality({u \in Holding(HasScope) : ConflictKey(u) = ConflictKey(t)}) < PerScope
    /\ Goto(t, "ready")
    /\ UNCHANGED <<mode, cancel, inflight, runs, unclosed, stops>>

(* Deliberately wrong variant: a waiter counts itself among the holders. *)
AcquireScope_self(t) ==
    /\ Up
    /\ task[t].pc = "scope"
    /\ Cardinality({u \in Holding(HasScope) \cup {t} : ScopeOf[u] = ScopeOf[t]}) < PerScope
    /\ Goto(t, "ready")
    /\ UNCHANGED <<mode, cancel, inflight, runs, unclosed, stops>>

AcquireScope(t) ==
    /\ Up
    /\ task[t].pc = "scope"
    /\ Cardinality({u \in Holding(HasScope) : ScopeOf[u] = ScopeOf[t]}) < PerScope
    /\ Goto(t, "ready")
    /\ UNCHANGED <<mode, cancel, inflight, runs, unclosed, stops>>

start_job_run == Append(runs, "Running")

(* Deliberately wrong variant: a cancelled scheduler still starts runs. *)
Execute_unchecked(t) ==
    /\ Up
    /\ task[t].pc = "ready"
    /\ \/ /\ t \notin Durable
          /\ Goto(t, "fencing") /\ UNCHANGED runs
       \/ /\ t \in Durable
          /\ runs' = start_job_run
          /\ task' = [task EXCEPT ![t].pc = "fencing", ![t].run = Len(runs) + 1]
    /\ UNCHANGED <<mode, cancel, inflight, unclosed, stops>>

(* A cancelled scheduler starts nothing; a durable run records its attempt *)
(* first, and fails if that write does.                                    *)
Execute(t) ==
    /\ Up
    /\ task[t].pc = "ready"
    /\ \/ /\ cancel
          /\ Ends(t, "releasing", "Cancelled") /\ UNCHANGED runs
       \/ /\ ~cancel /\ t \notin Durable
          /\ Goto(t, "fencing") /\ UNCHANGED runs
       \/ /\ ~cancel /\ t \in Durable
          /\ runs' = start_job_run
          /\ task' = [task EXCEPT ![t].pc = "fencing", ![t].run = Len(runs) + 1]
       \/ /\ ~cancel /\ t \in Durable
          /\ Ends(t, "releasing", "Failed") /\ UNCHANGED runs
    /\ UNCHANGED <<mode, cancel, inflight, unclosed, stops>>

(* acquire_fence: a claim may be refused, unless the job is node-local. *)
Fence(t) ==
    /\ Up
    /\ task[t].pc = "fencing"
    /\ \/ Goto(t, "body")
       \/ t \notin Cleaners /\ Ends(t, "closing", "Failed")
    /\ UNCHANGED <<mode, cancel, inflight, runs, unclosed, stops>>

(* An operator cancels an active attempt, or the run loses its lease. *)
CancelRun(t) ==
    /\ Up
    /\ \/ task[t].pc \in {"fencing", "body", "closing"} /\ task[t].run # 0
       \/ task[t].pc = "body" /\ t \notin Cleaners
    /\ task' = [task EXCEPT ![t].cancelled = TRUE]
    /\ UNCHANGED <<mode, cancel, inflight, runs, unclosed, stops>>

-----------------------------------------------------------------------------
(* JobHistoryCleanup.                                                      *)

Kept == {i \in DOMAIN runs : runs[i] # "pruned"}

Excess == IF Cardinality(Kept) > Retain THEN Cardinality(Kept) - Retain ELSE 0

(* prune_terminal_job_runs: the oldest finished attempts beyond Retain, at *)
(* most a batch; an unfinished one stays.                                  *)
stale ==
    LET finished == {i \in Kept : runs[i] # "Running"}
        target == IF Excess < Batch THEN Excess ELSE Batch
    IN  {i \in finished : Cardinality({j \in finished : j <= i}) <= target}

Prune(t) ==
    /\ Up
    /\ t \in Cleaners /\ task[t].pc = "body" /\ ~cancel
    /\ stale # {}
    /\ runs' = [i \in DOMAIN runs |-> IF i \in stale THEN "pruned" ELSE runs[i]]
    /\ UNCHANGED <<mode, cancel, inflight, task, unclosed, stops>>

-----------------------------------------------------------------------------
(* The end of a run.                                                       *)

(* The body returns or panics, and its fence is checked again. *)
EndBody(t, outcome) ==
    /\ Up
    /\ task[t].pc = "body"
    /\ outcome = "Cancelled" => cancel \/ task[t].cancelled
    /\ outcome = "Succeeded" /\ t \in Cleaners => stale = {}
    /\ Ends(t, "closing", outcome)
    /\ UNCHANGED <<mode, cancel, inflight, runs, unclosed, stops>>

(* Deliberately wrong variant: the key is freed before the run is settled. *)
Close_releasing(t) ==
    /\ Up
    /\ task[t].pc = "closing"
    /\ Goto(t, IF task[t].run = 0 THEN "releasing" ELSE "settling")
    /\ inflight' = inflight \ {ConflictKey(t)}
    /\ UNCHANGED <<mode, cancel, runs, unclosed, stops>>

(* JobAttemptControl::finish first drops the attempt from the active map. *)
Close(t) ==
    /\ Up
    /\ task[t].pc = "closing"
    /\ Goto(t, IF task[t].run = 0 THEN "releasing" ELSE "settling")
    /\ UNCHANGED <<mode, cancel, inflight, runs, unclosed, stops>>

finish_job_run(id, outcome) == IF runs[id] = "Running" THEN [runs EXCEPT ![id] = outcome] ELSE runs

(* Deliberately wrong variant: the failed write is not the run's failure. *)
Settle_ignoring(t) ==
    /\ Up
    /\ task[t].pc = "settling"
    /\ Goto(t, "releasing")
    /\ \/ runs' = finish_job_run(task[t].run, task[t].outcome) /\ UNCHANGED unclosed
       \/ unclosed' = unclosed \cup {task[t].run} /\ UNCHANGED runs
    /\ UNCHANGED <<mode, cancel, inflight, stops>>

(* Then it closes the record.  If the write fails the run has failed, and  *)
(* its record stays open until the next process recovers it.               *)
Settle(t) ==
    LET id == task[t].run
    IN  /\ Up
        /\ task[t].pc = "settling"
        /\ \/ /\ runs' = finish_job_run(id, task[t].outcome)
              /\ IF runs[id] = "Running" THEN Goto(t, "releasing") ELSE Ends(t, "releasing", "Failed")
              /\ UNCHANGED unclosed
           \/ /\ unclosed' = unclosed \cup {id}
              /\ Ends(t, "releasing", "Failed")
              /\ UNCHANGED runs
        /\ UNCHANGED <<mode, cancel, inflight, stops>>

Release(t) ==
    /\ Up
    /\ task[t].pc = "releasing"
    /\ inflight' = inflight \ {ConflictKey(t)}
    /\ Goto(t, "leaving")
    /\ UNCHANGED <<mode, cancel, runs, unclosed, stops>>

(* The caller gets its answer and the permits are dropped. *)
Leave(t) ==
    /\ Up
    /\ task[t].pc = "leaving"
    /\ task' = [task EXCEPT ![t] = Out]
    /\ UNCHANGED <<mode, cancel, inflight, runs, unclosed, stops>>

-----------------------------------------------------------------------------
(* The process.                                                            *)

Shutdown ==
    /\ Owner = "client" /\ mode = "serving"
    /\ cancel' = TRUE
    /\ mode' = "draining"
    /\ UNCHANGED <<inflight, task, runs, unclosed, stops>>

(* shutdown returns: every tracked task is done, or the grace has passed. *)
ShutdownReturns ==
    /\ mode = "draining"
    /\ \/ Holding(Tracked) = {} /\ mode' = "drained"
       \/ Holding(Tracked) # {} /\ mode' = "expired"
    /\ UNCHANGED <<cancel, inflight, task, runs, unclosed, stops>>

(* The runtime is dropped with whatever it still runs. *)
Exit(m) ==
    /\ stops < MaxStops
    /\ stops' = stops + 1
    /\ mode' = m
    /\ cancel' = FALSE
    /\ inflight' = {}
    /\ task' = [t \in Tasks |-> Out]
    /\ unclosed' = {}
    /\ UNCHANGED runs

(* process.rs cancels and joins the schedule timer, not the scheduler. *)
Stop ==
    /\ mode \in IF Owner = "server" THEN {"serving"} ELSE {"drained", "expired"}
    /\ Exit("stopped")

Crash ==
    /\ Up \/ mode = "recovering"
    /\ Exit("crashed")

Restart ==
    /\ Owner = "server" /\ mode \in {"stopped", "crashed"}
    /\ mode' = "recovering"
    /\ UNCHANGED <<cancel, inflight, task, runs, unclosed, stops>>

Interrupted ==
    LET open == {i \in DOMAIN runs : runs[i] = "Running"}
    IN  {i \in open : Cardinality({j \in open : j <= i}) <= Batch}

(* Deliberately wrong variant: one batch is all there is. *)
recover_once ==
    /\ mode = "recovering"
    /\ runs' = [i \in DOMAIN runs |-> IF i \in Interrupted THEN "Failed" ELSE runs[i]]
    /\ mode' = "serving"
    /\ UNCHANGED <<cancel, inflight, task, unclosed, stops>>

(* Deliberately wrong variant: the batch is not committed. *)
recover_uncommitted ==
    /\ mode = "recovering"
    /\ mode' = IF Cardinality(Interrupted) < Batch THEN "serving" ELSE "recovering"
    /\ UNCHANGED <<cancel, inflight, task, runs, unclosed, stops>>

(* One transaction of recover_interrupted_job_runs; the server starts      *)
(* after a batch that is not full.                                         *)
recover_interrupted_job_run_batch ==
    /\ mode = "recovering"
    /\ runs' = [i \in DOMAIN runs |-> IF i \in Interrupted THEN "Failed" ELSE runs[i]]
    /\ mode' = IF Cardinality(Interrupted) < Batch THEN "serving" ELSE "recovering"
    /\ UNCHANGED <<cancel, inflight, task, unclosed, stops>>

-----------------------------------------------------------------------------
Outcomes == {"Succeeded", "Failed", "Cancelled"}

Work(t) == Prune(t) \/ \E outcome \in Outcomes : EndBody(t, outcome)

Proceed(t) ==
    Admit(t) \/ Spawn(t) \/ Execute(t) \/ Fence(t) \/ Work(t) \/ Close(t) \/ Settle(t) \/ Release(t) \/ Leave(t)

Next ==
    \/ \E t \in Tasks :
         \/ Submit(t) \/ Admit(t) \/ Spawn(t)
         \/ AcquireWorker(t) \/ AcquireKind(t) \/ AcquireScope(t)
         \/ Execute(t) \/ Fence(t) \/ CancelRun(t)
         \/ Prune(t)
         \/ \E outcome \in Outcomes : EndBody(t, outcome)
         \/ Close(t) \/ Settle(t) \/ Release(t) \/ Leave(t)
    \/ Shutdown \/ ShutdownReturns
    \/ Stop \/ Crash \/ Restart
    \/ recover_interrupted_job_run_batch

(* A spawned task is polled, a job body ends, and tokio's semaphores serve *)
(* their waiters in order, so a waiter cannot be passed over for ever.  A  *)
(* stopped server is started again.                                        *)
Fairness ==
    /\ \A t \in Tasks :
         /\ WF_vars(Proceed(t))
         /\ SF_vars(AcquireWorker(t))
         /\ SF_vars(AcquireKind(t))
         /\ SF_vars(AcquireScope(t))
    /\ WF_vars(Restart)
    /\ WF_vars(recover_interrupted_job_run_batch)

Spec == Init /\ [][Next]_vars

FairSpec == Spec /\ Fairness

-----------------------------------------------------------------------------
(* Properties.                                                             *)

TypeOK ==
    /\ mode \in {"serving", "draining", "drained", "expired", "stopped", "crashed", "recovering"}
    /\ cancel \in BOOLEAN
    /\ inflight = {ConflictKey(t) : t \in Holding(HasSlot \ {"leaving"})}
    /\ task \in [Tasks -> [pc : HasSlot \cup {"out", "admitting"}, run : 0..Len(runs),
                           cancelled : BOOLEAN, outcome : Outcomes \cup {"none"}]]
    /\ runs \in Seq(Outcomes \cup {"Running", "pruned"})
    /\ unclosed \subseteq DOMAIN runs

Working == {"fencing", "body", "closing", "settling"}

(* configuration.md: "one repository never sweeps itself twice at once":   *)
(* whatever their kinds, at most PerScope runs of a scope are under way.   *)
ScopeBounded ==
    \A t \in Holding(Working) :
        Cardinality({u \in Holding(Working) : ScopeOf[u] = ScopeOf[t]}) <= PerScope

(* jobs/mod.rs, NodeJob::scope: "Two runs sharing a kind and scope         *)
(* conflict and never overlap", with permits for both and through the      *)
(* writing of the first one's result.                                      *)
TwinsNeverOverlap == \A t, u \in Holding(Working) : t # u => ConflictKey(t) # ConflictKey(u)

(* Once shutdown returned without giving up, no run is under way and none  *)
(* starts, also not one that was being admitted when shutdown was called.  *)
DrainedIsQuiet == mode = "drained" => Holding(Working) = {}

(* An open attempt is a run in progress, unless its closing write failed:  *)
(* what a process left open is closed before the next one serves           *)
(* (server.rs, recover_job_attempts), and the cleanup removes none of them.*)
OpenMeansRunning ==
    /\ Up => \A i \in DOMAIN runs : runs[i] = "Running" => i \in unclosed \/ \E t \in Tasks : task[t].run = i
    /\ \A t \in Holding({"fencing", "body", "closing", "settling"}) : task[t].run # 0 => runs[task[t].run] = "Running"

(* The caller of a durable run is told of success only when the history    *)
(* says so, or said so until the cleanup took it.                          *)
AnswersMatchHistory ==
    \A t \in Holding({"releasing", "leaving"}) :
        task[t].run # 0 /\ task[t].outcome # "Failed" => runs[task[t].run] \in {task[t].outcome, "pruned"}

(* run: "an admitted job sends its result": an admitted task is answered   *)
(* unless its process ends, however permits and history writes turn out.   *)
AdmittedAreAnswered == \A t \in Tasks : task[t].pc = "worker" ~> task[t].pc = "out"

(* An attempt its process left open is closed in the end. *)
InterruptedAreClosed ==
    \A i \in 1..MaxRuns :
        (mode \in {"stopped", "crashed"} /\ i \in DOMAIN runs /\ runs[i] = "Running")
            ~> (i \in DOMAIN runs /\ runs[i] # "Running")
=============================================================================
