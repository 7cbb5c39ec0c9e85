------------------------- MODULE JobSchedulerProofs -------------------------
(* Proofs about JobScheduler, for every set of tasks, kinds and scopes and *)
(* every limit and batch size.                                             *)
EXTENDS JobScheduler, FiniteSetTheorems, SequenceTheorems, WellFoundedInduction, TLAPS

Keyed == HasSlot \ {"leaving"}

(* Who is admitted holds a conflict key of their own. *)
KeysApart == \A t, u \in Holding(Keyed) : t # u => ConflictKey(t) # ConflictKey(u)

(* Shutdown cancels before it waits, and finds nothing running when it is  *)
(* done; a process that is down runs nothing.                              *)
Quiet ==
    /\ mode \in {"draining", "drained", "expired"} => cancel
    /\ mode = "drained" => \A t \in Tasks : task[t].pc \notin Working
    /\ ~Up => \A t \in Tasks : task[t] = Out

(* A task's attempt: none before it starts, open while it works, and       *)
(* closed with the outcome it reports, unless that write failed.           *)
AttemptOK(r, history, lost) ==
    /\ r.pc \notin Working \cup {"releasing", "leaving"} => r.run = 0
    /\ r.pc \in Working /\ r.run # 0 => history[r.run] = "Running"
    /\ r.pc \in {"closing", "settling", "releasing", "leaving"} => r.outcome \in Outcomes
    /\ r.pc = "settling" => r.run # 0
    /\ r.pc \in {"releasing", "leaving"} /\ r.run # 0 =>
         /\ history[r.run] = "Running" => r.run \in lost
         /\ r.outcome # "Failed" => history[r.run] \in {r.outcome, "pruned"}

Attempts == \A t \in Tasks : AttemptOK(task[t], runs, unclosed)

(* No attempt has two tasks. *)
RunsApart == \A t, u \in Tasks : t # u /\ task[t].run # 0 => task[t].run # task[u].run

(* An open attempt of a live process has a task, or its closing failed. *)
Owned ==
    Up => \A i \in DOMAIN runs : runs[i] = "Running" => i \in unclosed \/ \E t \in Tasks : task[t].run = i

IInv == TypeOK /\ KeysApart /\ Quiet /\ Attempts /\ RunsApart /\ Owned

States == Outcomes \cup {"Running", "pruned"}

TaskType(n) == [pc : HasSlot \cup {"out", "admitting"}, run : 0..n,
                cancelled : BOOLEAN, outcome : Outcomes \cup {"none"}]

(* A step of one task that changes nothing else and neither gains nor      *)
(* loses a conflict key or an attempt.                                     *)
LEMMA LocalStep ==
    ASSUME IInv, Up, NEW t \in Tasks, NEW r \in TaskType(Len(runs)),
           task' = [task EXCEPT ![t] = r],
           UNCHANGED <<mode, cancel, inflight, runs, unclosed>>,
           r.run = task[t].run,
           r.pc \in Keyed <=> task[t].pc \in Keyed,
           mode = "drained" => r.pc \notin Working,
           AttemptOK(r, runs, unclosed)
    PROVE  IInv'
<1>1. /\ task \in [Tasks -> TaskType(Len(runs))] /\ task' \in [Tasks -> TaskType(Len(runs))]
      /\ task'[t] = r /\ \A u \in Tasks \ {t} : task'[u] = task[u]
  BY Zenon DEF IInv, TypeOK, TaskType
<1>2. Holding(Keyed)' = Holding(Keyed)
  BY <1>1, Zenon DEF Holding
<1>3. TypeOK'
  BY <1>1, <1>2, Zenon DEF IInv, TypeOK, TaskType, ConflictKey, Keyed
<1>4. KeysApart'
  BY <1>2, Zenon DEF IInv, KeysApart, ConflictKey
<1>5. Quiet'
  BY <1>1, Zenon DEF IInv, Quiet, Up
<1>6. Attempts'
  BY <1>1, Zenon DEF IInv, Attempts
<1>7. RunsApart' /\ Owned'
  <2>1. \A u \in Tasks : task'[u].run = task[u].run
    BY <1>1, Zenon
  <2>. QED
    BY <2>1 DEF IInv, RunsApart, Owned, Up
<1>. QED
  BY <1>3, <1>4, <1>5, <1>6, <1>7, Zenon DEF IInv

(* Submission, refusal, the permits, the fence and the end of the body. *)
LEMMA TaskSteps ==
    ASSUME IInv, NEW t \in Tasks,
           \/ Submit(t) \/ Spawn(t) \/ AcquireWorker(t) \/ AcquireKind(t) \/ AcquireScope(t)
           \/ Fence(t) \/ CancelRun(t) \/ Close(t)
           \/ \E outcome \in Outcomes : EndBody(t, outcome)
    PROVE  IInv'
<1>1. /\ Len(runs) \in Nat /\ task \in [Tasks -> TaskType(Len(runs))]
      /\ task[t] \in TaskType(Len(runs)) /\ AttemptOK(task[t], runs, unclosed)
      /\ mode = "drained" => cancel /\ task[t].pc \notin Working
  BY DEF IInv, TypeOK, TaskType, Attempts, Quiet
<1>2. ASSUME NEW pc \in HasSlot \cup {"out", "admitting"}, Goto(t, pc), Up,
             UNCHANGED <<mode, cancel, inflight, runs, unclosed>>,
             pc \in Keyed <=> task[t].pc \in Keyed,
             mode = "drained" => pc \notin Working,
             AttemptOK([task[t] EXCEPT !.pc = pc], runs, unclosed)
      PROVE  IInv'
  <2>. DEFINE r == [task[t] EXCEPT !.pc = pc]
  <2>1. r \in TaskType(Len(runs)) /\ r.pc = pc /\ r.run = task[t].run
    BY <1>1, Zenon DEF TaskType
  <2>2. task' = [task EXCEPT ![t] = r]
    BY <1>2, Zenon DEF Goto
  <2>. HIDE DEF r
  <2>3. AttemptOK(r, runs, unclosed)
    BY <1>2, Zenon DEF r
  <2>. QED
    BY <1>2, <2>1, <2>2, <2>3, LocalStep, Zenon
<1>3. ASSUME NEW pc \in {"closing"}, NEW o \in Outcomes, Ends(t, pc, o), Up,
             task[t].pc \in {"fencing", "body"},
             UNCHANGED <<mode, cancel, inflight, runs, unclosed>>
      PROVE  IInv'
  <2>. DEFINE r == [task[t] EXCEPT !.pc = pc, !.outcome = o]
  <2>1. r \in TaskType(Len(runs)) /\ r.pc = pc /\ r.run = task[t].run /\ r.outcome = o
    BY <1>1, Zenon DEF TaskType, HasSlot, Tracked, HasWorker, HasKind, HasScope
  <2>2. task' = [task EXCEPT ![t] = r]
    BY <1>3, Zenon DEF Ends
  <2>. HIDE DEF r
  <2>3. AttemptOK(r, runs, unclosed)
    BY <1>1, <1>3, <2>1, Zenon DEF AttemptOK, Working
  <2>4. pc \in Keyed /\ task[t].pc \in Keyed /\ mode # "drained"
    BY <1>1, <1>3, Zenon DEF Keyed, HasSlot, Tracked, HasWorker, HasKind, HasScope, Working
  <2>. QED
    BY <1>3, <2>1, <2>2, <2>3, <2>4, LocalStep, Zenon
<1>. USE DEF Keyed, HasSlot, Tracked, HasWorker, HasKind, HasScope, Working
<1>4. \A pc \in HasSlot \cup {"out", "admitting"} :
        LET r == [task[t] EXCEPT !.pc = pc]
        IN  r.pc = pc /\ r.run = task[t].run /\ r.outcome = task[t].outcome
  BY <1>1, Zenon DEF TaskType
<1>5. CASE Submit(t)
  BY <1>1, <1>2, <1>4, <1>5 DEF Submit, AttemptOK, Out
<1>6. CASE Spawn(t)
  BY <1>1, <1>2, <1>4, <1>6, Zenon DEF Spawn, AttemptOK
<1>7. CASE AcquireWorker(t)
  BY <1>1, <1>2, <1>4, <1>7, Zenon DEF AcquireWorker, AttemptOK
<1>8. CASE AcquireKind(t)
  BY <1>1, <1>2, <1>4, <1>8, Zenon DEF AcquireKind, AttemptOK
<1>9. CASE AcquireScope(t)
  BY <1>1, <1>2, <1>4, <1>9, Zenon DEF AcquireScope, AttemptOK
<1>10. CASE Fence(t)
  BY <1>1, <1>2, <1>3, <1>4, <1>10 DEF Fence, AttemptOK, Outcomes
<1>11. CASE CancelRun(t)
  <2>. DEFINE r == [task[t] EXCEPT !.cancelled = TRUE]
  <2>1. r \in TaskType(Len(runs)) /\ r.pc = task[t].pc /\ r.run = task[t].run /\ r.outcome = task[t].outcome
    BY <1>1, Zenon DEF TaskType
  <2>2. task' = [task EXCEPT ![t] = r]
    BY <1>11, Zenon DEF CancelRun
  <2>. HIDE DEF r
  <2>3. AttemptOK(r, runs, unclosed)
    BY <1>1, <2>1, Zenon DEF AttemptOK
  <2>. QED
    BY <1>1, <1>11, <2>1, <2>2, <2>3, LocalStep, Zenon DEF CancelRun
<1>12. CASE Close(t)
  BY <1>1, <1>2, <1>4, <1>12 DEF Close, AttemptOK
<1>13. CASE \E outcome \in Outcomes : EndBody(t, outcome)
  BY <1>1, <1>3, <1>13, Zenon DEF EndBody
<1>. QED
  BY <1>5, <1>6, <1>7, <1>8, <1>9, <1>10, <1>11, <1>12, <1>13, Zenon

(* Admission takes a key nobody holds, or refuses. *)
LEMMA AdmitStep ==
    ASSUME IInv, NEW t \in Tasks, Admit(t)
    PROVE  IInv'
<1>. USE DEF Keyed, HasSlot, Tracked, HasWorker, HasKind, HasScope, Working
<1>1. /\ Len(runs) \in Nat /\ task \in [Tasks -> TaskType(Len(runs))]
      /\ task[t].pc = "admitting" /\ task[t].run = 0 /\ Up
      /\ UNCHANGED <<mode, cancel, runs, unclosed>>
  BY DEF IInv, TypeOK, TaskType, Attempts, AttemptOK, Admit
<1>2. CASE Goto(t, "out") /\ UNCHANGED inflight
  <2>. DEFINE r == [task[t] EXCEPT !.pc = "out"]
  <2>1. r \in TaskType(Len(runs)) /\ r.pc = "out" /\ r.run = task[t].run
    BY <1>1 DEF TaskType
  <2>2. task' = [task EXCEPT ![t] = r]
    BY <1>2, Zenon DEF Goto
  <2>. HIDE DEF r
  <2>3. AttemptOK(r, runs, unclosed)
    BY <1>1, <2>1, Zenon DEF AttemptOK
  <2>. QED
    BY <1>1, <1>2, <2>1, <2>2, <2>3, LocalStep, Zenon
<1>3. CASE /\ Goto(t, "spawning") /\ inflight' = inflight \cup {ConflictKey(t)}
           /\ ConflictKey(t) \notin inflight
  <2>1. /\ task' \in [Tasks -> TaskType(Len(runs))]
        /\ task'[t].pc = "spawning" /\ task'[t].run = 0
        /\ \A u \in Tasks \ {t} : task'[u] = task[u]
    BY <1>1, <1>3 DEF Goto, TaskType
  <2>2. Holding(Keyed)' = Holding(Keyed) \cup {t}
    BY <1>1, <2>1, Zenon DEF Holding
  <2>. HIDE DEF Keyed
  <2>3. inflight = {ConflictKey(u) : u \in Holding(Keyed)}
    BY Zenon DEF IInv, TypeOK, Keyed
  <2>4. inflight' = {ConflictKey(u) : u \in Holding(Keyed)'}
    BY <1>3, <2>2, <2>3, Zenon
  <2>5. TypeOK'
    BY <1>1, <2>1, <2>4, Zenon DEF IInv, TypeOK, TaskType, ConflictKey, Keyed
  <2>6. KeysApart'
    BY <1>3, <2>2, <2>3, Zenon DEF IInv, KeysApart, ConflictKey
  <2>7. Quiet'
    BY <1>1, <2>1, Zenon DEF IInv, Quiet, Up
  <2>8. Attempts'
    BY <1>1, <2>1 DEF IInv, Attempts, AttemptOK
  <2>9. RunsApart' /\ Owned'
    <3>1. \A u \in Tasks : task'[u].run = task[u].run
      BY <1>1, <2>1, Zenon
    <3>. QED
      BY <1>1, <3>1 DEF IInv, RunsApart, Owned, Up
  <2>. QED
    BY <2>5, <2>6, <2>7, <2>8, <2>9, Zenon DEF IInv
<1>. QED
  BY <1>2, <1>3, Zenon DEF Admit

(* A finished run frees its own key and no other. *)
LEMMA ReleaseStep ==
    ASSUME IInv, NEW t \in Tasks, Release(t)
    PROVE  IInv'
<1>. USE DEF Keyed, HasSlot, Tracked, HasWorker, HasKind, HasScope, Working
<1>1. /\ Len(runs) \in Nat /\ task \in [Tasks -> TaskType(Len(runs))]
      /\ task[t].pc = "releasing" /\ Up /\ UNCHANGED <<mode, cancel, runs, unclosed>>
      /\ inflight' = inflight \ {ConflictKey(t)}
  BY DEF IInv, TypeOK, TaskType, Release
<1>2. /\ task' \in [Tasks -> TaskType(Len(runs))]
      /\ task'[t].pc = "leaving" /\ task'[t].run = task[t].run /\ task'[t].outcome = task[t].outcome
      /\ \A u \in Tasks \ {t} : task'[u] = task[u]
  BY <1>1 DEF Release, Goto, TaskType
<1>3. Holding(Keyed)' = Holding(Keyed) \ {t} /\ t \in Holding(Keyed)
  BY <1>1, <1>2, Zenon DEF Holding
<1>. HIDE DEF Keyed
<1>4. inflight = {ConflictKey(u) : u \in Holding(Keyed)}
  BY Zenon DEF IInv, TypeOK, Keyed
<1>5. \A u \in Holding(Keyed) \ {t} : ConflictKey(u) # ConflictKey(t)
  BY <1>3, Zenon DEF IInv, KeysApart
<1>6. inflight' = {ConflictKey(u) : u \in Holding(Keyed)'}
  BY <1>1, <1>3, <1>4, <1>5, Zenon
<1>7. TypeOK'
  BY <1>1, <1>2, <1>6, Zenon DEF IInv, TypeOK, TaskType, ConflictKey, Keyed
<1>8. KeysApart'
  BY <1>3, Zenon DEF IInv, KeysApart, ConflictKey
<1>9. Quiet'
  BY <1>1, <1>2, Zenon DEF IInv, Quiet, Up
<1>10. Attempts'
  BY <1>1, <1>2 DEF IInv, Attempts, AttemptOK
<1>11. RunsApart' /\ Owned'
  <2>1. \A u \in Tasks : task'[u].run = task[u].run
    BY <1>1, <1>2, Zenon
  <2>. QED
    BY <1>1, <2>1 DEF IInv, RunsApart, Owned, Up
<1>. QED
  BY <1>7, <1>8, <1>9, <1>10, <1>11, Zenon DEF IInv

(* A task that leaves was the last to speak for its attempt: it is closed, *)
(* or its closing failed.                                                  *)
LEMMA LeaveStep ==
    ASSUME IInv, NEW t \in Tasks, Leave(t)
    PROVE  IInv'
<1>. USE DEF Keyed, HasSlot, Tracked, HasWorker, HasKind, HasScope, Working
<1>1. /\ Len(runs) \in Nat /\ task \in [Tasks -> TaskType(Len(runs))]
      /\ task[t].pc = "leaving" /\ Up /\ UNCHANGED <<mode, cancel, inflight, runs, unclosed>>
  BY DEF IInv, TypeOK, TaskType, Leave
<1>2. /\ task' \in [Tasks -> TaskType(Len(runs))]
      /\ task'[t].pc = "out" /\ task'[t].run = 0
      /\ \A u \in Tasks \ {t} : task'[u] = task[u]
  BY <1>1 DEF Leave, Out, TaskType
<1>3. Holding(Keyed)' = Holding(Keyed)
  BY <1>1, <1>2, Zenon DEF Holding
<1>4. TypeOK'
  BY <1>1, <1>2, <1>3, Zenon DEF IInv, TypeOK, TaskType, ConflictKey
<1>5. KeysApart'
  BY <1>3, Zenon DEF IInv, KeysApart, ConflictKey
<1>6. Quiet'
  BY <1>1, <1>2, Zenon DEF IInv, Quiet, Up
<1>7. Attempts'
  BY <1>1, <1>2 DEF IInv, Attempts, AttemptOK
<1>8. RunsApart'
  <2>. SUFFICES ASSUME NEW u \in Tasks, NEW v \in Tasks, u # v, task'[u].run # 0
                PROVE  task'[u].run # task'[v].run
    BY Zenon DEF RunsApart
  <2>1. u # t
    BY <1>2, Zenon
  <2>. QED
    BY <1>2, <2>1, Zenon DEF IInv, RunsApart
<1>9. Owned'
  <2>1. task[t].run # 0 => (runs[task[t].run] = "Running" => task[t].run \in unclosed)
    BY <1>1, Zenon DEF IInv, Attempts, AttemptOK
  <2>2. ASSUME NEW i \in DOMAIN runs, runs[i] = "Running" PROVE i \in unclosed \/ \E u \in Tasks : task'[u].run = i
    <3>1. i # 0
      BY DEF IInv, TypeOK
    <3>. QED
      BY <1>1, <1>2, <2>1, <2>2, <3>1 DEF IInv, Owned
  <2>. QED
    BY <1>1, <2>2, Zenon DEF Owned
<1>. QED
  BY <1>4, <1>5, <1>6, <1>7, <1>8, <1>9 DEF IInv

(* A run starts with an attempt nobody else has, or without one. *)
LEMMA ExecuteStep ==
    ASSUME IInv, NEW t \in Tasks, Execute(t)
    PROVE  IInv'
<1>. USE DEF Keyed, HasSlot, Tracked, HasWorker, HasKind, HasScope, Working
<1>1. /\ Len(runs) \in Nat /\ runs \in Seq(States) /\ task \in [Tasks -> TaskType(Len(runs))]
      /\ task[t].pc = "ready" /\ task[t].run = 0 /\ Up
      /\ UNCHANGED <<mode, cancel, inflight, unclosed>>
      /\ mode = "drained" => cancel
  BY DEF IInv, TypeOK, TaskType, Attempts, AttemptOK, Execute, Quiet, States
<1>2. ASSUME NEW o \in Outcomes, Ends(t, "releasing", o), UNCHANGED runs
      PROVE  IInv'
  <2>. DEFINE r == [task[t] EXCEPT !.pc = "releasing", !.outcome = o]
  <2>1. r \in TaskType(Len(runs)) /\ r.pc = "releasing" /\ r.run = task[t].run /\ r.outcome = o
    BY <1>1, Zenon DEF TaskType
  <2>2. task' = [task EXCEPT ![t] = r]
    BY <1>2, Zenon DEF Ends
  <2>. HIDE DEF r
  <2>3. AttemptOK(r, runs, unclosed)
    BY <1>1, <2>1, Zenon DEF AttemptOK
  <2>. QED
    BY <1>1, <1>2, <2>1, <2>2, <2>3, LocalStep, Zenon
<1>3. ASSUME ~cancel, Goto(t, "fencing"), UNCHANGED runs
      PROVE  IInv'
  <2>. DEFINE r == [task[t] EXCEPT !.pc = "fencing"]
  <2>1. r \in TaskType(Len(runs)) /\ r.pc = "fencing" /\ r.run = task[t].run
    BY <1>1 DEF TaskType
  <2>2. task' = [task EXCEPT ![t] = r]
    BY <1>3, Zenon DEF Goto
  <2>. HIDE DEF r
  <2>3. AttemptOK(r, runs, unclosed)
    BY <1>1, <2>1, Zenon DEF AttemptOK
  <2>. QED
    BY <1>1, <1>3, <2>1, <2>2, <2>3, LocalStep, Zenon
<1>4. ASSUME ~cancel, runs' = start_job_run,
             task' = [task EXCEPT ![t].pc = "fencing", ![t].run = Len(runs) + 1]
      PROVE  IInv'
  <2>. DEFINE n == Len(runs) + 1
  <2>1. /\ runs' \in Seq(States) /\ Len(runs') = n /\ runs'[n] = "Running"
        /\ DOMAIN runs' = 1..n /\ DOMAIN runs = 1..Len(runs)
        /\ \A i \in DOMAIN runs : runs'[i] = runs[i]
    BY <1>1, <1>4 DEF start_job_run, States
  <2>2. /\ task' \in [Tasks -> TaskType(n)]
        /\ task'[t].pc = "fencing" /\ task'[t].run = n
        /\ \A u \in Tasks \ {t} : task'[u] = task[u]
    <3>. DEFINE r == [task[t] EXCEPT !.pc = "fencing", !.run = n]
    <3>2. task' = [task EXCEPT ![t] = r]
      BY <1>4, Zenon
    <3>3. TaskType(Len(runs)) \subseteq TaskType(n)
      BY <1>1 DEF TaskType
    <3>4. n \in 0..n
      BY <1>1
    <3>. HIDE DEF n
    <3>1. r \in TaskType(n) /\ r.pc = "fencing" /\ r.run = n
      BY <1>1, <3>3, <3>4, ZenonT(60) DEF TaskType
    <3>. HIDE DEF r
    <3>. QED
      BY <1>1, <3>1, <3>2, <3>3, Zenon
  <2>3. Holding(Keyed)' = Holding(Keyed)
    BY <1>1, <2>2, Zenon DEF Holding
  <2>4. TypeOK'
    BY <1>1, <2>1, <2>2, <2>3 DEF IInv, TypeOK, TaskType, ConflictKey, States
  <2>5. KeysApart'
    BY <2>3, Zenon DEF IInv, KeysApart, ConflictKey
  <2>6. Quiet'
    BY <1>1, <1>4, <2>2, Zenon DEF IInv, Quiet, Up
  <2>7. \A u \in Tasks \ {t} : task[u].run \in 0..Len(runs)
    BY <1>1, Zenon DEF TaskType
  <2>8. Attempts'
    BY <1>1, <2>1, <2>2, <2>7 DEF IInv, Attempts, AttemptOK
  <2>9. RunsApart'
    <3>. SUFFICES ASSUME NEW u \in Tasks, NEW v \in Tasks, u # v, task'[u].run # 0
                  PROVE  task'[u].run # task'[v].run
      BY Zenon DEF RunsApart
    <3>1. CASE u # t /\ v # t
      BY <2>2, <3>1 DEF IInv, RunsApart
    <3>2. CASE u = t \/ v = t
      BY <1>1, <2>2, <2>7, <3>2
    <3>. QED
      BY <3>1, <3>2, Zenon
  <2>10. Owned'
    <3>1. ASSUME NEW i \in DOMAIN runs', runs'[i] = "Running", i # n
          PROVE  i \in unclosed \/ \E u \in Tasks : task'[u].run = i
      <4>1. i \in DOMAIN runs /\ runs[i] = "Running" /\ i # 0
        BY <1>1, <2>1, <3>1
      <4>. QED
        BY <1>1, <2>2, <4>1 DEF IInv, Owned
    <3>. QED
      BY <1>1, <2>1, <2>2, <3>1 DEF Owned
  <2>. QED
    BY <2>4, <2>5, <2>6, <2>8, <2>9, <2>10, Zenon DEF IInv
<1>. QED
  BY <1>2, <1>3, <1>4, Zenon DEF Execute, Outcomes

(* Entries of the history change and its length does not. *)
LEMMA HistoryType ==
    ASSUME IInv, NEW f, DOMAIN f = DOMAIN runs, \A i \in DOMAIN runs : f[i] \in States, f = [i \in DOMAIN f |-> f[i]]
    PROVE  f \in Seq(States) /\ Len(f) = Len(runs)
<1>1. Len(runs) \in Nat /\ DOMAIN runs = 1..Len(runs)
  BY DEF IInv, TypeOK
<1>2. f \in [1..Len(runs) -> States]
  BY <1>1, Zenon
<1>3. f \in Seq(States)
  BY <1>1, <1>2, IsASeq, SMTT(30), Zenon
<1>. QED
  BY <1>1, <1>2, <1>3, LenProperties

(* The attempt is closed with the run's outcome, or is left for the next   *)
(* process and the run has failed.                                         *)
LEMMA SettleStep ==
    ASSUME IInv, NEW t \in Tasks, Settle(t)
    PROVE  IInv'
<1>. USE DEF Keyed, HasSlot, Tracked, HasWorker, HasKind, HasScope, Working
<1>. DEFINE id == task[t].run
<1>1. /\ Len(runs) \in Nat /\ runs \in Seq(States) /\ DOMAIN runs = 1..Len(runs)
      /\ task \in [Tasks -> TaskType(Len(runs))]
      /\ task[t].pc = "settling" /\ id \in DOMAIN runs /\ runs[id] = "Running" /\ Up
      /\ task[t].outcome \in Outcomes
      /\ UNCHANGED <<mode, cancel, inflight>>
      /\ \A u \in Tasks \ {t} : task[u].run # id
  BY DEF IInv, TypeOK, TaskType, Attempts, AttemptOK, Settle, States, RunsApart
<1>2. /\ task' \in [Tasks -> TaskType(Len(runs))]
      /\ task'[t].pc = "releasing" /\ task'[t].run = id
      /\ \A u \in Tasks \ {t} : task'[u] = task[u]
      /\ runs' \in Seq(States) /\ Len(runs') = Len(runs)
      /\ \A i \in DOMAIN runs \ {id} : runs'[i] = runs[i]
      /\ unclosed \subseteq unclosed' /\ unclosed' \subseteq unclosed \cup {id}
      /\ task'[t].outcome \in Outcomes
      /\ \/ runs'[id] = task'[t].outcome
         \/ id \in unclosed' /\ task'[t].outcome = "Failed"
  <2>1. CASE /\ runs' = [runs EXCEPT ![id] = task[t].outcome]
             /\ Goto(t, "releasing") /\ UNCHANGED unclosed
    <3>1. /\ runs' \in Seq(States) /\ Len(runs') = Len(runs) /\ runs'[id] = task[t].outcome
          /\ \A i \in DOMAIN runs \ {id} : runs'[i] = runs[i]
      BY <1>1, <2>1, ExceptSeq DEF States
    <3>2. /\ task' \in [Tasks -> TaskType(Len(runs))]
          /\ task'[t].pc = "releasing" /\ task'[t].run = id /\ task'[t].outcome = task[t].outcome
          /\ \A u \in Tasks \ {t} : task'[u] = task[u]
      BY <1>1, <2>1, Zenon DEF Goto, TaskType
    <3>. QED
      BY <1>1, <2>1, <3>1, <3>2
  <2>2. CASE unclosed' = unclosed \cup {id} /\ Ends(t, "releasing", "Failed") /\ UNCHANGED runs
    BY <1>1, <2>2, ZenonT(60) DEF Ends, TaskType, Outcomes
  <2>. QED
    BY <1>1, <2>1, <2>2, Zenon DEF Settle, finish_job_run
<1>3. DOMAIN runs' = DOMAIN runs
  BY <1>1, <1>2
<1>. HIDE DEF id
<1>4. Holding(Keyed)' = Holding(Keyed)
  BY <1>1, <1>2 DEF Holding
<1>5. TypeOK'
  BY <1>1, <1>2, <1>3, <1>4, Zenon DEF IInv, TypeOK, TaskType, ConflictKey, States
<1>6. KeysApart'
  BY <1>4, Zenon DEF IInv, KeysApart, ConflictKey
<1>7. Quiet'
  BY <1>1, <1>2 DEF IInv, Quiet, Up
<1>8. \A u \in Tasks : task[u].run # 0 => task[u].run \in DOMAIN runs
  BY <1>1 DEF TaskType
<1>9. Attempts'
  <2>1. ASSUME NEW u \in Tasks \ {t} PROVE AttemptOK(task[u], runs', unclosed')
    <3>1. AttemptOK(task[u], runs, unclosed) /\ task[u].run # id
      BY <1>1 DEF IInv, Attempts
    <3>2. task[u].run # 0 => runs'[task[u].run] = runs[task[u].run]
      BY <1>2, <1>8, <3>1
    <3>. QED
      BY <1>2, <3>1, <3>2 DEF AttemptOK
  <2>2. AttemptOK(task'[t], runs', unclosed')
    BY <1>2 DEF AttemptOK, Outcomes
  <2>. QED
    BY <1>2, <2>1, <2>2, SMTT(30), Zenon DEF Attempts
<1>10. RunsApart' /\ Owned'
  <2>1. \A u \in Tasks : task'[u].run = task[u].run
    BY <1>1, <1>2 DEF id
  <2>2. \A i \in DOMAIN runs : runs[i] = "Running" => i \in unclosed \/ \E u \in Tasks : task[u].run = i
    BY <1>1 DEF IInv, Owned
  <2>3. \A i \in DOMAIN runs : runs'[i] = "Running" => i \in unclosed' \/ \E u \in Tasks : task'[u].run = i
    BY <1>2, <2>1, <2>2
  <2>. QED
    BY <1>1, <1>3, <2>1, <2>3 DEF IInv, RunsApart, Owned, Up
<1>. QED
  BY <1>5, <1>6, <1>7, <1>9, <1>10, Zenon DEF IInv

(* The cleanup takes finished attempts only. *)
LEMMA PruneStep ==
    ASSUME IInv, NEW t \in Tasks, Prune(t)
    PROVE  IInv'
<1>1. /\ Len(runs) \in Nat /\ runs \in Seq(States) /\ DOMAIN runs = 1..Len(runs)
      /\ task \in [Tasks -> TaskType(Len(runs))]
      /\ \A i \in DOMAIN runs : runs[i] \in States
      /\ UNCHANGED <<mode, cancel, inflight, task, unclosed>>
  BY DEF IInv, TypeOK, TaskType, Prune, States
<1>2. \A i \in stale : runs[i] # "Running"
  BY Zenon DEF stale
<1>3. /\ DOMAIN runs' = DOMAIN runs
      /\ \A i \in DOMAIN runs : runs'[i] = runs[i] \/ (runs'[i] = "pruned" /\ runs[i] # "Running")
      /\ runs' = [i \in DOMAIN runs' |-> runs'[i]]
  BY <1>2, Zenon DEF Prune
<1>4. runs' \in Seq(States) /\ Len(runs') = Len(runs)
  BY <1>1, <1>3, HistoryType DEF States
<1>5. Holding(Keyed)' = Holding(Keyed)
  BY <1>1 DEF Holding
<1>6. TypeOK'
  BY <1>1, <1>3, <1>4, <1>5, Zenon DEF IInv, TypeOK, ConflictKey, States, Keyed
<1>7. KeysApart' /\ Quiet' /\ RunsApart'
  BY <1>1, <1>5 DEF IInv, KeysApart, ConflictKey, Quiet, Up, RunsApart
<1>8. \A u \in Tasks : task[u].run # 0 => task[u].run \in DOMAIN runs
  BY <1>1 DEF TaskType
<1>9. Attempts'
  <2>. SUFFICES ASSUME NEW u \in Tasks PROVE AttemptOK(task[u], runs', unclosed)
    BY <1>1 DEF Attempts
  <2>1. AttemptOK(task[u], runs, unclosed)
    BY Zenon DEF IInv, Attempts
  <2>2. task[u].run # 0 => \/ runs'[task[u].run] = runs[task[u].run]
                           \/ runs'[task[u].run] = "pruned" /\ runs[task[u].run] # "Running"
    BY <1>3, <1>8
  <2>. QED
    BY <2>1, <2>2, Zenon DEF AttemptOK
<1>10. Owned'
  BY <1>1, <1>3 DEF IInv, Owned, Up
<1>. QED
  BY <1>6, <1>7, <1>9, <1>10 DEF IInv

-----------------------------------------------------------------------------
(* The process.                                                            *)

(* Shutdown, its return and a restart leave tasks and history alone. *)
LEMMA ModeSteps ==
    ASSUME IInv, Shutdown \/ ShutdownReturns \/ Restart
    PROVE  IInv'
<1>1. UNCHANGED <<inflight, task, runs, unclosed>>
  BY Zenon DEF Shutdown, ShutdownReturns, Restart
<1>2. Holding(Keyed)' = Holding(Keyed)
  BY <1>1 DEF Holding
<1>3. TypeOK'
  BY <1>1, <1>2, Zenon DEF IInv, TypeOK, ConflictKey, Keyed, Shutdown, ShutdownReturns, Restart
<1>4. KeysApart' /\ RunsApart' /\ Attempts'
  BY <1>1, <1>2 DEF IInv, KeysApart, ConflictKey, RunsApart, Attempts
<1>5. Quiet'
  <2>1. CASE Shutdown
    BY <1>1, <2>1 DEF IInv, Quiet, Up, Shutdown
  <2>2. CASE ShutdownReturns
    <3>1. Working \subseteq Tracked
      BY DEF Working, Tracked, HasWorker, HasKind, HasScope
    <3>. QED
      BY <1>1, <2>2, <3>1 DEF IInv, Quiet, Up, ShutdownReturns, Holding
  <2>3. CASE Restart
    BY <1>1, <2>3 DEF IInv, Quiet, Up, Restart
  <2>. QED
    BY <2>1, <2>2, <2>3
<1>6. Owned'
  BY <1>1 DEF IInv, Owned, Up, Shutdown, ShutdownReturns, Restart
<1>. QED
  BY <1>3, <1>4, <1>5, <1>6 DEF IInv

(* The process ends, and everything that is not in the store with it. *)
LEMMA ExitStep ==
    ASSUME IInv, NEW m \in {"stopped", "crashed"}, Exit(m)
    PROVE  IInv'
<1>1. /\ mode' = m /\ cancel' = FALSE /\ inflight' = {} /\ unclosed' = {}
      /\ task' = [t \in Tasks |-> Out] /\ UNCHANGED runs /\ Len(runs) \in Nat
  BY DEF Exit, IInv, TypeOK
<1>2. /\ task' \in [Tasks -> TaskType(Len(runs))] /\ Holding(Keyed)' = {}
      /\ KeysApart' /\ Attempts' /\ RunsApart'
  <2>. USE DEF Out, Working, Keyed, HasSlot, Tracked, HasWorker, HasKind, HasScope
  <2>1. Holding(Keyed)' = {}
    BY <1>1 DEF Holding
  <2>2. task' \in [Tasks -> TaskType(Len(runs))]
    BY <1>1 DEF TaskType
  <2>. QED
    BY <1>1, <2>1, <2>2, Zenon DEF KeysApart, Attempts, AttemptOK, RunsApart
<1>3. TypeOK'
  BY <1>1, <1>2, Zenon DEF IInv, TypeOK, TaskType, Keyed
<1>4. Quiet' /\ Owned'
  BY <1>1 DEF Quiet, Owned, Up
<1>. QED
  BY <1>2, <1>3, <1>4 DEF IInv

(* A nonempty set of naturals has a least element. *)
LEMMA LeastElement ==
    ASSUME NEW S \in SUBSET Nat, S # {}
    PROVE  \E i \in S : \A j \in S : i <= j
<1>1. PICK i \in S : \A j \in S : ~(<<j, i>> \in OpToRel(<, Nat))
  BY NatLessThanWellFounded, WFMin, Zenon
<1>2. \A j \in S : ~(j < i)
  BY <1>1, Zenon DEF OpToRel
<1>. QED
  BY <1>2

(* A batch that is not full took everything: the first element it left out *)
(* would have had room.                                                    *)
LEMMA LastBatch ==
    ASSUME NEW S \in SUBSET Nat, IsFiniteSet(S), NEW first,
           first = {i \in S : Cardinality({j \in S : j <= i}) <= Batch}, Cardinality(first) < Batch
    PROVE  first = S
<1>. SUFFICES ASSUME S \ first # {} PROVE FALSE
  OBVIOUS
<1>1. PICK i \in S \ first : \A j \in S \ first : i <= j
  BY LeastElement, Zenon
<1>. DEFINE below == {j \in S : j <= i}
<1>2. below \subseteq first \cup {i}
  <2>. SUFFICES ASSUME NEW j \in S, j <= i, j \notin first PROVE j = i
    BY Zenon
  <2>1. i <= j /\ i \in Nat /\ j \in Nat
    BY <1>1
  <2>. QED
    BY <2>1
<1>3. IsFiniteSet(first) /\ IsFiniteSet(below) /\ IsFiniteSet(first \cup {i})
  <2>1. first \in SUBSET S /\ below \in SUBSET S
    OBVIOUS
  <2>2. IsFiniteSet(first) /\ IsFiniteSet(below)
    BY <2>1, FS_Subset, Zenon
  <2>. QED
    BY <2>2, FS_AddElement, Zenon
<1>4. Cardinality(first) \in Nat /\ Cardinality(below) \in Nat /\ Batch \in Nat
  BY <1>3, FS_CardinalityType, SchedulerAssumption
<1>5. Cardinality(first \cup {i}) = Cardinality(first) + 1
  BY <1>1, <1>3, FS_AddElement, Zenon
<1>6. Cardinality(below) <= Cardinality(first \cup {i})
  BY <1>2, <1>3, FS_Subset, Zenon
<1>7. ~(Cardinality(below) <= Batch)
  BY <1>1
<1>. QED
  BY <1>4, <1>5, <1>6, <1>7

(* Recovery closes open attempts; the batch after which the server starts  *)
(* was not full, so it leaves none.                                        *)
LEMMA RecoverStep ==
    ASSUME IInv, recover_interrupted_job_run_batch
    PROVE  IInv'
<1>. DEFINE open == {i \in DOMAIN runs : runs[i] = "Running"}
<1>1. /\ Len(runs) \in Nat /\ runs \in Seq(States) /\ DOMAIN runs = 1..Len(runs)
      /\ \A i \in DOMAIN runs : runs[i] \in States
      /\ \A t \in Tasks : task[t] = Out
      /\ mode' \in {"serving", "recovering"}
      /\ UNCHANGED <<cancel, inflight, task, unclosed>>
  BY DEF IInv, TypeOK, States, Quiet, Up, recover_interrupted_job_run_batch
<1>2. /\ DOMAIN runs' = DOMAIN runs
      /\ \A i \in DOMAIN runs : runs'[i] = IF i \in Interrupted THEN "Failed" ELSE runs[i]
      /\ runs' = [i \in DOMAIN runs' |-> runs'[i]]
  BY Zenon DEF recover_interrupted_job_run_batch
<1>3. runs' \in Seq(States) /\ Len(runs') = Len(runs)
  BY <1>1, <1>2, HistoryType DEF States, Outcomes
<1>4. Holding(Keyed)' = Holding(Keyed)
  BY <1>1 DEF Holding
<1>5. TypeOK'
  BY <1>1, <1>2, <1>3, <1>4, Zenon DEF IInv, TypeOK, ConflictKey, Keyed, States
<1>6. KeysApart' /\ RunsApart' /\ Quiet'
  BY <1>1, <1>4 DEF IInv, KeysApart, ConflictKey, RunsApart, Quiet, Working, Out, Up
<1>7. Attempts'
  BY <1>1 DEF Attempts, AttemptOK, Out, Working
<1>8. Owned'
  <2>. SUFFICES ASSUME mode' = "serving" PROVE \A i \in DOMAIN runs : runs'[i] # "Running"
    BY <1>1, <1>2, Zenon DEF Owned, Up
  <2>1. Cardinality(Interrupted) < Batch
    BY Zenon DEF recover_interrupted_job_run_batch
  <2>2. open \in SUBSET Nat /\ IsFiniteSet(open)
    <3>1. open \in SUBSET (1..Len(runs)) /\ IsFiniteSet(1..Len(runs))
      BY <1>1, FS_Interval
    <3>. QED
      BY <1>1, <3>1, FS_Subset
  <2>3. Interrupted = {i \in open : Cardinality({j \in open : j <= i}) <= Batch}
    BY DEF Interrupted
  <2>. HIDE DEF open
  <2>4. Interrupted = open
    BY <2>1, <2>2, <2>3, LastBatch, Zenon
  <2>. QED
    BY <1>2, <2>4, Zenon DEF open
<1>. QED
  BY <1>5, <1>6, <1>7, <1>8 DEF IInv

-----------------------------------------------------------------------------
(* The invariant, and what follows from it.                                *)

LEMMA InitInvariant == Init => IInv
<1>. SUFFICES ASSUME Init PROVE IInv
  OBVIOUS
<1>. USE DEF Init, Out, Working, Keyed, HasSlot, Tracked, HasWorker, HasKind, HasScope
<1>1. Holding(Keyed) = {} /\ Len(runs) = 0 /\ DOMAIN runs = {}
  BY DEF Holding
<1>2. runs \in Seq(Outcomes \cup {"Running", "pruned"})
  BY EmptySeq
<1>3. inflight = {ConflictKey(t) : t \in Holding(HasSlot \ {"leaving"})}
  BY <1>1
<1>4. TypeOK
  <2>1. task \in [Tasks -> [pc : HasSlot \cup {"out", "admitting"}, run : 0..Len(runs),
                           cancelled : BOOLEAN, outcome : Outcomes \cup {"none"}]]
    <3>1. Out \in [pc : HasSlot \cup {"out", "admitting"}, run : 0..Len(runs),
                  cancelled : BOOLEAN, outcome : Outcomes \cup {"none"}]
      BY <1>1
    <3>. QED
      BY <3>1
  <2>. QED
    BY <1>1, <1>2, <1>3, <2>1, Zenon DEF TypeOK
<1>. QED
  BY <1>1, <1>4 DEF IInv, KeysApart, Quiet, Up, Attempts, AttemptOK, RunsApart, Owned

LEMMA NextInvariant == IInv /\ [Next]_vars => IInv'
<1>. SUFFICES ASSUME IInv, [Next]_vars PROVE IInv'
  OBVIOUS
<1>1. ASSUME NEW t \in Tasks,
             \/ Submit(t) \/ Admit(t) \/ Spawn(t)
             \/ AcquireWorker(t) \/ AcquireKind(t) \/ AcquireScope(t)
             \/ Execute(t) \/ Fence(t) \/ CancelRun(t) \/ Prune(t)
             \/ \E outcome \in Outcomes : EndBody(t, outcome)
             \/ Close(t) \/ Settle(t) \/ Release(t) \/ Leave(t)
      PROVE  IInv'
  BY <1>1, TaskSteps, AdmitStep, ExecuteStep, PruneStep, SettleStep, ReleaseStep, LeaveStep
<1>2. CASE Shutdown \/ ShutdownReturns \/ Restart
  BY <1>2, ModeSteps, Zenon
<1>3. CASE Stop \/ Crash
  BY <1>3, ExitStep DEF Stop, Crash
<1>4. CASE recover_interrupted_job_run_batch
  BY <1>4, RecoverStep
<1>5. CASE UNCHANGED vars
  BY <1>5 DEF vars, IInv, TypeOK, KeysApart, Quiet, Attempts, RunsApart, Owned, Up, Holding, ConflictKey
<1>. QED
  BY <1>1, <1>2, <1>3, <1>4, <1>5 DEF Next

(* Every reachable state is well typed, and the conflict keys in use are   *)
(* those of the admitted runs (scheduler.rs, inflight).                    *)
THEOREM TypeCorrect == Spec => []TypeOK
<1>1. IInv => TypeOK
  BY DEF IInv
<1>. QED
  BY InitInvariant, NextInvariant, <1>1, PTL DEF Spec

(* Two runs of one kind and scope never overlap, whatever the limits. *)
THEOREM SameJobNeverOverlaps == Spec => []TwinsNeverOverlap
<1>1. IInv => TwinsNeverOverlap
  BY DEF IInv, KeysApart, TwinsNeverOverlap, Holding, Working, Keyed, HasSlot, Tracked, HasWorker, HasKind, HasScope
<1>. QED
  BY InitInvariant, NextInvariant, <1>1, PTL DEF Spec

(* After a shutdown that saw its tasks end, none runs and none starts. *)
THEOREM ShutdownIsFinal == Spec => []DrainedIsQuiet
<1>1. IInv => DrainedIsQuiet
  BY DEF IInv, Quiet, DrainedIsQuiet, Holding
<1>. QED
  BY InitInvariant, NextInvariant, <1>1, PTL DEF Spec

(* An open attempt of a live process is a run in progress, or one whose    *)
(* closing write failed, across any number of crashes and recoveries.      *)
THEOREM OpenAttemptsRun == Spec => []OpenMeansRunning
<1>1. IInv => OpenMeansRunning
  BY DEF IInv, Owned, Attempts, AttemptOK, OpenMeansRunning, Holding, Working
<1>. QED
  BY InitInvariant, NextInvariant, <1>1, PTL DEF Spec

(* What a caller is told of a durable run is what the history holds. *)
THEOREM CallersKnowHistory == Spec => []AnswersMatchHistory
<1>1. IInv => AnswersMatchHistory
  BY Zenon DEF IInv, Attempts, AttemptOK, AnswersMatchHistory, Holding
<1>. QED
  BY InitInvariant, NextInvariant, <1>1, PTL DEF Spec
-----------------------------------------------------------------------------
(* The permits of a scope.                                                 *)

ScopeHolders(s) == {u \in Holding(HasScope) : ScopeOf[u] = s}

(* ScopeBounded counts the runs that are under way; the permits they hold  *)
(* are what the steps count, from the acquisition until the answer.        *)
ScopesFit == \A s \in STRING : Cardinality(ScopeHolders(s)) <= PerScope

LEMMA HoldersFinite ==
    ASSUME NEW s
    PROVE  IsFiniteSet(ScopeHolders(s)) /\ Cardinality(ScopeHolders(s)) \in Nat
<1>1. ScopeHolders(s) \subseteq Tasks
  BY Zenon DEF ScopeHolders, Holding
<1>2. IsFiniteSet(ScopeHolders(s))
  BY <1>1, FS_Subset, SchedulerAssumption
<1>. QED
  BY <1>2, FS_CardinalityType

(* A step in which no task gains a scope permit. *)
LEMMA NoScopeTaken ==
    ASSUME ScopesFit, \A t \in Tasks : task'[t].pc \in HasScope => task[t].pc \in HasScope
    PROVE  ScopesFit'
<1>. SUFFICES ASSUME NEW s \in STRING PROVE Cardinality(ScopeHolders(s)') <= PerScope
  BY Zenon DEF ScopesFit
<1>1. ScopeHolders(s)' \in SUBSET ScopeHolders(s)
  BY Zenon DEF ScopeHolders, Holding
<1>2. IsFiniteSet(ScopeHolders(s)) /\ Cardinality(ScopeHolders(s)) \in Nat
  BY HoldersFinite
<1>3. IsFiniteSet(ScopeHolders(s)') /\ Cardinality(ScopeHolders(s)') <= Cardinality(ScopeHolders(s))
  BY <1>1, <1>2, FS_Subset
<1>4. Cardinality(ScopeHolders(s)') \in Nat
  BY <1>3, FS_CardinalityType
<1>5. Cardinality(ScopeHolders(s)) <= PerScope /\ PerScope \in Nat
  BY SchedulerAssumption DEF ScopesFit
<1>. HIDE DEF ScopesFit
<1>. QED
  BY <1>2, <1>3, <1>4, <1>5

(* The one step that takes a permit finds one free. *)
LEMMA ScopeTaken ==
    ASSUME TypeOK, ScopesFit, NEW t \in Tasks, AcquireScope(t)
    PROVE  ScopesFit'
<1>. USE DEF HasScope
<1>1. /\ task'[t].pc = "ready" /\ task[t].pc = "scope"
      /\ \A u \in Tasks \ {t} : task'[u] = task[u]
  BY Zenon DEF AcquireScope, Goto, TypeOK
<1>. SUFFICES ASSUME NEW s \in STRING PROVE Cardinality(ScopeHolders(s)') <= PerScope
  BY Zenon DEF ScopesFit
<1>2. IsFiniteSet(ScopeHolders(s)) /\ Cardinality(ScopeHolders(s)) \in Nat /\ PerScope \in Nat
  BY HoldersFinite, SchedulerAssumption
<1>3. CASE s = ScopeOf[t]
  <2>1. ScopeHolders(s)' = ScopeHolders(s) \cup {t} /\ t \notin ScopeHolders(s)
    BY <1>1, <1>3 DEF ScopeHolders, Holding
  <2>2. Cardinality(ScopeHolders(s)) < PerScope
    BY <1>3 DEF AcquireScope, ScopeHolders
  <2>3. Cardinality(ScopeHolders(s)') = Cardinality(ScopeHolders(s)) + 1
    BY <1>2, <2>1, FS_AddElement, Zenon
  <2>4. \A c, limit \in Nat : c < limit => c + 1 <= limit
    OBVIOUS
  <2>5. Cardinality(ScopeHolders(s)) + 1 <= PerScope
    BY <1>2, <2>2, <2>4, Zenon
  <2>. QED
    BY <2>3, <2>5, Zenon
<1>4. CASE s # ScopeOf[t]
  <2>1. ScopeHolders(s)' = ScopeHolders(s)
    BY <1>1, <1>4 DEF ScopeHolders, Holding
  <2>. QED
    BY <2>1, Zenon DEF ScopesFit
<1>. QED
  BY <1>3, <1>4, Zenon

LEMMA ScopesStayFit == TypeOK /\ ScopesFit /\ [Next]_vars => ScopesFit'
<1>. SUFFICES ASSUME TypeOK, ScopesFit, [Next]_vars PROVE ScopesFit'
  OBVIOUS
<1>. USE DEF HasScope, Goto, Ends, Out
<1>0. task \in [Tasks -> TaskType(Len(runs))]
  BY Zenon DEF TypeOK, TaskType
<1>1. ASSUME NEW t \in Tasks, NEW pc, Goto(t, pc) \/ \E o : Ends(t, pc, o),
             pc \in HasScope => task[t].pc \in HasScope
      PROVE  \A u \in Tasks : task'[u].pc \in HasScope => task[u].pc \in HasScope
  BY <1>0, <1>1, ZenonT(60) DEF TaskType
<1>. HIDE DEF Goto, Ends, Out
<1>2. ASSUME NEW t \in Tasks,
             \/ Submit(t) \/ Admit(t) \/ Spawn(t) \/ AcquireWorker(t) \/ AcquireKind(t)
             \/ Fence(t) \/ Close(t) \/ Release(t)
             \/ \E outcome \in Outcomes : EndBody(t, outcome)
      PROVE  ScopesFit'
  <2>1. CASE Submit(t)
    <3>1. Goto(t, "admitting")
      BY <2>1, Zenon DEF Submit
    <3>. QED
      BY <1>1, <3>1, NoScopeTaken, Zenon
  <2>2. CASE Admit(t)
    <3>1. Goto(t, "out") \/ Goto(t, "spawning")
      BY <2>2 DEF Admit
    <3>. QED
      BY <1>1, <3>1, NoScopeTaken, Zenon
  <2>3. CASE Spawn(t)
    <3>1. Goto(t, "worker")
      BY <2>3 DEF Spawn
    <3>. QED
      BY <1>1, <3>1, NoScopeTaken
  <2>4. CASE AcquireWorker(t) \/ AcquireKind(t)
    <3>1. Goto(t, "kind") \/ Goto(t, "scope")
      BY <2>4 DEF AcquireWorker, AcquireKind
    <3>. QED
      BY <1>1, <3>1, NoScopeTaken
  <2>5. CASE \/ Fence(t) \/ Close(t) \/ Release(t)
             \/ \E outcome \in Outcomes : EndBody(t, outcome)
    <3>1. task[t].pc \in HasScope
      BY <2>5 DEF Fence, Close, Release, EndBody
    <3>2. \E pc : Goto(t, pc) \/ \E o : Ends(t, pc, o)
      BY <2>5 DEF Fence, Close, Release, EndBody
    <3>. QED
      BY <1>1, <3>1, <3>2, NoScopeTaken
  <2>. QED
    BY <1>2, <2>1, <2>2, <2>3, <2>4, <2>5, Zenon
<1>3. ASSUME NEW t \in Tasks, Execute(t) PROVE ScopesFit'
  <2>1. \A u \in Tasks : task'[u].pc \in HasScope => task[u].pc \in HasScope
    BY <1>0, <1>3, Zenon DEF Execute, Goto, Ends, TaskType
  <2>. QED
    BY <2>1, NoScopeTaken
<1>4. ASSUME NEW t \in Tasks, CancelRun(t) \/ Settle(t) \/ Leave(t) PROVE ScopesFit'
  <2>1. \A u \in Tasks : task'[u].pc \in HasScope => task[u].pc \in HasScope
    BY <1>0, <1>4 DEF CancelRun, Settle, Leave, Goto, Ends, Out, TaskType
  <2>. QED
    BY <2>1, NoScopeTaken, Zenon
<1>5. ASSUME UNCHANGED task PROVE ScopesFit'
  BY <1>5, NoScopeTaken
<1>6. ASSUME NEW m, Exit(m) PROVE ScopesFit'
  <2>1. \A u \in Tasks : task'[u].pc \in HasScope => task[u].pc \in HasScope
    BY <1>6 DEF Exit, Out
  <2>. QED
    BY <2>1, NoScopeTaken
<1>7. ASSUME NEW t \in Tasks, Prune(t) PROVE ScopesFit'
  BY <1>5, <1>7 DEF Prune
<1>8. CASE \/ Shutdown \/ ShutdownReturns \/ Restart \/ recover_interrupted_job_run_batch
           \/ UNCHANGED vars
  BY <1>5, <1>8 DEF Shutdown, ShutdownReturns, Restart, recover_interrupted_job_run_batch, vars
<1>9. CASE Stop \/ Crash
  BY <1>6, <1>9 DEF Stop, Crash
<1>. QED
  BY <1>2, <1>3, <1>4, <1>7, <1>8, <1>9, ScopeTaken DEF Next

(* At most PerScope runs of one scope are under way, whatever their kinds  *)
(* and however admissions, cancellations, crashes and restarts interleave. *)
THEOREM ScopesStayBounded == Spec => []ScopeBounded
<1>1. Init => ScopesFit
  <2>. SUFFICES ASSUME Init, NEW s \in STRING PROVE Cardinality(ScopeHolders(s)) <= PerScope
    BY Zenon DEF ScopesFit
  <2>1. ScopeHolders(s) = {}
    BY Zenon DEF Init, Out, ScopeHolders, Holding, HasScope
  <2>. QED
    BY <2>1, FS_EmptySet, SchedulerAssumption
<1>2. ScopesFit => ScopeBounded
  <2>. SUFFICES ASSUME ScopesFit, NEW t \in Holding(Working)
                PROVE  Cardinality({u \in Holding(Working) : ScopeOf[u] = ScopeOf[t]}) <= PerScope
    BY Zenon DEF ScopeBounded
  <2>. DEFINE s == ScopeOf[t]
              W == {u \in Holding(Working) : ScopeOf[u] = s}
  <2>1. W \in SUBSET ScopeHolders(s) /\ s \in STRING
    BY SchedulerAssumption, Zenon DEF ScopeHolders, Holding, Working, HasScope
  <2>. HIDE DEF s
  <2>2. IsFiniteSet(ScopeHolders(s)) /\ Cardinality(ScopeHolders(s)) \in Nat
    BY HoldersFinite, Zenon
  <2>3. IsFiniteSet(W) /\ Cardinality(W) <= Cardinality(ScopeHolders(s))
    BY <2>1, <2>2, FS_Subset, Zenon
  <2>4. Cardinality(W) \in Nat
    BY <2>3, FS_CardinalityType
  <2>5. Cardinality(ScopeHolders(s)) <= PerScope /\ PerScope \in Nat
    BY <2>1, SchedulerAssumption DEF ScopesFit
  <2>6. Cardinality(W) <= PerScope
    BY <2>2, <2>3, <2>4, <2>5
  <2>. QED
    BY <2>6, Zenon DEF s
<1>. QED
  BY TypeCorrect, ScopesStayFit, <1>1, <1>2, PTL DEF Spec
=============================================================================
