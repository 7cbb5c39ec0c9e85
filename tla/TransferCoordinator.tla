------------------------- MODULE TransferCoordinator -------------------------
(***************************************************************************)
(* Planned moves of an authority: the plan (peryx-ha-distributed/src/      *)
(* transfer.rs), the coordinator of each process that drives plans and     *)
(* resolves cancellations against them (authority_transfer.rs), and the    *)
(* requests that start and cancel them (control_http.rs).                  *)
(*                                                                         *)
(* A driver probes the target until it has the metadata serial its node    *)
(* had when the move was asked for, claims the commit and submits one      *)
(* keyed command to consensus, holding the plan's lock across neither.     *)
(* The replicated window that resolves the key is ControlWindow's; here a  *)
(* key, once bound, stays bound.                                           *)
(***************************************************************************)
EXTENDS ControlGroup, Naturals, Sequences

CONSTANTS
    Home, Target,   \* where the authorities live and where they are moved to
    Authorities,
    Ids,            \* transfer identities, from the Idempotency-Key header
    Budget,         \* observation budget of a run
    Retained,       \* size of the abandonment window
    MaxPlans,       \* bound on plans started
    MaxSerial       \* bound on metadata writes

ASSUME TransferAssumption ==
    /\ Home \in Nodes /\ Target \in Nodes /\ None \notin Ids
    /\ Budget \in Nat /\ Retained \in Nat /\ MaxPlans \in Nat /\ MaxSerial \in Nat

VARIABLES
    serial,     \* per node, the metadata serial it has persisted
    plan,       \* every plan started, by number
    running,    \* per node and authority, the registered plan or 0
    abandoned,  \* per node, the window of authorities not moved
    log,        \* commands submitted to consensus and not yet applied
    decided,    \* per identity, the command bound to it and its plan
    cancel,     \* per node, the cancellation it is serving
    latest,     \* history: per node and authority, the last plan retired
    called_off  \* history: plans whose cancellation was answered with Ok

vars == <<serial, plan, running, abandoned, log, decided, cancel, latest, called_off>>

Plans == 1..MaxPlans

NoPlan == [pc |-> "unused", phase |-> "AwaitingCatchUp", node |-> None, authority |-> None,
           id |-> None, barrier |-> 0, left |-> 0, seen |-> 0, cancelled |-> FALSE]
NoCancel == [pc |-> "free", plan |-> 0]
NoDecision == [plan |-> 0, authority |-> None, barrier |-> 0]

Init ==
    /\ serial = [n \in Nodes |-> 0]
    /\ plan = [p \in Plans |-> NoPlan]
    /\ running = [n \in Nodes |-> [a \in Authorities |-> 0]]
    /\ abandoned = [n \in Nodes |-> <<>>]
    /\ log = {}
    /\ decided = [i \in Ids |-> NoDecision]
    /\ cancel = [n \in Nodes |-> NoCancel]
    /\ latest = [n \in Nodes |-> [a \in Authorities |-> 0]]
    /\ called_off = {}

(* The plan's driver goes on at pc, with the plan in phase. *)
Drive(p, pc, phase) == plan' = [plan EXCEPT ![p].pc = pc, ![p].phase = phase]

(* The plan without the state of the driver it no longer has. *)
Undriven(q, pc) == [q EXCEPT !.pc = pc, !.left = 0, !.seen = 0, !.cancelled = FALSE]

-----------------------------------------------------------------------------
(* The driver of a plan.                                                   *)

(* start_transfer and TransferCoordinator::run: an authority with a        *)
(* registered plan is Busy.                                                *)
Start(n, a, i, p) ==
    /\ plan[p].pc = "unused" /\ \A q \in Plans : q < p => plan[q].pc # "unused"
    /\ running[n][a] = 0
    /\ running' = [running EXCEPT ![n][a] = p]
    /\ plan' = [plan EXCEPT ![p] =
                  [NoPlan EXCEPT !.pc = "probing", !.node = n, !.authority = a, !.id = i,
                                 !.barrier = serial[n], !.left = Budget]]
    /\ UNCHANGED <<serial, abandoned, log, decided, cancel, latest, called_off>>

(* RosterFrontierSource: what the target reports, or nothing, which counts *)
(* as zero.                                                                *)
applied_frontier == {serial[Target], 0}

(* The answer to a probe arrives; it is looked at under the plan's lock. *)
Probe(p) ==
    /\ plan[p].pc = "probing"
    /\ \E frontier \in applied_frontier :
         plan' = [plan EXCEPT ![p].pc = "observing", ![p].seen = frontier]
    /\ UNCHANGED <<serial, running, abandoned, log, decided, cancel, latest, called_off>>

(* Deliberately wrong variant: a probe that saw nothing satisfies the barrier. *)
observe_frontier_unknown(q) ==
    IF q.phase = "AwaitingCatchUp" /\ (q.seen = 0 \/ q.seen >= q.barrier) THEN "Ready" ELSE q.phase

observe_frontier(q) ==
    IF q.phase = "AwaitingCatchUp" /\ q.seen >= q.barrier THEN "Ready" ELSE q.phase

(* until_cancelled: a cancelled transfer stops waiting.  A probe that      *)
(* cannot be made ends the run as well.                                    *)
StopWaiting(p) ==
    /\ plan[p].pc \in {"probing", "observing", "polling"}
    /\ plan[p].cancelled \/ plan[p].pc = "probing"
    /\ Drive(p, "retiring", plan[p].phase)
    /\ UNCHANGED <<serial, running, abandoned, log, decided, cancel, latest, called_off>>

Observe(p) ==
    LET phase == observe_frontier(plan[p])
    IN  /\ plan[p].pc = "observing" /\ ~plan[p].cancelled
        /\ Drive(p, IF phase = "AwaitingCatchUp" THEN "polling" ELSE "committing", phase)
        /\ UNCHANGED <<serial, running, abandoned, log, decided, cancel, latest, called_off>>

(* Deliberately wrong variant: the budget is never used up. *)
Poll_forever(p) ==
    /\ plan[p].pc = "polling" /\ ~plan[p].cancelled
    /\ Drive(p, "probing", plan[p].phase)
    /\ UNCHANGED <<serial, running, abandoned, log, decided, cancel, latest, called_off>>

(* The wait between two probes, or BarrierNotReached after the last. *)
Poll(p) ==
    /\ plan[p].pc = "polling" /\ ~plan[p].cancelled
    /\ plan' = [plan EXCEPT ![p].pc = IF plan[p].left > 1 THEN "probing" ELSE "retiring",
                            ![p].left = @ - 1]
    /\ UNCHANGED <<serial, running, abandoned, log, decided, cancel, latest, called_off>>

(* Deliberately wrong variant: only the barrier is asked for. *)
begin_commit_any(q) == q.phase # "AwaitingCatchUp"

(* Whether the commit may be claimed: the phase is neither before the      *)
(* barrier nor Cancelled.                                                  *)
begin_commit(q) == q.phase \in {"Ready", "Committing"}

Claim(p) ==
    /\ plan[p].pc = "committing"
    /\ IF begin_commit(plan[p])
       THEN Drive(p, "executing", "Committing")
       ELSE Drive(p, "retiring", plan[p].phase)
    /\ UNCHANGED <<serial, running, abandoned, log, decided, cancel, latest, called_off>>

Command(p) ==
    [plan |-> p, id |-> plan[p].id, authority |-> plan[p].authority, barrier |-> plan[p].barrier]

Submit(p) ==
    /\ plan[p].pc = "executing"
    /\ Drive(p, "awaiting", plan[p].phase)
    /\ log' = log \cup {Command(p)}
    /\ UNCHANGED <<serial, running, abandoned, decided, cancel, latest, called_off>>

(* Leadership is lost or the command times out; it may still be applied,   *)
(* so the claim stands.                                                    *)
Unanswered(p) ==
    /\ plan[p].pc = "awaiting"
    /\ Drive(p, "retiring", plan[p].phase)
    /\ UNCHANGED <<serial, running, abandoned, log, decided, cancel, latest, called_off>>

(* refused_before_submission: Overloaded, or KeyReuse in the process's own *)
(* cache of keys.                                                          *)
Refused(p) ==
    /\ plan[p].pc = "executing"
    /\ Drive(p, "retiring", "Ready")
    /\ UNCHANGED <<serial, running, abandoned, log, decided, cancel, latest, called_off>>

(* The receipt arrived and seals the plan.  Storing its audit is           *)
(* ControlWindow's.                                                        *)
Seal(p) ==
    /\ plan[p].pc = "sealing"
    /\ Drive(p, "retiring", "Committed")
    /\ UNCHANGED <<serial, running, abandoned, log, decided, cancel, latest, called_off>>

(* Registry::retire.  A name is in the window once at most, so to retain   *)
(* the others is to take out one position; the most recent ones are kept.  *)
Without(window, a) ==
    IF \E k \in DOMAIN window : window[k] = a
    THEN LET k == CHOOSE j \in DOMAIN window : window[j] = a
         IN  SubSeq(window, 1, k - 1) \o SubSeq(window, k + 1, Len(window))
    ELSE window

retire(window, a, keep) ==
    LET grown == Append(Without(window, a), a)
    IN  IF ~keep THEN Without(window, a)
        ELSE IF Len(grown) > Retained THEN SubSeq(grown, Len(grown) - Retained + 1, Len(grown))
        ELSE grown

Retire(p) ==
    LET n == plan[p].node
        a == plan[p].authority
    IN  /\ plan[p].pc = "retiring"
        /\ plan' = [plan EXCEPT ![p] = Undriven(@, "ended")]
        /\ running' = [running EXCEPT ![n][a] = 0]
        /\ abandoned' = [abandoned EXCEPT ![n] =
                           retire(@, a, plan[p].phase \in {"AwaitingCatchUp", "Ready", "Cancelled"})]
        /\ latest' = [latest EXCEPT ![n][a] = p]
        /\ UNCHANGED <<serial, log, decided, cancel, called_off>>

Driven == {"probing", "observing", "polling", "committing", "executing", "awaiting", "sealing", "retiring"}

(* The client that asked for the move goes away: its handler is dropped,   *)
(* and what follows the await it stood at never runs.                      *)
ClientGone(p) ==
    /\ plan[p].pc \in Driven
    /\ plan' = [plan EXCEPT ![p] = Undriven(@, "dropped")]
    /\ UNCHANGED <<serial, running, abandoned, log, decided, cancel, latest, called_off>>

-----------------------------------------------------------------------------
(* Cancellation.                                                           *)

(* TransferCoordinator::cancel up to the plan's lock.  An authority that   *)
(* is not registered is answered with Ok from the window; one in neither   *)
(* is refused or unknown, which changes nothing.                           *)
Cancel(n, a) ==
    LET p == running[n][a]
        named == \E k \in DOMAIN abandoned[n] : abandoned[n][k] = a
    IN  /\ cancel[n].pc = "free"
        /\ \/ /\ p # 0
              /\ cancel' = [cancel EXCEPT ![n] = [pc |-> "found", plan |-> p]]
              /\ UNCHANGED called_off
           \/ /\ p = 0 /\ named
              /\ called_off' = called_off \cup {latest[n][a]}
              /\ UNCHANGED cancel
        /\ UNCHANGED <<serial, plan, running, abandoned, log, decided, latest>>

(* TransferPlan::cancel, under the plan's lock: a claimed or committed     *)
(* plan refuses.                                                           *)
CancelPlan(n) ==
    LET p == cancel[n].plan
    IN  /\ cancel[n].pc = "found"
        /\ IF plan[p].phase \in {"Committing", "Committed"}
           THEN /\ cancel' = [cancel EXCEPT ![n] = NoCancel]
                /\ UNCHANGED plan
           ELSE /\ cancel' = [cancel EXCEPT ![n].pc = "signalling"]
                /\ plan' = [plan EXCEPT ![p].phase = "Cancelled"]
        /\ UNCHANGED <<serial, running, abandoned, log, decided, latest, called_off>>

(* The token that takes the driver out of its wait, and the answer Ok. *)
Signal(n) ==
    LET p == cancel[n].plan
    IN  /\ cancel[n].pc = "signalling"
        /\ plan' = [plan EXCEPT ![p].cancelled = (plan[p].pc \in Driven)]
        /\ cancel' = [cancel EXCEPT ![n] = NoCancel]
        /\ called_off' = called_off \cup {p}
        /\ UNCHANGED <<serial, running, abandoned, log, decided, latest>>

-----------------------------------------------------------------------------
(* Consensus, the metadata store and the process.                          *)

(* The driver of c's plan gets the answer if it still waits. *)
Respond(c, pc, phase) ==
    IF plan[c.plan].pc = "awaiting" THEN Drive(c.plan, pc, phase) ELSE UNCHANGED plan

(* OwnershipState::attempt_control: an unbound identity is decided or the  *)
(* move rejected, a bound one replays its receipt for the same command.    *)
Apply(c) ==
    LET bound == decided[c.id]
    IN  /\ log' = log \ {c}
        /\ \/ /\ bound.plan = 0
              /\ decided' = [decided EXCEPT ![c.id] =
                               [plan |-> c.plan, authority |-> c.authority, barrier |-> c.barrier]]
              /\ Respond(c, "sealing", "Committing")
           \/ /\ bound.plan = 0
              /\ Respond(c, "retiring", "Committing")
              /\ UNCHANGED decided
           \/ /\ bound.plan # 0
              /\ IF bound.authority = c.authority /\ bound.barrier = c.barrier
                 THEN Respond(c, "sealing", "Committing")
                 ELSE Respond(c, "retiring", "Ready")
              /\ UNCHANGED decided
        /\ UNCHANGED <<serial, running, abandoned, cancel, latest, called_off>>

(* A write at home; another node copies the next serial. *)
Write(n) ==
    /\ serial[n] < IF n = Home THEN MaxSerial ELSE serial[Home]
    /\ serial' = [serial EXCEPT ![n] = @ + 1]
    /\ UNCHANGED <<plan, running, abandoned, log, decided, cancel, latest, called_off>>

Crash(n) ==
    /\ \E a \in Authorities : latest[n][a] # 0 \/ running[n][a] # 0
    /\ plan' = [p \in Plans |->
                  IF plan[p].node = n /\ plan[p].pc \in Driven \cup {"dropped"}
                  THEN Undriven(plan[p], "ended") ELSE plan[p]]
    /\ running' = [running EXCEPT ![n] = [a \in Authorities |-> 0]]
    /\ abandoned' = [abandoned EXCEPT ![n] = <<>>]
    /\ cancel' = [cancel EXCEPT ![n] = NoCancel]
    /\ latest' = [latest EXCEPT ![n] = [a \in Authorities |-> 0]]
    /\ UNCHANGED <<serial, log, decided, called_off>>

Step(p) ==
    Probe(p) \/ StopWaiting(p) \/ Observe(p) \/ Poll(p) \/ Claim(p) \/ Submit(p) \/ Refused(p)
        \/ Unanswered(p) \/ Seal(p) \/ Retire(p)

Next ==
    \/ \E n \in Nodes, a \in Authorities, i \in Ids, p \in Plans : Start(n, a, i, p)
    \/ \E p \in Plans : Step(p) \/ ClientGone(p)
    \/ \E n \in Nodes, a \in Authorities : Cancel(n, a)
    \/ \E n \in Nodes : CancelPlan(n) \/ Signal(n) \/ Write(n) \/ Crash(n)
    \/ \E c \in log : Apply(c)

Spec == Init /\ [][Next]_vars

(* Probes, polls and submissions all end, in an answer or a timeout, and a *)
(* cancellation is served by a task of its own.                            *)
Fairness ==
    /\ \A p \in Plans : WF_vars(Step(p))
    /\ \A n \in Nodes : WF_vars(CancelPlan(n)) /\ WF_vars(Signal(n))

FairSpec == Spec /\ Fairness

-----------------------------------------------------------------------------
(* Properties.                                                             *)

(* A plan whose cancellation was answered with Ok never reaches consensus: *)
(* its command is in no log and decided nothing, then or later             *)
(* (authority_transfer.rs: "preventing a cancelled move from reaching      *)
(* consensus").                                                            *)
CalledOffNeverMoves ==
    \A p \in called_off :
        /\ \A c \in log : c.plan # p
        /\ \A i \in Ids : decided[i].plan # p

(* A move is submitted and decided only once the target has persisted what *)
(* the coordinating node had when the move was asked for, however stale    *)
(* the observation (transfer.rs, observe_frontier and begin_commit).       *)
MovesAtBarrier ==
    /\ \A c \in log : serial[Target] >= c.barrier
    /\ \A i \in Ids : serial[Target] >= decided[i].barrier

(* A run comes to its end and frees the authority for the next one, unless *)
(* its client went away (drive: the budget bounds the observations).       *)
RunsEnd ==
    \A p \in Plans : plan[p].pc \in Driven ~> plan[p].pc \in {"ended", "dropped"}
=============================================================================
