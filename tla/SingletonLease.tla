--------------------------- MODULE SingletonLease ---------------------------
(***************************************************************************)
(* One cluster-singleton job: the grant kept by the ownership state        *)
(* machine (peryx-ha-distributed/src/ownership.rs) and the runners that    *)
(* compete for it (peryx-driver/src/jobs/scheduler.rs).                    *)
(*                                                                         *)
(* A runner claims the grant, runs the job body beside a renewal task, and *)
(* gives the grant back; the answer to that release decides whether the    *)
(* run counts.  A request travels to the leader for as long as it likes or *)
(* is lost; the leader stamps it with its own clock as it enters the log   *)
(* (raft/node.rs), and consensus applies the log in order.  The runner may *)
(* have stopped waiting by then.  A holder is one process incarnation: a   *)
(* restart is a new holder.                                                *)
(***************************************************************************)
EXTENDS LeaseClock, FiniteSets, Sequences

CONSTANTS
    Holders,        \* process incarnations
    MaxGeneration,  \* bound on grants
    MaxTerm         \* bound on consensus terms

(* Any bounds, any lease length and any skew will do. *)
Configured ==
    /\ None \notin Holders
    /\ Skew \in Nat /\ LeaseSecs \in Nat \ {0} /\ Drift \in Nat
    /\ MaxInFlight \in Nat /\ MaxTime \in Nat /\ MaxGeneration \in Nat /\ MaxTerm \in Nat

ASSUME SingletonAssumption == Configured

VARIABLES
    term,       \* the consensus term entries are committed under
    grant,      \* the replicated SingletonRecord
    net,        \* requests on their way to the leader
    entries,    \* requests stamped, in the leader's log and not yet applied
    run         \* per holder, its runner

singletonVars == <<now, term, grant, net, entries, run>>

-----------------------------------------------------------------------------
(* The replicated record.  `holder` is None when nothing is held.          *)

Grant(generation, holder, t, expires) ==
    [generation |-> generation, holder |-> holder, term |-> t, expires |-> expires]

(* A released record keeps its generation. *)
Freed(g) == Grant(g.generation, None, 0, 0)

lapsed(g, t) == t >= g.expires + Skew

Held(g, t) == g.holder # None /\ ~lapsed(g, t)

bounded_singleton_lease(t, expires) == expires > t /\ expires - t <= LeaseSecs

owned_singleton(g, h, t0, generation, t) ==
    Held(g, t) /\ g.holder = h /\ g.term = t0 /\ g.generation = generation

acquirable(g, t) == ~Held(g, t)

(* The next grant: one generation up, under the term it is committed in. *)
acquire_singleton(g, c) == Grant(g.generation + 1, c.holder, term, c.issued + LeaseSecs)

(* What a holder may believe of its own grant without asking. *)
singleton_grant_admits(expires, t) == t + Skew < expires

-----------------------------------------------------------------------------
(* A runner.                                                               *)

(* `term` and `generation` identify the run's grant, `until` is its        *)
(* freshest committed deadline, `ok` whether the body left an outcome.     *)
Runner(pc, t0, generation, until, renewal, ok) ==
    [pc |-> pc, term |-> t0, generation |-> generation, until |-> until,
     renewal |-> renewal, ok |-> ok]

Resting(pc) == Runner(pc, 0, 0, 0, "stopped", FALSE)

(* The same run with its renewal task in another state. *)
Renewal(r, renewal) == Runner(r.pc, r.term, r.generation, r.until, renewal, r.ok)

(* `live` while the runner waits for the answer. *)
JobRequest(op, h) ==
    [op |-> op, holder |-> h, term |-> run[h].term, generation |-> run[h].generation, live |-> TRUE]

Send(op, h) ==
    /\ Cardinality(net) + Len(entries) < MaxInFlight
    /\ net' = net \cup {JobRequest(op, h)}
    /\ entries' = entries

(* The runner waits no longer; its request goes on. *)
Orphaned(h, c) == IF c.holder = h THEN [c EXCEPT !.live = FALSE] ELSE c

StopWaiting(h) ==
    /\ net' = {Orphaned(h, c) : c \in net}
    /\ entries' = [i \in DOMAIN entries |-> Orphaned(h, entries[i])]

SingletonInit ==
    /\ now = 0
    /\ term = 1
    /\ grant = Grant(0, None, 0, 0)
    /\ net = {}
    /\ entries = <<>>
    /\ run = [h \in Holders |-> Resting("idle")]

(* The scheduler starts a run: claim_singleton. *)
ClaimJob(h) ==
    /\ run[h].pc \in {"idle", "counted"}
    /\ Send("Acquire", h)
    /\ run' = [run EXCEPT ![h] = Resting("claiming")]
    /\ UNCHANGED <<now, term, grant>>

(* The claim goes unanswered; it may be applied all the same. *)
ClaimUnanswered(h) ==
    /\ run[h].pc = "claiming"
    /\ run' = [run EXCEPT ![h] = Resting("idle")]
    /\ StopWaiting(h)
    /\ UNCHANGED <<now, term, grant>>

(* The renewal task: one request at a time, awaited. *)
Renew(h) ==
    /\ run[h].pc = "running" /\ run[h].renewal = "armed"
    /\ Send("Renew", h)
    /\ run' = [run EXCEPT ![h] = Renewal(@, "sent")]
    /\ UNCHANGED <<now, term, grant>>

(* An unanswered renewal is retried until the freshest grant has lapsed by *)
(* the holder's own margin, then the body is cancelled.                    *)
RenewUnanswered(h) ==
    /\ run[h].pc = "running" /\ run[h].renewal = "sent"
    /\ \E t \in Reading :
         run' = [run EXCEPT ![h] =
                   Renewal(@, IF singleton_grant_admits(@.until, t) THEN "armed" ELSE "stopped")]
    /\ StopWaiting(h)
    /\ UNCHANGED <<now, term, grant>>

(* The scheduler shuts down or an operator cancels the attempt.  Renewals  *)
(* stop between two requests; the body goes on until it notices.           *)
Cancel(h) ==
    /\ run[h].pc = "running" /\ run[h].renewal = "armed"
    /\ run' = [run EXCEPT ![h] = Renewal(@, "stopped")]
    /\ UNCHANGED <<now, term, grant, net, entries>>

(* The body returns, with an outcome to count or without one.  Renewals    *)
(* stop; a run that was told it lost the grant asks nothing more.          *)
EndBody(h, ok) ==
    /\ run[h].pc = "running"
    /\ IF run[h].renewal = "lost"
       THEN /\ run' = [run EXCEPT ![h] = Resting("idle")]
            /\ UNCHANGED <<net, entries>>
       ELSE /\ run' = [run EXCEPT ![h] =
                          Runner("releasing", @.term, @.generation, @.until, "stopped", ok)]
            /\ Send("Release", h)
    /\ UNCHANGED <<now, term, grant>>

(* Deliberately wrong variant: an unanswered release always counts. *)
ReleaseUnanswered_trusting(h) ==
    /\ run[h].pc = "releasing"
    /\ run' = [run EXCEPT ![h] = Resting(IF @.ok THEN "counted" ELSE "idle")]
    /\ StopWaiting(h)
    /\ UNCHANGED <<now, term, grant>>

(* An unanswered release: the outcome stands while the freshest committed  *)
(* grant still reaches past now.                                           *)
ReleaseUnanswered(h) ==
    /\ run[h].pc = "releasing"
    /\ \E t \in Reading :
         run' = [run EXCEPT ![h] =
                   Resting(IF @.ok /\ singleton_grant_admits(@.until, t) THEN "counted" ELSE "idle")]
    /\ StopWaiting(h)
    /\ UNCHANGED <<now, term, grant>>

(* The process dies and never comes back under this identity. *)
Crash(h) ==
    /\ run[h].pc # "dead"
    /\ run' = [run EXCEPT ![h] = Resting("dead")]
    /\ StopWaiting(h)
    /\ UNCHANGED <<now, term, grant>>

-----------------------------------------------------------------------------
(* The leader and the log.                                                 *)

Entry(c, t) ==
    [op |-> c.op, holder |-> c.holder, term |-> c.term, generation |-> c.generation, live |-> c.live,
     issued |-> t]

(* Deliberately wrong variant: the stamp stays the sender's, taken when    *)
(* the request was sent.                                                   *)
stamp_sender_time == 0..(now + Drift)

(* A request reaches the leader, which stamps it as it enters the log. *)
stamp_leader_time == Reading

Reach(c) ==
    /\ \E t \in stamp_leader_time : entries' = Append(entries, Entry(c, t))
    /\ net' = net \ {c}
    /\ UNCHANGED <<now, term, grant, run>>

Lose(c) ==
    /\ net' = net \ {c}
    /\ UNCHANGED <<now, term, grant, entries, run>>

(* Consensus applies the next entry and answers the runner still waiting. *)
Applies(c, op) == c.op = op /\ entries' = Tail(entries) /\ net' = net

ApplyAcquire(c) ==
    LET h == c.holder
        next == acquire_singleton(grant, c)
        granted == bounded_singleton_lease(c.issued, next.expires) /\ acquirable(grant, c.issued)
    IN  /\ Applies(c, "Acquire")
        /\ granted => next.generation <= MaxGeneration
        /\ grant' = IF granted THEN next ELSE grant
        /\ run' = [run EXCEPT ![h] =
                     IF ~c.live \/ @.pc # "claiming" THEN @
                     ELSE IF granted THEN Runner("running", next.term, next.generation, next.expires, "armed", FALSE)
                     ELSE Resting("idle")]
        /\ UNCHANGED <<now, term>>

(* Request c is the one runner h is waiting for. *)
Awaited(c, h) ==
    c.live /\ run[h].pc = "running" /\ run[h].renewal = "sent" /\ run[h].generation = c.generation

(* A renewal moves the deadline to its own clock reading plus the lease;   *)
(* a refused one cancels the run.                                          *)
ApplyRenew(c) ==
    LET h == c.holder
        expires == c.issued + LeaseSecs
        owned == owned_singleton(grant, h, c.term, c.generation, c.issued)
    IN  /\ Applies(c, "Renew")
        /\ grant' = IF owned THEN Grant(grant.generation, h, c.term, expires) ELSE grant
        /\ run' = [run EXCEPT ![h] =
                     IF ~Awaited(c, h) THEN @
                     ELSE IF owned THEN Runner("running", @.term, @.generation, expires, "armed", FALSE)
                     ELSE Renewal(@, "lost")]
        /\ UNCHANGED <<now, term>>

ApplyRelease(c) ==
    LET h == c.holder
        owned == owned_singleton(grant, h, c.term, c.generation, c.issued)
    IN  /\ Applies(c, "Release")
        /\ grant' = IF owned THEN Freed(grant) ELSE grant
        /\ run' = [run EXCEPT ![h] =
                     IF @.pc # "releasing" \/ @.generation # c.generation THEN @
                     ELSE Resting(IF owned /\ @.ok THEN "counted" ELSE "idle")]
        /\ UNCHANGED <<now, term>>

(* Another leader is elected; it has a prefix of the entries not applied. *)
NewLeader ==
    /\ term < MaxTerm
    /\ term' = term + 1
    /\ \E kept \in 0..Len(entries) : entries' = SubSeq(entries, 1, kept)
    /\ UNCHANGED <<now, grant, net, run>>

SingletonTick ==
    /\ now < MaxTime
    /\ now' = now + 1
    /\ UNCHANGED <<term, grant, net, entries, run>>

SingletonNext ==
    \/ \E h \in Holders :
         \/ ClaimJob(h) \/ ClaimUnanswered(h)
         \/ Renew(h) \/ RenewUnanswered(h)
         \/ Cancel(h)
         \/ \E ok \in BOOLEAN : EndBody(h, ok)
         \/ ReleaseUnanswered(h)
         \/ Crash(h)
    \/ \E c \in net : Reach(c) \/ Lose(c)
    \/ /\ entries # <<>>
       /\ \/ ApplyAcquire(Head(entries))
          \/ ApplyRenew(Head(entries))
          \/ ApplyRelease(Head(entries))
    \/ NewLeader
    \/ SingletonTick

SingletonSpec == SingletonInit /\ [][SingletonNext]_singletonVars

-----------------------------------------------------------------------------
(* Properties.                                                             *)

RunnerType ==
    [pc : {"idle", "claiming", "running", "releasing", "counted", "dead"},
     term : Nat, generation : Nat, until : Int,
     renewal : {"armed", "sent", "stopped", "lost"}, ok : BOOLEAN]

RequestType ==
    [op : {"Acquire", "Renew", "Release"}, holder : Holders, term : Nat, generation : Nat,
     live : BOOLEAN]

EntryType ==
    [op : {"Acquire", "Renew", "Release"}, holder : Holders, term : Nat, generation : Nat,
     live : BOOLEAN, issued : Int]

(* Every variable has its type, and a grant that is held carries a         *)
(* committed term and a generation of its own, never the zero of none.     *)
SingletonTypeOK ==
    /\ now \in Nat
    /\ term \in Nat \ {0}
    /\ grant \in [generation : Nat, holder : Holders \cup {None}, term : Nat, expires : Int]
    /\ grant.holder # None => grant.term # 0 /\ grant.generation # 0
    /\ net \subseteq RequestType
    /\ entries \in Seq(EntryType)
    /\ run \in [Holders -> RunnerType]

(* No two clocks are further apart than the margin the code leaves. *)
SkewCoversDrift == Drift <= Skew

Active(h) == run[h].pc \in {"running", "releasing"}

(* Some reading of h's clock still lets it believe in its grant. *)
BelievesHeld(h) == Active(h) /\ \E t \in Reading : singleton_grant_admits(run[h].until, t)

(* A holder that may still believe in its grant is the job's only holder:  *)
(* no later grant of the job exists (ownership.rs, SingletonHold::lapsed:  *)
(* "the outgoing holder's view of the deadline can never overlap the next  *)
(* holder's grant").                                                       *)
NoOverlap ==
    \A h \in Holders : BelievesHeld(h) => run[h].generation = grant.generation

(* A run is counted only if the job was not granted to anyone else since   *)
(* its own grant, up to the moment it is counted (scheduler.rs,            *)
(* finish_fence): success under a superseded grant is always rejected.     *)
CountedRunsOwned ==
    [][\A h \in Holders :
         run[h].pc = "releasing" /\ run'[h].pc = "counted" => grant.generation = run[h].generation]_singletonVars

(* A grant never returns to an earlier generation, and one generation has  *)
(* one holder: nothing a late renewal or release does moves a generation   *)
(* to another holder (ownership.rs, SingletonRecord: "a later grant of the *)
(* same job never repeats a generation").                                  *)
GenerationsOwned ==
    [][/\ grant'.generation >= grant.generation
       /\ grant'.generation = grant.generation => grant'.holder \in {grant.holder, None}]_singletonVars
=============================================================================
