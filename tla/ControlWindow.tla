---------------------------- MODULE ControlWindow ----------------------------
(***************************************************************************)
(* Keyed control commands: the idempotency window replicated with the      *)
(* ownership state (peryx-ha-distributed/src/ownership.rs), the handler    *)
(* that resolves a command against it (consensus_runtime.rs), the cache of *)
(* receipts each process keeps in front of it (control.rs), and the audit  *)
(* of a transfer that every voter must store (authority_transfer.rs).      *)
(*                                                                         *)
(* An authority move is decided and receipted in one consensus entry.  A   *)
(* membership change cannot carry the receipt: its key is claimed first    *)
(* and settled, or released, after the change.  Every entry carries the    *)
(* submitter's clock and is applied within MaxDelay, or never.             *)
(***************************************************************************)
EXTENDS ControlGroup, Integers, FiniteSets

CONSTANTS
    Keys,           \* idempotency keys
    Commands,       \* control commands, see Move and Reshape
    Window,         \* CONTROL_IDEMPOTENCY_SECS
    Drift,          \* how far a clock reading may be from true time
    MaxDelay,       \* how long after it was sent an entry may be applied
    MaxInFlight,    \* bound on entries sent and not yet applied or lost
    MaxTime,        \* bound on true time
    MaxIndex        \* bound on committed decisions that mint a receipt

(* What the constants may be. *)
Configured ==
    /\ Window \in Nat /\ Drift \in Nat /\ MaxDelay \in Nat
    /\ MaxInFlight \in Nat /\ MaxTime \in Nat /\ MaxIndex \in Nat
    /\ None \notin Keys /\ None \notin Commands /\ None \notin [command : Commands, index : Nat]
    /\ \A cmd \in Commands : cmd.op = "Move" \/ (cmd.op = "Reshape" /\ cmd.add \subseteq Nodes)

ASSUME WindowAssumption == Configured

VARIABLES
    now,        \* true time
    index,      \* the log index of the last decision that minted a receipt
    voters,     \* consensus membership, which is also audit_projectors
    window,     \* the replicated `controls`
    net,        \* entries sent to consensus and not yet applied
    handler,    \* per node, the control request it is serving
    cache,      \* per node and key, the control plane's KeyEntry
    stored,     \* per node, the audits in its metadata store
    moves       \* history: per index, the move decided there, if one was

windowVars == <<now, index, voters, window, net, handler, cache, stored, moves>>

(* A planned transfer, applied by the ownership state machine itself. *)
Move(dc) == [op |-> "Move", dc |-> dc]

(* AddLearner, PromoteVoter, RemoveVoter and ReplaceVoter: consensus       *)
(* changes its own membership.                                             *)
Reshape(add, remove) == [op |-> "Reshape", add |-> add, remove |-> remove]

Fused(cmd) == cmd.op = "Move"

Reading == (now - Drift)..(now + Drift)

Receipt(cmd, i) == [command |-> cmd, index |-> i]

NoEntry == [command |-> None, receipt |-> None]
NoRecord == [command |-> None, claimed |-> 0, receipt |-> None, projectors |-> {}]
Free == [pc |-> "free", key |-> None, command |-> None, receipt |-> None]
NoMove == [key |-> None, at |-> 0, owed |-> {}]

Bound(r) == r.command # None

WindowInit ==
    /\ now = 0
    /\ index = 0
    /\ voters = Nodes
    /\ window = [k \in Keys |-> NoRecord]
    /\ net = {}
    /\ handler = [n \in Nodes |-> Free]
    /\ cache = [n \in Nodes |-> [k \in Keys |-> NoEntry]]
    /\ stored = [n \in Nodes |-> {}]
    /\ moves = [i \in 1..MaxIndex |-> NoMove]

-----------------------------------------------------------------------------
(* The replicated window.                                                  *)

(* Deliberately wrong variant: the age alone decides. *)
prune_controls_by_age(t) ==
    [k \in Keys |-> IF t - window[k].claimed < Window THEN window[k] ELSE NoRecord]

(* Deliberately wrong variant: a record ages out a second early. *)
prune_controls_early(t) ==
    [k \in Keys |-> IF window[k].projectors # {} \/ t - window[k].claimed < Window - 1
                    THEN window[k]
                    ELSE NoRecord]

(* Records age out, except those whose audit is not everywhere yet. *)
prune_controls(t) ==
    [k \in Keys |-> IF window[k].projectors # {} \/ t - window[k].claimed < Window
                    THEN window[k]
                    ELSE NoRecord]

bind_control(cmd, t, receipt, projectors) ==
    [command |-> cmd, claimed |-> t, receipt |-> receipt, projectors |-> projectors]

(* Keeps the first receipt, whatever command the record is bound to. *)
settle_control(r, cmd, receipt, t) ==
    IF ~Bound(r) THEN bind_control(cmd, t, receipt, {})
    ELSE IF r.receipt = None THEN [r EXCEPT !.receipt = receipt]
    ELSE r

(* Deliberately wrong variant: a receipt is dropped with the claim. *)
release_control_any(r, cmd) == IF r.command = cmd THEN NoRecord ELSE r

release_control(r, cmd) == IF r.receipt = None /\ r.command = cmd THEN NoRecord ELSE r

complete_transfer_audit(r, n) == [r EXCEPT !.projectors = @ \ {n}]

set_audit_projectors(members) ==
    [k \in Keys |-> [window[k] EXCEPT !.projectors = @ \cap members]]

plan_voter_roster(cmd) == (voters \cup cmd.add) \ cmd.remove

-----------------------------------------------------------------------------
(* A node serves a control request.                                        *)

(* A membership change carries the roster its sender planned from the      *)
(* voters it saw.                                                          *)
Entry(op, n, k, cmd, receipt, t) ==
    [op |-> op, node |-> n, key |-> k, command |-> cmd, receipt |-> receipt, at |-> t, sent |-> now,
     roster |-> IF op = "Change" THEN plan_voter_roster(cmd) ELSE {}]

(* `in_flight` plus a new entry stamped with the sender's clock. *)
Send(in_flight, op, n, k, cmd, receipt) ==
    /\ Cardinality(in_flight) < MaxInFlight
    /\ \E t \in Reading : net' = in_flight \cup {Entry(op, n, k, cmd, receipt, t)}

Serving(pc, k, cmd, receipt) == [pc |-> pc, key |-> k, command |-> cmd, receipt |-> receipt]

(* The caller gets `receipt`.  A receipt that seals a transfer audit is    *)
(* projected first when it answers a transfer.  "answered" keeps the last  *)
(* answer until the node's next request.                                   *)
Answered(k, cmd, receipt) ==
    Serving(IF Fused(cmd) /\ Fused(receipt.command) THEN "projecting" ELSE "answered", k, cmd, receipt)

Idle(n) == handler[n].pc \in {"free", "answered"}

(* control.rs, claim: an unknown key is submitted to the window.  A retry  *)
(* of a pending one waits, another command under a known one is refused.   *)
SubmitKeyed(n, k, cmd) ==
    /\ Idle(n)
    /\ cache[n][k] = NoEntry
    /\ cache' = [cache EXCEPT ![n][k] = [command |-> cmd, receipt |-> None]]
    /\ handler' = [handler EXCEPT ![n] = Serving("attempting", k, cmd, None)]
    /\ Send(net, "Attempt", n, k, cmd, None)
    /\ UNCHANGED <<now, index, voters, window, stored, moves>>

(* control.rs, claim: a key this process settled is answered on the spot. *)
ReplayCached(n, k) ==
    LET entry == cache[n][k]
    IN  /\ Idle(n)
        /\ entry.receipt # None
        /\ handler' = [handler EXCEPT ![n] = Answered(k, entry.command, entry.receipt)]
        /\ UNCHANGED <<now, index, voters, window, net, cache, stored, moves>>

(* Newer keys push a settled one out of the process's bounded history. *)
Evict(n, k) ==
    /\ cache[n][k].receipt # None
    /\ cache' = [cache EXCEPT ![n][k] = NoEntry]
    /\ UNCHANGED <<now, index, voters, window, net, handler, stored, moves>>

(* The round trip fails or the client goes away: the pending claim leaves  *)
(* the cache, while what was sent may still be applied.                    *)
Abandon(n) ==
    /\ handler[n].pc \in {"attempting", "executing", "settling"}
    /\ handler' = [handler EXCEPT ![n] = Free]
    /\ cache' = [cache EXCEPT ![n][handler[n].key] = NoEntry]
    /\ UNCHANGED <<now, index, voters, window, net, stored, moves>>

CrashNode(n) ==
    /\ handler' = [handler EXCEPT ![n] = Free]
    /\ cache' = [cache EXCEPT ![n] = [k \in Keys |-> NoEntry]]
    /\ UNCHANGED <<now, index, voters, window, net, stored, moves>>

(* The membership change is refused or times out, so the key is released.  *)
(* A change that timed out may still be applied.                           *)
ExecuteFails(n) ==
    LET h == handler[n]
    IN  /\ h.pc = "executing"
        /\ handler' = [handler EXCEPT ![n].pc = "settling"]
        /\ Send(net, "Release", n, h.key, h.command, None)
        /\ UNCHANGED <<now, index, voters, window, cache, stored, moves>>

(* authority_transfer.rs, project: store the sealed audit, then report it. *)
project(n, k, receipt) ==
    /\ stored' = [stored EXCEPT ![n] = @ \cup {receipt.index}]
    /\ \/ Send(net, "Complete", n, k, receipt.command, None)
       \/ UNCHANGED net

(* The answer is given whether or not the audit could be stored. *)
ProjectAnswered(n) ==
    /\ handler[n].pc = "projecting"
    /\ \/ project(n, handler[n].key, handler[n].receipt)
       \/ UNCHANGED <<stored, net>>
    /\ handler' = [handler EXCEPT ![n].pc = "answered"]
    /\ UNCHANGED <<now, index, voters, window, cache, moves>>

(* A node that becomes leader stores the audits it still owes. *)
recover_transfer_audits(n, k) ==
    /\ n \in window[k].projectors
    /\ project(n, k, window[k].receipt)
    /\ UNCHANGED <<now, index, voters, window, handler, cache, moves>>

-----------------------------------------------------------------------------
(* Consensus applies an entry.                                             *)

(* Entry c is the one its node is waiting for. *)
Awaited(c, pc) ==
    LET h == handler[c.node]
    IN  h.pc = pc /\ h.key = c.key /\ h.command = c.command /\ h.receipt = c.receipt

AnswerNode(c, pc, receipt) ==
    IF Awaited(c, pc)
    THEN /\ handler' = [handler EXCEPT ![c.node] = Answered(c.key, c.command, receipt)]
         /\ cache' = [cache EXCEPT ![c.node][c.key] = [command |-> c.command, receipt |-> receipt]]
    ELSE UNCHANGED <<handler, cache>>

Refuse(c, pc) ==
    IF Awaited(c, pc)
    THEN /\ handler' = [handler EXCEPT ![c.node] = Free]
         /\ cache' = [cache EXCEPT ![c.node][c.key] = NoEntry]
    ELSE UNCHANGED <<handler, cache>>

(* ControlResolution::Claimed: whoever waits for it starts the membership  *)
(* change.  A claim whose submitter is gone waits to age out.              *)
Claimed(c) ==
    /\ IF Awaited(c, "attempting")
       THEN /\ handler' = [handler EXCEPT ![c.node].pc = "executing"]
            /\ Send(net \ {c}, "Change", c.node, c.key, c.command, None)
       ELSE /\ net' = net \ {c}
            /\ UNCHANGED handler
    /\ UNCHANGED <<index, cache, moves>>

(* Deliberately wrong variant: a key answers for any command. *)
AttemptBound_unmatched(c, r) ==
    /\ Bound(r)
    /\ net' = net \ {c}
    /\ IF r.receipt # None THEN AnswerNode(c, "attempting", r.receipt) ELSE Refuse(c, "attempting")
    /\ UNCHANGED <<index, moves>>

(* KeyReuse, Replayed, or the claim of another attempt taken over. *)
AttemptBound(c, r) ==
    /\ Bound(r)
    /\ \/ /\ r.command # c.command
          /\ Refuse(c, "attempting")
          /\ net' = net \ {c}
          /\ UNCHANGED <<index, moves>>
       \/ /\ r.command = c.command /\ r.receipt # None
          /\ AnswerNode(c, "attempting", r.receipt)
          /\ net' = net \ {c}
          /\ UNCHANGED <<index, moves>>
       \/ /\ r.command = c.command /\ r.receipt = None
          /\ Claimed(c)

(* The move, its receipt and its audit are one decision. *)
Decide(c, receipt) ==
    /\ index < MaxIndex
    /\ index' = receipt.index
    /\ moves' = [moves EXCEPT ![receipt.index] = [key |-> c.key, at |-> now, owed |-> voters]]
    /\ net' = net \ {c}
    /\ AnswerNode(c, "attempting", receipt)

(* The authority is unassigned or has a live write lease: the key stays free. *)
Reject(c) ==
    /\ Refuse(c, "attempting")
    /\ net' = net \ {c}
    /\ UNCHANGED <<index, moves>>

attempt_control(c) ==
    LET pruned == prune_controls(c.at)
        receipt == Receipt(c.command, index + 1)
    IN  /\ c.op = "Attempt"
        /\ \/ /\ AttemptBound(c, pruned[c.key])
              /\ window' = pruned
           \/ /\ ~Bound(pruned[c.key]) /\ ~Fused(c.command)
              /\ Claimed(c)
              /\ window' = [pruned EXCEPT ![c.key] = bind_control(c.command, c.at, None, {})]
           \/ /\ ~Bound(pruned[c.key]) /\ Fused(c.command)
              /\ Decide(c, receipt)
              /\ window' = [pruned EXCEPT ![c.key] = bind_control(c.command, c.at, receipt, voters)]
           \/ /\ ~Bound(pruned[c.key]) /\ Fused(c.command)
              /\ Reject(c)
              /\ window' = pruned
        /\ UNCHANGED <<now, voters, stored>>

(* A membership entry.  Its submitter, if it still waits, settles the key. *)
(* ReplaceVoter adds its learner in an entry of its own first, which       *)
(* changes no voter and mints no receipt and is left out.                  *)
ApplyChange(c) ==
    LET roster == c.roster
        receipt == Receipt(c.command, index + 1)
    IN  /\ c.op = "Change"
        /\ roster # {}
        /\ index < MaxIndex
        /\ index' = index + 1
        /\ voters' = roster
        /\ window' = set_audit_projectors(roster)
        /\ moves' = [i \in DOMAIN moves |-> [moves[i] EXCEPT !.owed = @ \cap roster]]
        /\ IF Awaited(c, "executing")
           THEN /\ handler' = [handler EXCEPT ![c.node] = Serving("settling", c.key, c.command, receipt)]
                /\ Send(net \ {c}, "Settle", c.node, c.key, c.command, receipt)
           ELSE /\ net' = net \ {c}
                /\ UNCHANGED handler
        /\ UNCHANGED <<now, cache, stored>>

ApplySettle(c) ==
    LET pruned == prune_controls(c.at)
        r == settle_control(pruned[c.key], c.command, c.receipt, c.at)
    IN  /\ c.op = "Settle"
        /\ net' = net \ {c}
        /\ window' = [pruned EXCEPT ![c.key] = r]
        /\ AnswerNode(c, "settling", r.receipt)
        /\ UNCHANGED <<now, index, voters, stored, moves>>

ApplyRelease(c) ==
    LET pruned == prune_controls(c.at)
    IN  /\ c.op = "Release"
        /\ net' = net \ {c}
        /\ window' = [pruned EXCEPT ![c.key] = release_control(@, c.command)]
        /\ Refuse(c, "settling")
        /\ UNCHANGED <<now, index, voters, stored, moves>>

ApplyComplete(c) ==
    /\ c.op = "Complete"
    /\ net' = net \ {c}
    /\ window' = [window EXCEPT ![c.key] = complete_transfer_audit(@, c.node)]
    /\ UNCHANGED <<now, index, voters, handler, cache, stored, moves>>

(* Time passes; an entry older than MaxDelay is lost. *)
Tick ==
    /\ now < MaxTime
    /\ now' = now + 1
    /\ net' = {c \in net : now' - c.sent <= MaxDelay}
    /\ UNCHANGED <<index, voters, window, handler, cache, stored, moves>>

WindowNext ==
    \/ \E n \in Nodes, k \in Keys, cmd \in Commands : SubmitKeyed(n, k, cmd)
    \/ \E n \in Nodes, k \in Keys : ReplayCached(n, k) \/ Evict(n, k) \/ recover_transfer_audits(n, k)
    \/ \E n \in Nodes : Abandon(n) \/ CrashNode(n) \/ ExecuteFails(n) \/ ProjectAnswered(n)
    \/ \E c \in net : attempt_control(c) \/ ApplyChange(c) \/ ApplySettle(c)
                        \/ ApplyRelease(c) \/ ApplyComplete(c)
    \/ Tick

WindowSpec == WindowInit /\ [][WindowNext]_windowVars

-----------------------------------------------------------------------------
(* Properties                                                              *)

(* A keyed move is decided once per window: a second decision under its    *)
(* key comes at least the window after the first, less what two clocks and *)
(* the delay of the first entry can take off it, whatever was retried,     *)
(* lost or applied late (attempt_control, prune_controls).                 *)
OnceInWindow ==
    \A i, j \in 1..MaxIndex :
        i < j /\ moves[i].key # None /\ moves[j].key = moves[i].key
            => moves[j].at - moves[i].at >= Window - 2 * Drift - MaxDelay

(* A committed receipt holds its key: the record that carries it changes   *)
(* its receipt only by ageing out, never by a failed attempt's release or  *)
(* another attempt's settlement.                                           *)
ReceiptHolds ==
    [][\A k \in Keys :
          window[k].receipt # None /\ window'[k].receipt # window[k].receipt
              => now + Drift - window[k].claimed >= Window]_windowVars

(* Whoever asked for a move is answered with the receipt of that move,     *)
(* whether it was decided, replayed from the window or from the cache.     *)
FusedAnswersOwn ==
    \A n \in Nodes :
        handler[n].pc \in {"projecting", "answered"} /\ Fused(handler[n].command)
            => handler[n].receipt.command = handler[n].command

(* The move at index i is the first one under its key. *)
FirstUnderKey(i) == moves[i].key # None /\ \A j \in 1..(i - 1) : moves[j].key # moves[i].key

(* The audit of move i is stored by n, or still held for it in the window. *)
HeldFor(i, n) ==
    \/ i \in stored[n]
    \/ \E k \in Keys : /\ n \in window[k].projectors
                       /\ window[k].receipt # None /\ window[k].receipt.index = i

(* No voter loses the audit of a move: every voter at its commit that is   *)
(* still one has stored it or is still listed to, so the record outlives   *)
(* the window until then (prune_controls, complete_transfer_audit), for    *)
(* the first move under a key; and no record waits for a node that left    *)
(* (set_audit_projectors), which would keep it for ever.                   *)
AuditRetained ==
    /\ \A i \in 1..MaxIndex : FirstUnderKey(i) => \A n \in moves[i].owed : HeldFor(i, n)
    /\ \A k \in Keys : window[k].projectors \subseteq voters
=============================================================================
