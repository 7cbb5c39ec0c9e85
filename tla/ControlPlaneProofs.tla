------------------------- MODULE ControlPlaneProofs -------------------------
(***************************************************************************)
(* Proofs about the two halves of an authority's move: the coordinator     *)
(* that plans it (TransferCoordinator) and, further down, the replicated   *)
(* window that decides it (ControlWindow).  The first is proved for every  *)
(* set of nodes, authorities and identities, every budget and every size   *)
(* of the abandonment window.                                              *)
(***************************************************************************)
EXTENDS TransferCoordinator, ControlWindow, SequenceTheorems, TLAPS

Phases == {"AwaitingCatchUp", "Ready", "Committing", "Committed", "Cancelled"}

PlanType ==
    [pc : Driven \cup {"unused", "dropped", "ended"}, phase : Phases,
     node : Nodes \cup {None}, authority : Authorities \cup {None}, id : Ids \cup {None},
     barrier : Nat, left : Int, seen : Nat, cancelled : BOOLEAN]

Types ==
    /\ serial \in [Nodes -> Nat]
    /\ plan \in [Plans -> PlanType]
    /\ running \in [Nodes -> [Authorities -> {0} \cup Plans]]
    /\ abandoned \in [Nodes -> Seq(Authorities)]
    /\ log \subseteq [plan : Plans, id : Ids, authority : Authorities, barrier : Nat]
    /\ decided \in [Ids -> [plan : {0} \cup Plans, authority : Authorities \cup {None}, barrier : Nat]]
    /\ cancel \in [Nodes -> [pc : {"free", "found", "signalling"}, plan : {0} \cup Plans]]
    /\ latest \in [Nodes -> [Authorities -> {0} \cup Plans]]
    /\ called_off \subseteq Plans

(* A plan that was started names what it moves; its phase follows its      *)
(* driver, and from the barrier on the target has what it was to have.     *)
PlanOK(q, reached) ==
    /\ q.pc # "unused" => q.node \in Nodes /\ q.authority \in Authorities /\ q.id \in Ids
    /\ q.pc \in {"executing", "awaiting", "sealing"} => q.phase = "Committing"
    /\ q.seen <= reached
    /\ q.phase \in {"Ready", "Committing", "Committed"} => q.barrier <= reached

PlansOK == \A p \in Plans : PlanOK(plan[p], serial[Target])

(* A command in the log is its plan's, which claimed it and has not been   *)
(* answered.                                                               *)
ClaimedCommit(q) ==
    q.phase = "Committing" /\ q.pc \in {"awaiting", "retiring", "dropped", "ended"}

LogOK ==
    \A c \in log :
        /\ c = Command(c.plan)
        /\ ClaimedCommit(plan[c.plan])

(* A decision is a claimed plan's whose command has left the log. *)
Moved(q) ==
    /\ q.phase \in {"Committing", "Committed"}
    /\ q.pc \in {"sealing", "retiring", "dropped", "ended"}

DecidedOK ==
    \A i \in Ids :
        /\ decided[i].plan = 0 => decided[i].barrier = 0
        /\ decided[i].plan # 0 =>
             /\ Moved(plan[decided[i].plan])
             /\ decided[i].barrier = plan[decided[i].plan].barrier
             /\ \A c \in log : c.plan # decided[i].plan

(* A plan that can no longer claim its commit. *)
Off(q) ==
    \/ q.phase = "Cancelled" /\ q.pc # "unused"
    \/ q.phase \in {"AwaitingCatchUp", "Ready"} /\ q.pc = "ended"

(* The plans that requests and the registry name were started, and the one *)
(* a cancellation is about to confirm is cancelled.                        *)
NamedOK ==
    /\ \A n \in Nodes, a \in Authorities :
         running[n][a] # 0 => plan[running[n][a]].pc # "unused"
    /\ \A n \in Nodes :
         /\ cancel[n].pc # "free" => cancel[n].plan # 0 /\ plan[cancel[n].plan].pc # "unused"
         /\ cancel[n].pc = "signalling" => Off(plan[cancel[n].plan])

Distinct(names) == \A j, k \in DOMAIN names : names[j] = names[k] => j = k

(* The window names an authority once, and the last plan retired for it is *)
(* one that moved nothing.                                                 *)
WindowOK ==
    \A n \in Nodes :
        /\ Distinct(abandoned[n])
        /\ \A k \in DOMAIN abandoned[n] :
             /\ latest[n][abandoned[n][k]] # 0
             /\ Off(plan[latest[n][abandoned[n][k]]])

CalledOffOK == \A p \in called_off : Off(plan[p])

IInv == Types /\ PlansOK /\ LogOK /\ DecidedOK /\ NamedOK /\ WindowOK /\ CalledOffOK

-----------------------------------------------------------------------------
(* What a step may do to a plan.                                           *)

(* However a plan goes on, it stays the same move, and claimed, moved or   *)
(* off if it was.                                                          *)
Kept(q, r) ==
    /\ q.pc # "unused" =>
         /\ r.pc # "unused"
         /\ r.node = q.node /\ r.authority = q.authority /\ r.id = q.id /\ r.barrier = q.barrier
    /\ ClaimedCommit(q) => ClaimedCommit(r)
    /\ Moved(q) => Moved(r)
    /\ Off(q) => Off(r)

AllKept ==
    /\ plan' \in [Plans -> PlanType]
    /\ \A p \in Plans : Kept(plan[p], plan'[p]) /\ PlanOK(plan'[p], serial[Target])

LEMMA SameKept ==
    ASSUME Types, PlansOK, UNCHANGED plan
    PROVE  AllKept
BY Zenon DEF Types, PlansOK, AllKept, Kept

LEMMA OneKept ==
    ASSUME Types, PlansOK, NEW p \in Plans, NEW r \in PlanType, Kept(plan[p], r),
           PlanOK(r, serial[Target]), plan' = [plan EXCEPT ![p] = r]
    PROVE  AllKept
BY Zenon DEF Types, PlansOK, AllKept, Kept

(* The steps of a driver, of its client and of a cancellation. *)
LEMMA DriverKeeps ==
    ASSUME IInv, NEW p \in Plans, Step(p) \/ ClientGone(p)
    PROVE  AllKept
<1> DEFINE q == plan[p]
           Fit(r) == r \in PlanType /\ Kept(q, r) /\ PlanOK(r, serial[Target])
<1>1. q \in PlanType /\ PlanOK(q, serial[Target]) /\ Types /\ PlansOK /\ serial[Target] \in Nat
  BY TransferAssumption, Zenon DEF IInv, Types, PlansOK
<1>2. ASSUME NEW r, Fit(r), plan' = [plan EXCEPT ![p] = r]
      PROVE  AllKept
  BY <1>1, <1>2, OneKept, Zenon
<1>3. ASSUME NEW pc, NEW phase, Drive(p, pc, phase), Fit([q EXCEPT !.pc = pc, !.phase = phase])
      PROVE  AllKept
  <2>1. plan' = [plan EXCEPT ![p] = [q EXCEPT !.pc = pc, !.phase = phase]]
    BY <1>1, <1>3, Zenon DEF Drive, Types
  <2> QED
    BY <1>2, <1>3, <2>1, Zenon
<1>4. CASE Probe(p)
  <2>1. PICK frontier \in applied_frontier :
          plan' = [plan EXCEPT ![p].pc = "observing", ![p].seen = frontier]
    BY <1>4, Zenon DEF Probe
  <2>2. frontier \in Nat /\ frontier <= serial[Target]
    BY <1>1 DEF applied_frontier
  <2> DEFINE r == [q EXCEPT !.pc = "observing", !.seen = frontier]
  <2>3. plan' = [plan EXCEPT ![p] = r]
    BY <1>1, <2>1, Zenon DEF Types
  <2>4. Fit(r)
    BY <1>1, <1>4, <2>2, Zenon DEF Probe, PlanType, Kept, PlanOK, ClaimedCommit, Moved, Off, Driven
  <2> QED
    BY <1>2, <2>3, <2>4, Zenon
<1>5. CASE StopWaiting(p)
  <2>1. Fit([q EXCEPT !.pc = "retiring", !.phase = q.phase])
    BY <1>1, <1>5, Zenon DEF StopWaiting, PlanType, Kept, PlanOK, ClaimedCommit, Moved, Off, Driven
  <2> QED
    BY <1>3, <1>5, <2>1, Zenon DEF StopWaiting
<1>6. CASE Observe(p)
  <2> DEFINE phase == observe_frontier(q)
             pc == IF phase = "AwaitingCatchUp" THEN "polling" ELSE "committing"
  <2>1. /\ phase \in Phases
        /\ phase # q.phase => phase = "Ready" /\ q.phase = "AwaitingCatchUp" /\ q.barrier <= serial[Target]
    BY <1>1 DEF observe_frontier, PlanType, PlanOK, Phases
  <2>2. pc \in {"polling", "committing"} /\ Drive(p, pc, phase) /\ q.pc = "observing"
    BY <1>6, Zenon DEF Observe
  <2> HIDE DEF phase, pc
  <2>3. Fit([q EXCEPT !.pc = pc, !.phase = phase])
    BY <1>1, <2>1, <2>2, ZenonT(60), Zenon DEF PlanType, Kept, PlanOK, ClaimedCommit, Moved, Off, Driven
  <2> QED
    BY <1>3, <2>2, <2>3, Zenon
<1>7. CASE Poll(p)
  <2>1. PICK pc \in {"probing", "retiring"}, left \in Int :
          plan' = [plan EXCEPT ![p] = [q EXCEPT !.pc = pc, !.left = left]]
    <3>1. q.left \in Int /\ q.left - 1 \in Int
      BY <1>1 DEF PlanType
    <3> DEFINE pc == IF q.left > 1 THEN "probing" ELSE "retiring"
    <3>2. plan' = [plan EXCEPT ![p] = [q EXCEPT !.pc = pc, !.left = q.left - 1]]
      BY <1>1, <1>7, Zenon DEF Poll, Types
    <3> QED
      BY <3>1, <3>2, Zenon
  <2>2. Fit([q EXCEPT !.pc = pc, !.left = left])
    BY <1>1, <1>7, ZenonT(60), Zenon DEF Poll, PlanType, Kept, PlanOK, ClaimedCommit, Moved, Off, Driven
  <2> QED
    BY <1>2, <2>1, <2>2, Zenon
<1>8. CASE Claim(p)
  <2>1. CASE begin_commit(q)
    <3>1. Fit([q EXCEPT !.pc = "executing", !.phase = "Committing"])
      BY <1>1, <1>8, <2>1, Zenon
         DEF Claim, begin_commit, PlanType, Kept, PlanOK, ClaimedCommit, Moved, Off, Driven, Phases
    <3> QED
      BY <1>3, <1>8, <2>1, <3>1, Zenon DEF Claim
  <2>2. CASE ~begin_commit(q)
    <3>1. Fit([q EXCEPT !.pc = "retiring", !.phase = q.phase])
      BY <1>1, <1>8, <2>2, Zenon
         DEF Claim, begin_commit, PlanType, Kept, PlanOK, ClaimedCommit, Moved, Off, Driven, Phases
    <3> QED
      BY <1>3, <1>8, <2>2, <3>1, Zenon DEF Claim
  <2> QED
    BY <2>1, <2>2, Zenon
<1>9. CASE Submit(p) \/ Unanswered(p) \/ Refused(p) \/ Seal(p)
  <2>1. Submit(p) => Fit([q EXCEPT !.pc = "awaiting", !.phase = q.phase])
    BY <1>1, Zenon DEF Submit, PlanType, Kept, PlanOK, ClaimedCommit, Moved, Off, Driven, Phases
  <2>2. Unanswered(p) => Fit([q EXCEPT !.pc = "retiring", !.phase = q.phase])
    BY <1>1, Zenon DEF Unanswered, PlanType, Kept, PlanOK, ClaimedCommit, Moved, Off, Driven, Phases
  <2>3. Refused(p) => Fit([q EXCEPT !.pc = "retiring", !.phase = "Ready"])
    BY <1>1, Zenon DEF Refused, PlanType, Kept, PlanOK, ClaimedCommit, Moved, Off, Driven, Phases
  <2>4. Seal(p) => Fit([q EXCEPT !.pc = "retiring", !.phase = "Committed"])
    BY <1>1, Zenon DEF Seal, PlanType, Kept, PlanOK, ClaimedCommit, Moved, Off, Driven, Phases
  <2> QED
    BY <1>3, <1>9, <2>1, <2>2, <2>3, <2>4, Zenon DEF Submit, Unanswered, Refused, Seal
<1>10. CASE Retire(p) \/ ClientGone(p)
  <2>1. PICK pc \in {"ended", "dropped"} :
          plan' = [plan EXCEPT ![p] = Undriven(q, pc)] /\ (pc = "ended" => q.pc = "retiring")
    BY <1>1, <1>10, Zenon DEF Retire, ClientGone, Types
  <2>2. q.pc \in Driven
    BY <1>10, Zenon DEF Retire, ClientGone, Driven
  <2>3. Fit(Undriven(q, pc))
    <3> DEFINE r == Undriven(q, pc)
    <3>0. pc \in Driven \cup {"unused", "dropped", "ended"} /\ FALSE \in BOOLEAN /\ 0 \in Nat /\ 0 \in Int
      OBVIOUS
    <3>1. r \in PlanType
      BY <1>1, <3>0, Zenon DEF Undriven, PlanType
    <3>2. /\ r.pc = pc /\ r.phase = q.phase /\ r.seen = 0 /\ r.node = q.node
          /\ r.authority = q.authority /\ r.id = q.id /\ r.barrier = q.barrier
      BY <1>1, Zenon DEF Undriven, PlanType
    <3> HIDE DEF r
    <3> QED
      <4>1. Kept(q, r)
        BY <2>1, <2>2, <3>2, Zenon DEF Kept, ClaimedCommit, Moved, Off, Driven
      <4>2. PlanOK(r, serial[Target])
        BY <1>1, <2>1, <2>2, <3>2 DEF PlanOK, Driven
      <4> QED
        BY <3>1, <4>1, <4>2, Zenon DEF r
  <2> QED
    BY <1>2, <2>1, <2>3, Zenon
<1> QED
  BY <1>4, <1>5, <1>6, <1>7, <1>8, <1>9, <1>10, Zenon DEF Step

LEMMA CancelKeeps ==
    ASSUME IInv, NEW n \in Nodes, CancelPlan(n) \/ Signal(n)
    PROVE  AllKept /\ (CancelPlan(n) /\ cancel' # [cancel EXCEPT ![n] = NoCancel] => Off(plan'[cancel[n].plan]))
<1> DEFINE p == cancel[n].plan
           q == plan[p]
<1>1. p \in Plans /\ q \in PlanType /\ PlanOK(q, serial[Target]) /\ q.pc # "unused" /\ Types /\ PlansOK
  BY Zenon DEF IInv, Types, PlansOK, NamedOK, CancelPlan, Signal
<1>2. CASE CancelPlan(n)
  <2>1. CASE q.phase \in {"Committing", "Committed"}
    BY <1>1, <1>2, <2>1, SameKept, Zenon DEF CancelPlan
  <2>2. CASE q.phase \notin {"Committing", "Committed"}
    <3> DEFINE r == [q EXCEPT !.phase = "Cancelled"]
    <3>1. plan' = [plan EXCEPT ![p] = r] /\ plan'[p] = r
      BY <1>1, <1>2, <2>2, Zenon DEF CancelPlan, Types
    <3>2. r \in PlanType /\ Kept(q, r) /\ PlanOK(r, serial[Target]) /\ Off(r)
      BY <1>1, <2>2, Zenon DEF PlanType, Phases, Kept, PlanOK, ClaimedCommit, Moved, Off
    <3> QED
      BY <1>1, <3>1, <3>2, OneKept, Zenon
  <2> QED
    BY <2>1, <2>2, Zenon
<1>3. CASE Signal(n)
  <2>1. PICK b \in BOOLEAN : plan' = [plan EXCEPT ![p] = [q EXCEPT !.cancelled = b]]
    <3>1. (q.pc \in Driven) \in BOOLEAN
      OBVIOUS
    <3>2. plan' = [plan EXCEPT ![p] = [q EXCEPT !.cancelled = (q.pc \in Driven)]]
      BY <1>1, <1>3, Zenon DEF Signal, Types
    <3> QED
      BY <3>1, <3>2, Zenon
  <2> DEFINE r == [q EXCEPT !.cancelled = b]
  <2>2. r \in PlanType
    BY <1>1, Zenon DEF PlanType
  <2>3. Kept(q, r) /\ PlanOK(r, serial[Target])
    BY <1>1, Zenon DEF PlanType, Kept, PlanOK, ClaimedCommit, Moved, Off
  <2>4. AllKept
    BY <1>1, <2>1, <2>2, <2>3, OneKept, Zenon
  <2>5. ~CancelPlan(n)
    BY <1>3, Zenon DEF CancelPlan, Signal
  <2> QED
    BY <2>4, <2>5, Zenon
<1> QED
  BY <1>2, <1>3, Zenon

LEMMA CrashKeeps ==
    ASSUME IInv, NEW n \in Nodes, Crash(n)
    PROVE  AllKept
<1>1. Types /\ PlansOK /\ serial[Target] \in Nat
  BY TransferAssumption, Zenon DEF IInv, Types
<1>2. ASSUME NEW p \in Plans
      PROVE  plan'[p] \in PlanType /\ Kept(plan[p], plan'[p]) /\ PlanOK(plan'[p], serial[Target])
  <2> DEFINE q == plan[p]
             r == Undriven(q, "ended")
  <2>1. q \in PlanType /\ PlanOK(q, serial[Target])
    BY <1>1, Zenon DEF Types, PlansOK
  <2>2. "ended" \in Driven \cup {"unused", "dropped", "ended"} /\ FALSE \in BOOLEAN /\ 0 \in Nat /\ 0 \in Int
    OBVIOUS
  <2>3. r \in PlanType
    BY <2>1, <2>2, Zenon DEF Undriven, PlanType
  <2>4. /\ r.pc = "ended" /\ r.phase = q.phase /\ r.seen = 0 /\ r.node = q.node
        /\ r.authority = q.authority /\ r.id = q.id /\ r.barrier = q.barrier
    BY <2>1, Zenon DEF Undriven, PlanType
  <2>5. plan'[p] = q \/ (plan'[p] = r /\ q.pc \in Driven \cup {"dropped"})
    BY Zenon DEF Crash
  <2> HIDE DEF r
  <2>6. q.pc \in Driven \cup {"dropped"} => Kept(q, r) /\ PlanOK(r, serial[Target])
    BY <1>1, <2>1, <2>4 DEF Kept, ClaimedCommit, Moved, Off, Driven, PlanOK
  <2>7. Kept(q, q)
    BY Zenon DEF Kept
  <2> QED
    BY <2>1, <2>3, <2>5, <2>6, <2>7, Zenon
<1>3. plan' \in [Plans -> PlanType]
  BY <1>2, Zenon DEF Crash
<1> QED
  BY <1>2, <1>3, Zenon DEF AllKept

LEMMA StartKeeps ==
    ASSUME IInv, NEW n \in Nodes, NEW a \in Authorities, NEW i \in Ids, NEW p \in Plans,
           Start(n, a, i, p)
    PROVE  AllKept /\ plan'[p].pc # "unused"
<1> DEFINE r == [NoPlan EXCEPT !.pc = "probing", !.node = n, !.authority = a, !.id = i,
                               !.barrier = serial[n], !.left = Budget]
<1>1. Types /\ PlansOK /\ serial[Target] \in Nat /\ serial[n] \in Nat /\ plan[p].pc = "unused"
  BY TransferAssumption, SMTT(30) DEF IInv, Types, Start
<1>2. /\ r.pc = "probing" /\ r.phase = "AwaitingCatchUp" /\ r.node = n /\ r.authority = a
      /\ r.id = i /\ r.barrier = serial[n] /\ r.seen = 0
  BY Zenon DEF NoPlan
<1>3. plan' = [plan EXCEPT ![p] = r] /\ plan'[p] = r
  BY <1>1, Zenon DEF Start, Types
<1>4. r \in PlanType
  <2>1. Budget \in Int /\ FALSE \in BOOLEAN /\ 0 \in Nat /\ "AwaitingCatchUp" \in Phases /\ "probing" \in Driven
    BY TransferAssumption DEF Phases, Driven
  <2> QED
    BY <1>1, <2>1, Zenon DEF PlanType, NoPlan
<1> HIDE DEF r
<1>5. Kept(plan[p], r) /\ PlanOK(r, serial[Target])
  BY <1>1, <1>2 DEF Kept, ClaimedCommit, Moved, Off, PlanOK
<1>6. AllKept
  BY <1>1, <1>3, <1>4, <1>5, OneKept, Zenon
<1> QED
  BY <1>2, <1>3, <1>6, Zenon

-----------------------------------------------------------------------------
(* What such a step preserves, of the state it leaves alone.               *)

LEMMA KeptPreserves ==
    ASSUME IInv, AllKept
    PROVE  /\ serial' = serial => PlansOK'
           /\ log' \subseteq log => LogOK'
           /\ log' \subseteq log /\ decided' = decided => DecidedOK'
           /\ running' = running /\ cancel' = cancel => NamedOK'
           /\ abandoned' = abandoned /\ latest' = latest => WindowOK'
           /\ called_off' = called_off => CalledOffOK'
<1>1. \A p \in Plans : Kept(plan[p], plan'[p]) /\ PlanOK(plan'[p], serial[Target]) /\ plan[p] \in PlanType
  BY Zenon DEF AllKept, IInv, Types
<1>2. serial' = serial => PlansOK'
  BY <1>1, Zenon DEF PlansOK
<1>3. log' \subseteq log => LogOK'
  <2> SUFFICES ASSUME log' \subseteq log, NEW c \in log'
               PROVE  c = Command(c.plan)' /\ ClaimedCommit(plan'[c.plan])
    BY Zenon DEF LogOK
  <2>1. c.plan \in Plans /\ c = Command(c.plan) /\ ClaimedCommit(plan[c.plan])
    BY Zenon DEF IInv, Types, LogOK
  <2>2. plan[c.plan].pc # "unused"
    BY <2>1, Zenon DEF ClaimedCommit
  <2> QED
    BY <1>1, <2>1, <2>2, Zenon DEF Kept, Command
<1>4. log' \subseteq log /\ decided' = decided => DecidedOK'
  <2> SUFFICES ASSUME log' \subseteq log, decided' = decided, NEW i \in Ids
               PROVE  /\ decided[i].plan = 0 => decided[i].barrier = 0
                      /\ decided[i].plan # 0 =>
                           /\ Moved(plan'[decided[i].plan])
                           /\ decided[i].barrier = plan'[decided[i].plan].barrier
                           /\ \A c \in log' : c.plan # decided[i].plan
    BY Zenon DEF DecidedOK
  <2>1. decided[i].plan = 0 => decided[i].barrier = 0
    BY Zenon DEF IInv, DecidedOK
  <2>2. ASSUME decided[i].plan # 0
        PROVE  /\ decided[i].plan \in Plans
               /\ Moved(plan[decided[i].plan])
               /\ plan[decided[i].plan].pc # "unused"
               /\ decided[i].barrier = plan[decided[i].plan].barrier
               /\ \A c \in log : c.plan # decided[i].plan
    BY <2>2, Zenon DEF IInv, Types, DecidedOK, Moved
  <2> QED
    BY <1>1, <2>1, <2>2, Zenon DEF Kept
<1>5. running' = running /\ cancel' = cancel => NamedOK'
  <2> SUFFICES ASSUME running' = running, cancel' = cancel
               PROVE  NamedOK'
    OBVIOUS
  <2>1. ASSUME NEW n \in Nodes, NEW a \in Authorities, running[n][a] # 0
        PROVE  plan'[running[n][a]].pc # "unused"
    <3>1. running[n][a] \in Plans /\ plan[running[n][a]].pc # "unused"
      BY <2>1 DEF IInv, Types, NamedOK
    <3> QED
      BY <1>1, <3>1, Zenon DEF Kept
  <2>2. ASSUME NEW n \in Nodes, cancel[n].pc # "free"
        PROVE  /\ cancel[n].plan # 0 /\ plan'[cancel[n].plan].pc # "unused"
               /\ cancel[n].pc = "signalling" => Off(plan'[cancel[n].plan])
    <3>1. cancel[n].plan \in Plans /\ cancel[n].plan # 0 /\ plan[cancel[n].plan].pc # "unused"
          /\ (cancel[n].pc = "signalling" => Off(plan[cancel[n].plan]))
      BY <2>2, Zenon DEF IInv, Types, NamedOK
    <3> QED
      BY <1>1, <3>1, Zenon DEF Kept
  <2> QED
    BY <2>1, <2>2, Zenon DEF NamedOK
<1>6. abandoned' = abandoned /\ latest' = latest => WindowOK'
  <2> SUFFICES ASSUME abandoned' = abandoned, latest' = latest, NEW n \in Nodes,
                      NEW k \in DOMAIN abandoned[n]
               PROVE  latest[n][abandoned[n][k]] # 0 /\ Off(plan'[latest[n][abandoned[n][k]]])
    BY Zenon DEF IInv, WindowOK
  <2>1. latest[n][abandoned[n][k]] \in Plans /\ Off(plan[latest[n][abandoned[n][k]]])
        /\ latest[n][abandoned[n][k]] # 0
    <3>1. abandoned[n] \in Seq(Authorities)
      BY Zenon DEF IInv, Types
    <3>2. abandoned[n][k] \in Authorities
      BY <3>1
    <3> QED
      BY <3>2 DEF IInv, Types, WindowOK
  <2> QED
    BY <1>1, <2>1, Zenon DEF Kept
<1>7. called_off' = called_off => CalledOffOK'
  BY <1>1, Zenon DEF IInv, Types, CalledOffOK, Kept
<1> QED
  BY <1>2, <1>3, <1>4, <1>5, <1>6, <1>7, Zenon

-----------------------------------------------------------------------------
(* The window.                                                             *)

(* What is left of a sequence without its first f elements. *)
LEMMA SuffixFact ==
    ASSUME NEW S, NEW s \in Seq(S), NEW f \in 0..Len(s)
    PROVE  /\ SubSeq(s, f + 1, Len(s)) \in Seq(S)
           /\ Len(SubSeq(s, f + 1, Len(s))) = Len(s) - f
           /\ \A j \in 1..(Len(s) - f) : SubSeq(s, f + 1, Len(s))[j] = s[j + f]
<1>1. /\ f \in Int /\ f + 1 \in Int /\ Len(s) \in Int /\ f <= Len(s)
      /\ \A i \in (f + 1)..Len(s) : s[i] \in S
  OBVIOUS
<1>2. /\ SubSeq(s, f + 1, Len(s)) \in Seq(S)
      /\ Len(SubSeq(s, f + 1, Len(s))) = IF f + 1 <= Len(s) THEN Len(s) - (f + 1) + 1 ELSE 0
      /\ \A i \in 1..Len(s) - (f + 1) + 1 : SubSeq(s, f + 1, Len(s))[i] = s[(f + 1) + i - 1]
  BY <1>1, SubSeqProperties
<1>3. \A j \in 1..(Len(s) - f) : j \in 1..Len(s) - (f + 1) + 1 /\ (f + 1) + j - 1 = j + f
  BY <1>1
<1>4. CASE f + 1 <= Len(s)
  <2>1. Len(s) - (f + 1) + 1 = Len(s) - f
    BY <1>1
  <2> QED
    BY <1>2, <1>3, <1>4, <2>1, Zenon
<1>5. CASE ~(f + 1 <= Len(s))
  <2>1. Len(s) - f = 0
    BY <1>1, <1>5
  <2> QED
    BY <1>2, <1>3, <1>5, <2>1, Zenon
<1> QED
  BY <1>4, <1>5, Zenon

(* Registry::retire first takes the authority out of the window: the       *)
(* others stay, each once.                                                 *)
LEMMA WithoutFact ==
    ASSUME NEW w \in Seq(Authorities), Distinct(w), NEW a \in Authorities
    PROVE  /\ Without(w, a) \in Seq(Authorities)
           /\ Distinct(Without(w, a))
           /\ \A k \in DOMAIN Without(w, a) :
                /\ Without(w, a)[k] # a
                /\ \E j \in DOMAIN w : w[j] = Without(w, a)[k]
<1>0. Len(w) \in Nat /\ DOMAIN w = 1..Len(w)
  OBVIOUS
<1>1. CASE ~\E k \in DOMAIN w : w[k] = a
  BY <1>1, Zenon DEF Without
<1>2. CASE \E k \in DOMAIN w : w[k] = a
  <2> DEFINE k == CHOOSE j \in DOMAIN w : w[j] = a
             u == SubSeq(w, 1, k - 1)
             v == SubSeq(w, k + 1, Len(w))
  <2>1. k \in 1..Len(w) /\ w[k] = a
    BY <1>0, <1>2, Zenon
  <2>2. Without(w, a) = u \o v
    BY <1>2, Zenon DEF Without
  <2> HIDE DEF k
  <2>3. u \in Seq(Authorities) /\ Len(u) = k - 1 /\ \A j \in 1..(k - 1) : u[j] = w[j]
    BY <1>0, <2>1
  <2>4. v \in Seq(Authorities) /\ Len(v) = Len(w) - k /\ \A j \in 1..(Len(w) - k) : v[j] = w[j + k]
    <3>1. k \in 0..Len(w)
      BY <1>0, <2>1
    <3> QED
      BY <3>1, SuffixFact, Zenon
  <2> HIDE DEF u, v
  <2>5. /\ u \o v \in Seq(Authorities) /\ Len(u \o v) = Len(w) - 1
        /\ \A j \in 1..(Len(w) - 1) : (u \o v)[j] = IF j < k THEN w[j] ELSE w[j + 1]
    <3>1. /\ u \o v \in Seq(Authorities) /\ Len(u \o v) = Len(u) + Len(v)
          /\ \A i \in 1..Len(u) + Len(v) : (u \o v)[i] = IF i <= Len(u) THEN u[i] ELSE v[i - Len(u)]
      BY <2>3, <2>4, ConcatProperties, Zenon
    <3>2. Len(u) + Len(v) = Len(w) - 1
      BY <1>0, <2>1, <2>3, <2>4
    <3>3. ASSUME NEW j \in 1..(Len(w) - 1)
          PROVE  (u \o v)[j] = IF j < k THEN w[j] ELSE w[j + 1]
      <4>1. CASE j < k
        BY <1>0, <2>1, <2>3, <3>1, <3>2, <4>1
      <4>2. CASE ~(j < k)
        <5>1. j - Len(u) \in 1..(Len(w) - k) /\ (j - Len(u)) + k = j + 1 /\ ~(j <= Len(u))
          BY <1>0, <2>1, <2>3, <4>2
        <5> QED
          BY <2>4, <3>1, <3>2, <4>2, <5>1, Zenon
      <4> QED
        BY <4>1, <4>2, Zenon
    <3> QED
      BY <3>1, <3>2, <3>3, Zenon
  <2> DEFINE x == u \o v
  <2>6. DOMAIN x = 1..(Len(w) - 1)
    BY <2>5, LenProperties, Zenon
  <2> HIDE DEF x
  <2>7. \A j \in DOMAIN x : \E m \in DOMAIN w : m # k /\ m = (IF j < k THEN j ELSE j + 1) /\ x[j] = w[m]
    <3> TAKE j \in DOMAIN x
    <3> DEFINE m == IF j < k THEN j ELSE j + 1
    <3>1. m \in 1..Len(w) /\ m # k
      BY <1>0, <2>1, <2>6, SMTT(30), Zenon
    <3>2. x[j] = w[m]
      BY <1>0, <2>1, <2>5, <2>6, Zenon DEF x
    <3> QED
      BY <1>0, <3>1, <3>2, Zenon
  <2>8. Distinct(x)
    BY <1>0, <2>1, <2>6, <2>7 DEF Distinct
  <2>9. \A j \in DOMAIN x : x[j] # a /\ \E m \in DOMAIN w : w[m] = x[j]
    BY <1>0, <2>1, <2>7, Zenon DEF Distinct
  <2> QED
    BY <2>2, <2>5, <2>8, <2>9, Zenon DEF x
<1> QED
  BY <1>1, <1>2, Zenon

(* Registry::retire: the window stays one without repetitions, of names    *)
(* that were in it and, if the move was abandoned, of this one.            *)
LEMMA RetireFact ==
    ASSUME NEW w \in Seq(Authorities), Distinct(w), NEW a \in Authorities, NEW keep \in BOOLEAN
    PROVE  /\ retire(w, a, keep) \in Seq(Authorities)
           /\ Distinct(retire(w, a, keep))
           /\ \A k \in DOMAIN retire(w, a, keep) :
                \/ keep /\ retire(w, a, keep)[k] = a
                \/ /\ retire(w, a, keep)[k] # a
                   /\ \E j \in DOMAIN w : w[j] = retire(w, a, keep)[k]
<1> DEFINE x == Without(w, a)
           g == Append(x, a)
           r == retire(w, a, keep)
           cut == SubSeq(g, Len(g) - Retained + 1, Len(g))
           Among(z) == \A k \in DOMAIN z : z[k] = a \/ \E j \in DOMAIN w : w[j] = z[k]
<1>1. /\ x \in Seq(Authorities) /\ Distinct(x) /\ Len(x) \in Nat /\ DOMAIN x = 1..Len(x)
      /\ \A k \in DOMAIN x : x[k] # a /\ \E j \in DOMAIN w : w[j] = x[k]
  BY WithoutFact
<1>2. CASE ~keep
  BY <1>1, <1>2, Zenon DEF retire
<1>3. CASE keep
  <2> HIDE DEF x
  <2>1. /\ g \in Seq(Authorities) /\ Len(g) = Len(x) + 1 /\ Len(g) \in Nat /\ DOMAIN g = 1..Len(g)
        /\ g[Len(g)] = a /\ \A k \in 1..Len(x) : g[k] = x[k]
    BY <1>1
  <2> HIDE DEF g
  <2>2. Distinct(g)
    <3>1. \A k \in DOMAIN g : k = Len(g) \/ (k \in DOMAIN x /\ g[k] = x[k] /\ g[k] # a)
      BY <1>1, <2>1
    <3> QED
      BY <1>1, <2>1, <3>1, Zenon DEF Distinct
  <2>3. Among(g)
    <3>1. \A k \in DOMAIN g : k = Len(g) \/ (k \in DOMAIN x /\ g[k] = x[k])
      BY <1>1, <2>1
    <3> QED
      BY <1>1, <2>1, <3>1, Zenon
  <2>4. CASE ~(Len(g) > Retained)
    <3>1. r = g
      BY <1>3, <2>4, Zenon DEF retire, g, x
    <3> QED
      BY <1>3, <2>1, <2>2, <2>3, <3>1, ZenonT(60)
  <2>5. CASE Len(g) > Retained
    <3>1. r = cut
      BY <1>3, <2>5, Zenon DEF retire, g, x
    <3> DEFINE f == Len(g) - Retained
    <3>2. f \in 0..Len(g) /\ f \in Nat /\ Len(g) - f = Retained /\ Retained \in Nat /\ cut = SubSeq(g, f + 1, Len(g))
      BY <2>1, <2>5, TransferAssumption
    <3> HIDE DEF cut, f
    <3>4. cut \in Seq(Authorities) /\ Len(cut) = Retained /\ \A j \in 1..Retained : cut[j] = g[j + f]
      BY <2>1, <3>2, SuffixFact
    <3>5. DOMAIN cut = 1..Retained
      BY <3>4
    <3>6. \A i \in DOMAIN cut : i \in Nat /\ i + f \in DOMAIN g /\ cut[i] = g[i + f]
      BY <2>1, <3>2, <3>4, <3>5
    <3>7. Distinct(cut)
      <4> SUFFICES ASSUME NEW i \in DOMAIN cut, NEW j \in DOMAIN cut, cut[i] = cut[j]
                   PROVE  i = j
        BY Zenon DEF Distinct
      <4>1. i + f = j + f
        BY <2>2, <3>6 DEF Distinct
      <4> QED
        BY <3>2, <3>6, <4>1
    <3>8. Among(cut)
      BY <2>3, <3>6, Zenon
    <3> QED
      BY <1>3, <3>1, <3>4, <3>7, <3>8, Zenon
  <2> QED
    BY <2>4, <2>5, Zenon
<1> QED
  BY <1>2, <1>3, Zenon

-----------------------------------------------------------------------------
(* The invariant is inductive: one lemma per group of actions.             *)

LEMMA InitHolds == Init => IInv
<1> SUFFICES ASSUME Init PROVE IInv
  OBVIOUS
<1>1. NoPlan \in PlanType
  <2>1. FALSE \in BOOLEAN /\ 0 \in Nat /\ 0 \in Int /\ "AwaitingCatchUp" \in Phases
    BY DEF Phases
  <2> QED
    BY <2>1, Zenon DEF NoPlan, PlanType
<1>2. Types
  <2>1. NoDecision \in [plan : {0} \cup Plans, authority : Authorities \cup {None}, barrier : Nat]
    BY Zenon DEF NoDecision
  <2>2. NoCancel \in [pc : {"free", "found", "signalling"}, plan : {0} \cup Plans]
    BY Zenon DEF NoCancel
  <2> QED
    BY <1>1, <2>1, <2>2 DEF Init, Types
<1>3. PlansOK
  BY TransferAssumption DEF Init, PlansOK, PlanOK, NoPlan
<1>4. LogOK /\ DecidedOK /\ NamedOK /\ CalledOffOK
  BY Zenon DEF Init, LogOK, DecidedOK, NamedOK, CalledOffOK, NoDecision, NoCancel
<1>5. WindowOK
  <2>1. \A n \in Nodes : DOMAIN abandoned[n] = {}
    <3>1. \A n \in Nodes : abandoned[n] = <<>>
      BY Zenon DEF Init
    <3>2. <<>> \in Seq(Authorities) /\ Len(<<>>) = 0
      OBVIOUS
    <3>3. DOMAIN <<>> = 1..0
      BY <3>2, LenProperties, Zenon
    <3>4. 1..0 = {}
      OBVIOUS
    <3> QED
      BY <3>1, <3>3, <3>4, Zenon
  <2>2. ASSUME NEW n \in Nodes PROVE Distinct(abandoned[n])
    BY <2>1, <2>2, Zenon DEF Distinct
  <2> QED
    BY <2>1, <2>2, Zenon DEF WindowOK
<1> QED
  BY <1>2, <1>3, <1>4, <1>5, Zenon DEF IInv

LEMMA StartHolds ==
    ASSUME IInv, NEW n \in Nodes, NEW a \in Authorities, NEW i \in Ids, NEW p \in Plans,
           Start(n, a, i, p)
    PROVE  IInv'
<1>1. AllKept /\ plan'[p].pc # "unused"
  BY StartKeeps, Zenon
<1>2. PlansOK' /\ LogOK' /\ DecidedOK' /\ WindowOK' /\ CalledOffOK'
  BY <1>1, KeptPreserves, Zenon DEF Start
<1>3. Types'
  BY <1>1, Zenon DEF AllKept, IInv, Types, Start
<1>4. NamedOK'
  <2>1. running' = [running EXCEPT ![n][a] = p] /\ cancel' = cancel
    BY Zenon DEF Start
  <2>2. \A x \in Plans : plan[x].pc # "unused" => plan'[x].pc # "unused"
    BY <1>1, Zenon DEF AllKept, Kept
  <2>3. \A x \in Plans : Off(plan[x]) => Off(plan'[x])
    BY <1>1, Zenon DEF AllKept, Kept
  <2>4. ASSUME NEW m \in Nodes, NEW b \in Authorities, running'[m][b] # 0
        PROVE  plan'[running'[m][b]].pc # "unused"
    BY <1>1, <2>1, <2>2, <2>4 DEF IInv, Types, NamedOK
  <2>5. ASSUME NEW m \in Nodes, cancel[m].pc # "free"
        PROVE  /\ cancel[m].plan # 0 /\ plan'[cancel[m].plan].pc # "unused"
               /\ cancel[m].pc = "signalling" => Off(plan'[cancel[m].plan])
    <3>1. cancel[m].plan # 0 /\ cancel[m].plan \in Plans /\ plan[cancel[m].plan].pc # "unused"
      BY <2>5, Zenon DEF IInv, Types, NamedOK
    <3>2. cancel[m].pc = "signalling" => Off(plan[cancel[m].plan])
      BY Zenon DEF IInv, NamedOK
    <3> QED
      BY <2>2, <2>3, <3>1, <3>2, Zenon
  <2> QED
    BY <2>1, <2>4, <2>5, Zenon DEF NamedOK
<1> QED
  BY <1>2, <1>3, <1>4, Zenon DEF IInv

(* The steps of a driver that touch nothing but its plan. *)
LEMMA DriverHolds ==
    ASSUME IInv, NEW p \in Plans, Step(p) \/ ClientGone(p), ~Submit(p), ~Retire(p)
    PROVE  IInv'
<1>1. AllKept
  BY DriverKeeps, Zenon
<1>2. UNCHANGED <<serial, running, abandoned, log, decided, cancel, latest, called_off>>
  BY Zenon DEF Step, ClientGone, Probe, StopWaiting, Observe, Poll, Claim, Refused, Unanswered, Seal
<1>3. Types'
  BY <1>1, <1>2, Zenon DEF AllKept, IInv, Types
<1>4. PlansOK' /\ LogOK' /\ DecidedOK' /\ NamedOK' /\ WindowOK' /\ CalledOffOK'
  BY <1>1, <1>2, KeptPreserves, Zenon
<1> QED
  BY <1>3, <1>4, Zenon DEF IInv

(* A plan is submitted once: the command it adds is the first with its     *)
(* number, and that plan has decided nothing.                              *)
LEMMA SubmitHolds ==
    ASSUME IInv, NEW p \in Plans, Submit(p)
    PROVE  IInv'
<1>1. AllKept
  BY DriverKeeps, Zenon DEF Step
<1>2. /\ plan[p].pc = "executing" /\ plan[p] \in PlanType /\ PlanOK(plan[p], serial[Target])
      /\ log' = log \cup {Command(p)}
      /\ UNCHANGED <<serial, running, abandoned, decided, cancel, latest, called_off>>
  BY Zenon DEF Submit, IInv, Types, PlansOK
<1>3. Command(p) \in [plan : Plans, id : Ids, authority : Authorities, barrier : Nat]
  BY <1>2, Zenon DEF Command, PlanOK, PlanType
<1>4. Types'
  BY <1>1, <1>2, <1>3, Zenon DEF AllKept, IInv, Types
<1>5. PlansOK' /\ NamedOK' /\ WindowOK' /\ CalledOffOK'
  BY <1>1, <1>2, KeptPreserves, Zenon
<1>6. plan'[p] = [plan[p] EXCEPT !.pc = "awaiting", !.phase = plan[p].phase]
  BY <1>2, Zenon DEF Submit, Drive, IInv, Types
<1>7. ClaimedCommit(plan'[p]) /\ Command(p)' = Command(p)
  BY <1>2, <1>6, Zenon DEF ClaimedCommit, PlanOK, Command, PlanType
<1>8. ASSUME NEW c \in log PROVE c = Command(c.plan)' /\ ClaimedCommit(plan'[c.plan])
  <2>1. c.plan \in Plans /\ c = Command(c.plan) /\ ClaimedCommit(plan[c.plan]) /\ plan[c.plan].pc # "unused"
    BY Zenon DEF IInv, Types, LogOK, ClaimedCommit
  <2> QED
    BY <1>1, <2>1, Zenon DEF AllKept, Kept, Command
<1>9. LogOK'
  <2>1. Command(p).plan = p
    BY SMTT(30) DEF Command
  <2> QED
    BY <1>2, <1>7, <1>8, <2>1, Zenon DEF LogOK
<1>10. DecidedOK'
  <2> SUFFICES ASSUME NEW i \in Ids
               PROVE  /\ decided[i].plan = 0 => decided[i].barrier = 0
                      /\ decided[i].plan # 0 =>
                           /\ Moved(plan'[decided[i].plan])
                           /\ decided[i].barrier = plan'[decided[i].plan].barrier
                           /\ \A c \in log' : c.plan # decided[i].plan
    BY <1>2, Zenon DEF DecidedOK
  <2>1. ASSUME decided[i].plan # 0
        PROVE  /\ decided[i].plan \in Plans
               /\ Moved(plan[decided[i].plan])
               /\ plan[decided[i].plan].pc # "unused"
               /\ decided[i].plan # p
               /\ decided[i].barrier = plan[decided[i].plan].barrier
               /\ \A c \in log : c.plan # decided[i].plan
    BY <1>2, <2>1, Zenon DEF IInv, Types, DecidedOK, Moved
  <2>2. Command(p).plan = p
    BY Zenon DEF Command
  <2>3. decided[i].plan = 0 => decided[i].barrier = 0
    BY Zenon DEF IInv, DecidedOK
  <2> QED
    BY <1>1, <1>2, <2>1, <2>2, <2>3, SMTT(30), Zenon DEF AllKept, Kept
<1> QED
  BY <1>4, <1>5, <1>9, <1>10, Zenon DEF IInv

(* The window gets the name of a plan that can claim no commit any more,   *)
(* or loses the name of one that claimed it.                               *)
LEMMA RetireHolds ==
    ASSUME IInv, NEW p \in Plans, Retire(p)
    PROVE  IInv'
<1> DEFINE n == plan[p].node
           a == plan[p].authority
           keep == plan[p].phase \in {"AwaitingCatchUp", "Ready", "Cancelled"}
           w == abandoned[n]
           r == retire(w, a, keep)
<1>1. AllKept
  BY DriverKeeps, Zenon DEF Step
<1>2. /\ plan[p].pc = "retiring" /\ plan[p] \in PlanType /\ n \in Nodes /\ a \in Authorities
      /\ running' = [running EXCEPT ![n][a] = 0]
      /\ latest' = [latest EXCEPT ![n][a] = p]
      /\ abandoned' = [abandoned EXCEPT ![n] = r]
      /\ UNCHANGED <<serial, log, decided, cancel, called_off>>
  BY Zenon DEF Retire, IInv, Types, PlansOK, PlanOK
<1>3. plan'[p] = Undriven(plan[p], "ended")
  BY Zenon DEF Retire, IInv, Types
<1>4. plan'[p].pc = "ended" /\ plan'[p].phase = plan[p].phase
  BY <1>2, <1>3, Zenon DEF Undriven, PlanType
<1>5. keep => Off(plan'[p])
  BY <1>4, Zenon DEF Off
<1>6. w \in Seq(Authorities) /\ Distinct(w)
  BY <1>2, Zenon DEF IInv, Types, WindowOK
<1>7. /\ r \in Seq(Authorities) /\ Distinct(r)
      /\ \A k \in DOMAIN r : (keep /\ r[k] = a) \/ (r[k] # a /\ \E j \in DOMAIN w : w[j] = r[k])
  <2>1. keep \in BOOLEAN
    OBVIOUS
  <2> HIDE DEF n, a, w, keep
  <2> QED
    BY <1>2, <1>6, <2>1, RetireFact
<1> HIDE DEF n, a, keep, r
<1>8. Types'
  BY <1>1, <1>2, <1>7, Zenon DEF AllKept, IInv, Types
<1>9. PlansOK' /\ LogOK' /\ DecidedOK' /\ CalledOffOK'
  BY <1>1, <1>2, KeptPreserves, Zenon
<1>10. NamedOK'
  <2>1. ASSUME NEW m \in Nodes, NEW b \in Authorities, running'[m][b] # 0
        PROVE  plan'[running'[m][b]].pc # "unused"
    <3>1. running'[m][b] = running[m][b] /\ running[m][b] \in Plans /\ plan[running[m][b]].pc # "unused"
      BY <1>2, <2>1 DEF IInv, Types, NamedOK
    <3> QED
      BY <1>1, <3>1 DEF AllKept, Kept
  <2>2. ASSUME NEW m \in Nodes, cancel[m].pc # "free"
        PROVE  /\ cancel[m].plan # 0 /\ plan'[cancel[m].plan].pc # "unused"
               /\ cancel[m].pc = "signalling" => Off(plan'[cancel[m].plan])
    <3>1. cancel[m].plan # 0 /\ cancel[m].plan \in Plans /\ plan[cancel[m].plan].pc # "unused"
      BY <2>2, Zenon DEF IInv, Types, NamedOK
    <3>2. cancel[m].pc = "signalling" => Off(plan[cancel[m].plan])
      BY Zenon DEF IInv, NamedOK
    <3> QED
      BY <1>1, <3>1, <3>2, Zenon DEF AllKept, Kept
  <2> QED
    BY <1>2, <2>1, <2>2, Zenon DEF NamedOK
<1>11. WindowOK'
  <2>1. ASSUME NEW m \in Nodes, NEW k \in DOMAIN abandoned[m]
        PROVE  /\ abandoned[m][k] \in Authorities
               /\ latest[m][abandoned[m][k]] \in Plans
               /\ latest[m][abandoned[m][k]] # 0
               /\ Off(plan'[latest[m][abandoned[m][k]]])
    <3>1. abandoned[m] \in Seq(Authorities)
      BY Zenon DEF IInv, Types
    <3>2. abandoned[m][k] \in Authorities
      BY <3>1
    <3> QED
      BY <1>1, <3>2 DEF IInv, Types, WindowOK, AllKept, Kept
  <2>2. ASSUME NEW m \in Nodes, m # n
        PROVE  /\ Distinct(abandoned'[m])
               /\ \A k \in DOMAIN abandoned'[m] :
                    latest'[m][abandoned'[m][k]] # 0 /\ Off(plan'[latest'[m][abandoned'[m][k]]])
    <3>1. abandoned'[m] = abandoned[m] /\ latest'[m] = latest[m] /\ Distinct(abandoned[m])
      BY <1>2, <2>2, Zenon DEF IInv, Types, WindowOK
    <3> QED
      BY <2>1, <3>1, Zenon
  <2>3. ASSUME NEW k \in DOMAIN r
        PROVE  latest'[n][r[k]] # 0 /\ Off(plan'[latest'[n][r[k]]])
    <3>1. CASE keep /\ r[k] = a
      <4>1. latest'[n][a] = p /\ p # 0
        BY <1>2 DEF IInv, Types, Plans
      <4> QED
        BY <1>5, <3>1, <4>1, Zenon
    <3>2. CASE r[k] # a /\ \E j \in DOMAIN w : w[j] = r[k]
      <4>1. PICK j \in DOMAIN w : w[j] = r[k]
        BY <3>2, Zenon
      <4>2. r[k] \in Authorities /\ latest[n][r[k]] # 0 /\ Off(plan'[latest[n][r[k]]])
        BY <1>2, <2>1, <4>1, Zenon
      <4>3. latest'[n][r[k]] = latest[n][r[k]]
        BY <1>2, <3>2, <4>2, Zenon DEF IInv, Types
      <4> QED
        BY <4>2, <4>3, Zenon
    <3> QED
      BY <1>7, <3>1, <3>2, Zenon
  <2>4. abandoned'[n] = r
    BY <1>2, Zenon DEF IInv, Types
  <2>5. ASSUME NEW m \in Nodes
        PROVE  /\ Distinct(abandoned'[m])
               /\ \A k \in DOMAIN abandoned'[m] :
                    latest'[m][abandoned'[m][k]] # 0 /\ Off(plan'[latest'[m][abandoned'[m][k]]])
    <3>1. CASE m = n
      BY <1>7, <2>3, <2>4, <3>1, Zenon
    <3> QED
      BY <2>2, <3>1, Zenon
  <2> QED
    BY <2>5, Zenon DEF WindowOK, Distinct
<1> QED
  BY <1>8, <1>9, <1>10, <1>11, Zenon DEF IInv

LEMMA CancelHolds ==
    ASSUME IInv, NEW n \in Nodes, NEW a \in Authorities, Cancel(n, a)
    PROVE  IInv'
<1>1. AllKept /\ UNCHANGED <<serial, plan, running, abandoned, log, decided, latest>>
  BY SameKept, Zenon DEF IInv, Cancel
<1>2. PlansOK' /\ LogOK' /\ DecidedOK' /\ WindowOK'
  BY <1>1, KeptPreserves, Zenon
<1>3. CASE /\ running[n][a] # 0
           /\ cancel' = [cancel EXCEPT ![n] = [pc |-> "found", plan |-> running[n][a]]]
           /\ UNCHANGED called_off
  <2>1. Types'
    BY <1>1, <1>3 DEF IInv, Types
  <2>2. NamedOK'
    BY <1>1, <1>3 DEF IInv, Types, NamedOK
  <2>3. CalledOffOK'
    BY <1>1, <1>3, KeptPreserves
  <2> QED
    BY <1>2, <2>1, <2>2, <2>3, Zenon DEF IInv
<1>4. CASE /\ \E k \in DOMAIN abandoned[n] : abandoned[n][k] = a
           /\ called_off' = called_off \cup {latest[n][a]}
           /\ UNCHANGED cancel
  <2>1. latest[n][a] # 0 /\ Off(plan[latest[n][a]]) /\ latest[n][a] \in Plans
    BY <1>4 DEF IInv, Types, WindowOK
  <2>2. Types'
    BY <1>1, <1>4, <2>1, Zenon DEF IInv, Types
  <2>3. NamedOK'
    BY <1>1, <1>4, KeptPreserves, Zenon
  <2>4. CalledOffOK'
    BY <1>1, <1>4, <2>1, Zenon DEF IInv, CalledOffOK
  <2> QED
    BY <1>2, <2>2, <2>3, <2>4, Zenon DEF IInv
<1> QED
  BY <1>3, <1>4, SMTT(30), Zenon DEF Cancel

LEMMA CancelPlanHolds ==
    ASSUME IInv, NEW n \in Nodes, CancelPlan(n) \/ Signal(n)
    PROVE  IInv'
<1> DEFINE p == cancel[n].plan
<1>1. AllKept /\ UNCHANGED <<serial, running, abandoned, log, decided, latest>>
  BY CancelKeeps, SMTT(30) DEF CancelPlan, Signal
<1>2. PlansOK' /\ LogOK' /\ DecidedOK' /\ WindowOK'
  BY <1>1, KeptPreserves, Zenon
<1>3. p \in Plans
  BY Zenon DEF IInv, Types, NamedOK, CancelPlan, Signal
<1>4. PICK pc \in {"free", "signalling"}, x \in {0, p} :
        /\ cancel' = [cancel EXCEPT ![n] = [pc |-> pc, plan |-> x]]
        /\ pc = "signalling" => x = p /\ Off(plan'[p])
  <2>1. CASE cancel' = [cancel EXCEPT ![n] = NoCancel]
    BY <2>1, Zenon DEF NoCancel
  <2>2. CASE CancelPlan(n) /\ cancel' # [cancel EXCEPT ![n] = NoCancel]
    <3>1. cancel' = [cancel EXCEPT ![n] = [pc |-> "signalling", plan |-> p]]
      BY <2>2 DEF CancelPlan, IInv, Types
    <3>2. Off(plan'[p])
      BY <2>2, CancelKeeps, Zenon
    <3> QED
      BY <3>1, <3>2, Zenon
  <2> QED
    BY <2>1, <2>2, Zenon DEF Signal
<1>5. called_off' \subseteq Plans /\ CalledOffOK'
  <2>1. CASE CancelPlan(n)
    <3>1. called_off' = called_off
      BY <2>1, Zenon DEF CancelPlan
    <3> QED
      BY <1>1, <3>1, KeptPreserves, Zenon DEF IInv, Types
  <2>2. CASE Signal(n)
    <3>1. Off(plan[p]) /\ called_off' = called_off \cup {p}
      BY <2>2, Zenon DEF Signal, IInv, NamedOK
    <3>2. \A y \in Plans : Off(plan[y]) => Off(plan'[y])
      BY <1>1, Zenon DEF AllKept, Kept
    <3> QED
      BY <1>3, <3>1, <3>2, Zenon DEF CalledOffOK, IInv, Types
  <2> QED
    BY <2>1, <2>2, Zenon
<1>6. Types'
  BY <1>1, <1>3, <1>4, <1>5, Zenon DEF IInv, Types, AllKept
<1>7. NamedOK'
  <2>1. ASSUME NEW m \in Nodes, NEW b \in Authorities, running[m][b] # 0
        PROVE  plan'[running[m][b]].pc # "unused"
    <3>1. running[m][b] \in Plans /\ plan[running[m][b]].pc # "unused"
      BY <2>1 DEF IInv, Types, NamedOK
    <3> QED
      BY <1>1, <3>1, Zenon DEF AllKept, Kept
  <2>2. ASSUME NEW m \in Nodes, cancel'[m].pc # "free"
        PROVE  /\ cancel'[m].plan # 0 /\ plan'[cancel'[m].plan].pc # "unused"
               /\ cancel'[m].pc = "signalling" => Off(plan'[cancel'[m].plan])
    <3>1. CASE m = n
      <4>1. cancel'[n] = [pc |-> pc, plan |-> x] /\ pc = "signalling" /\ x = p /\ Off(plan'[p])
        BY <1>4, <2>2, <3>1 DEF IInv, Types
      <4>2. plan[p].pc # "unused"
        BY SMTT(30) DEF IInv, NamedOK, CancelPlan, Signal
      <4> QED
        BY <1>1, <1>3, <3>1, <4>1, <4>2 DEF AllKept, Kept, Plans
    <3>2. CASE m # n
      <4>1. cancel'[m] = cancel[m]
        BY <1>4, <3>2, SMTT(30), Zenon DEF IInv, Types
      <4>2. cancel[m].plan # 0 /\ cancel[m].plan \in Plans /\ plan[cancel[m].plan].pc # "unused"
            /\ (cancel[m].pc = "signalling" => Off(plan[cancel[m].plan]))
        BY <2>2, <4>1, Zenon DEF IInv, Types, NamedOK
      <4> QED
        BY <1>1, <4>1, <4>2, Zenon DEF AllKept, Kept
    <3> QED
      BY <3>1, <3>2, Zenon
  <2> QED
    BY <1>1, <2>1, <2>2, Zenon DEF NamedOK
<1> QED
  BY <1>2, <1>5, <1>6, <1>7 DEF IInv

(* The command leaves the log, and was the only one of its plan: what it   *)
(* decides, and how its driver is answered, is seen by no other.           *)
LEMMA ApplyHolds ==
    ASSUME IInv, NEW c \in log, Apply(c)
    PROVE  IInv'
<1> DEFINE p == c.plan
           q == plan[p]
<1>1. /\ p \in Plans /\ c.id \in Ids /\ c.authority \in Authorities /\ c.barrier \in Nat
      /\ c = Command(p) /\ ClaimedCommit(q) /\ q \in PlanType /\ PlanOK(q, serial[Target])
  BY Zenon DEF IInv, Types, PlansOK, LogOK
<1>2. c.barrier = q.barrier /\ q.pc # "unused" /\ q.phase = "Committing"
  BY <1>1 DEF Command, ClaimedCommit
<1>3. log' = log \ {c} /\ UNCHANGED <<serial, running, abandoned, cancel, latest, called_off>>
  BY Zenon DEF Apply
<1>4. \A d \in log' : d \in log /\ d.plan # p
  BY <1>1, <1>3, Zenon DEF IInv, LogOK
<1>5. PICK r \in PlanType :
        /\ plan' = [plan EXCEPT ![p] = r]
        /\ r.barrier = q.barrier /\ r.node = q.node /\ r.authority = q.authority /\ r.id = q.id
        /\ r.seen = q.seen
        /\ r.pc \in {"sealing", "retiring", "dropped", "ended"}
        /\ \/ r.phase = "Committing"
           \/ r.phase = "Ready" /\ r.pc = "retiring" /\ decided[c.id].plan # 0
  <2>1. CASE q.pc = "awaiting"
    <3>1. PICK pc \in {"sealing", "retiring"}, phase \in {"Committing", "Ready"} :
            /\ Drive(p, pc, phase)
            /\ phase = "Ready" => pc = "retiring" /\ decided[c.id].plan # 0
      BY <2>1, Zenon DEF Apply, Respond
    <3> DEFINE r == [q EXCEPT !.pc = pc, !.phase = phase]
    <3>2. plan' = [plan EXCEPT ![p] = r]
      BY <1>1, <3>1, Zenon DEF Drive, IInv, Types
    <3>3. /\ r \in PlanType /\ r.pc = pc /\ r.phase = phase /\ r.barrier = q.barrier /\ r.node = q.node
          /\ r.authority = q.authority /\ r.id = q.id /\ r.seen = q.seen
      BY <1>1, ZenonT(60) DEF PlanType, Phases, Driven
    <3> HIDE DEF r
    <3> QED
      BY <2>1, <3>1, <3>2, <3>3, Zenon
  <2>2. CASE q.pc # "awaiting"
    <3>1. UNCHANGED plan
      BY <2>2, Zenon DEF Apply, Respond
    <3>2. plan' = [plan EXCEPT ![p] = q]
      BY <1>1, <3>1, Zenon DEF IInv, Types
    <3> QED
      BY <1>1, <1>2, <2>2, <3>2, Zenon DEF ClaimedCommit
  <2> QED
    BY <2>1, <2>2, Zenon
<1>6. /\ plan' \in [Plans -> PlanType] /\ plan'[p] = r
      /\ \A x \in Plans : x # p => plan'[x] = plan[x]
  BY <1>1, <1>5, Zenon DEF IInv, Types
<1>7. PlansOK'
  <2>1. PlanOK(r, serial[Target])
    BY <1>1, <1>2, <1>5, Zenon DEF PlanOK
  <2> QED
    BY <1>3, <1>6, <2>1, SMTT(30), Zenon DEF IInv, PlansOK
<1>8. LogOK'
  BY <1>4, <1>6 DEF IInv, Types, LogOK, Command
<1>9. ~Off(q)
  BY <1>2, Zenon DEF Off
<1>10. \A x \in Plans : (Off(plan[x]) => Off(plan'[x])) /\ (plan[x].pc # "unused" => plan'[x].pc # "unused")
  BY <1>5, <1>6, <1>9, SMTT(30), Zenon
<1>11. NamedOK'
  <2>1. ASSUME NEW m \in Nodes, NEW b \in Authorities, running[m][b] # 0
        PROVE  plan'[running[m][b]].pc # "unused"
    <3>1. running[m][b] \in Plans /\ plan[running[m][b]].pc # "unused"
      BY <2>1 DEF IInv, Types, NamedOK
    <3> QED
      BY <1>10, <3>1, Zenon
  <2>2. ASSUME NEW m \in Nodes, cancel[m].pc # "free"
        PROVE  /\ cancel[m].plan # 0 /\ plan'[cancel[m].plan].pc # "unused"
               /\ cancel[m].pc = "signalling" => Off(plan'[cancel[m].plan])
    <3>1. cancel[m].plan # 0 /\ cancel[m].plan \in Plans /\ plan[cancel[m].plan].pc # "unused"
          /\ (cancel[m].pc = "signalling" => Off(plan[cancel[m].plan]))
      BY <2>2, Zenon DEF IInv, Types, NamedOK
    <3> QED
      BY <1>10, <3>1, Zenon
  <2> QED
    BY <1>3, <2>1, <2>2, SMTT(30) DEF NamedOK
<1>12. WindowOK'
  <2>1. ASSUME NEW m \in Nodes, NEW k \in DOMAIN abandoned[m]
        PROVE  latest[m][abandoned[m][k]] # 0 /\ Off(plan'[latest[m][abandoned[m][k]]])
    <3>1. abandoned[m] \in Seq(Authorities)
      BY Zenon DEF IInv, Types
    <3>2. abandoned[m][k] \in Authorities
      BY <3>1
    <3>3. latest[m][abandoned[m][k]] # 0 /\ latest[m][abandoned[m][k]] \in Plans
          /\ Off(plan[latest[m][abandoned[m][k]]])
      BY <3>2, SMTT(30) DEF IInv, Types, WindowOK
    <3> QED
      BY <1>10, <3>3
  <2>2. \A m \in Nodes : Distinct(abandoned[m])
    BY Zenon DEF IInv, WindowOK
  <2> QED
    BY <1>3, <2>1, <2>2 DEF WindowOK
<1>13. CalledOffOK'
  BY <1>3, <1>10, SMTT(30), Zenon DEF IInv, Types, CalledOffOK
<1>14. \/ UNCHANGED decided
       \/ /\ r.phase = "Committing"
          /\ decided' = [decided EXCEPT ![c.id] = [plan |-> p, authority |-> c.authority, barrier |-> c.barrier]]
  BY <1>5, Zenon DEF Apply
<1>15. decided' \in [Ids -> [plan : {0} \cup Plans, authority : Authorities \cup {None}, barrier : Nat]]
  <2>1. decided \in [Ids -> [plan : {0} \cup Plans, authority : Authorities \cup {None}, barrier : Nat]]
    BY Zenon DEF IInv, Types
  <2>2. [plan |-> p, authority |-> c.authority, barrier |-> c.barrier]
           \in [plan : {0} \cup Plans, authority : Authorities \cup {None}, barrier : Nat]
    BY <1>1, Zenon
  <2> QED
    BY <1>14, <2>1, <2>2, Zenon
<1>16. ASSUME NEW i \in Ids, decided'[i] # decided[i]
      PROVE  decided'[i].plan = p /\ decided'[i].barrier = c.barrier /\ r.phase = "Committing"
  BY <1>14, <1>16 DEF IInv, Types
<1>17. DecidedOK'
  <2> SUFFICES ASSUME NEW i \in Ids
               PROVE  /\ decided'[i].plan = 0 => decided'[i].barrier = 0
                      /\ decided'[i].plan # 0 =>
                           /\ Moved(plan'[decided'[i].plan])
                           /\ decided'[i].barrier = plan'[decided'[i].plan].barrier
                           /\ \A d \in log' : d.plan # decided'[i].plan
    BY Zenon DEF DecidedOK
  <2>1. CASE decided'[i] = decided[i]
    <3>1. decided[i].plan # p
      BY <1>1 DEF IInv, DecidedOK, Plans
    <3>2. decided[i].plan # 0 => decided[i].plan \in Plans
      BY Zenon DEF IInv, Types
    <3>3. decided[i].plan # 0 => plan'[decided[i].plan] = plan[decided[i].plan]
      BY <1>6, <3>1, <3>2, SMTT(30)
    <3> QED
      BY <1>4, <2>1, <3>3 DEF IInv, DecidedOK
  <2>2. CASE decided'[i].plan = p /\ decided'[i].barrier = c.barrier /\ r.phase = "Committing"
    BY <1>1, <1>2, <1>4, <1>5, <1>6, <2>2 DEF Moved, Plans
  <2> QED
    BY <1>16, <2>1, <2>2, Zenon
<1>18. Types'
  BY <1>3, <1>4, <1>6, <1>15, Zenon DEF IInv, Types
<1> QED
  BY <1>7, <1>8, <1>11, <1>12, <1>13, <1>17, <1>18, Zenon DEF IInv

(* Serials only grow, so a barrier reached stays reached. *)
LEMMA WriteHolds ==
    ASSUME IInv, NEW n \in Nodes, Write(n)
    PROVE  IInv'
<1>1. /\ serial' = [serial EXCEPT ![n] = @ + 1] /\ serial \in [Nodes -> Nat]
      /\ UNCHANGED <<plan, running, abandoned, log, decided, cancel, latest, called_off>>
  BY Zenon DEF Write, IInv, Types
<1>2. serial' \in [Nodes -> Nat] /\ serial[Target] \in Nat /\ serial'[Target] \in Nat
      /\ serial[Target] <= serial'[Target]
  BY <1>1, TransferAssumption
<1>3. PlansOK'
  <2> SUFFICES ASSUME NEW p \in Plans PROVE PlanOK(plan[p], serial'[Target])
    BY <1>1, Zenon DEF PlansOK
  <2>1. PlanOK(plan[p], serial[Target]) /\ plan[p].seen \in Nat /\ plan[p].barrier \in Nat
    BY Zenon DEF IInv, Types, PlansOK, PlanType
  <2> QED
    BY <1>2, <2>1 DEF PlanOK
<1>4. AllKept
  BY <1>1, SameKept, Zenon DEF IInv
<1>5. LogOK' /\ DecidedOK' /\ NamedOK' /\ WindowOK' /\ CalledOffOK'
  BY <1>1, <1>4, KeptPreserves, Zenon
<1>6. Types'
  BY <1>1, <1>2, Zenon DEF IInv, Types
<1> QED
  BY <1>3, <1>5, <1>6, Zenon DEF IInv

LEMMA CrashHolds ==
    ASSUME IInv, NEW n \in Nodes, Crash(n)
    PROVE  IInv'
<1>1. /\ AllKept
      /\ running' = [running EXCEPT ![n] = [a \in Authorities |-> 0]]
      /\ abandoned' = [abandoned EXCEPT ![n] = <<>>]
      /\ cancel' = [cancel EXCEPT ![n] = NoCancel]
      /\ latest' = [latest EXCEPT ![n] = [a \in Authorities |-> 0]]
      /\ UNCHANGED <<serial, log, decided, called_off>>
  BY CrashKeeps, Zenon DEF Crash
<1>2. PlansOK' /\ LogOK' /\ DecidedOK' /\ CalledOffOK'
  BY <1>1, KeptPreserves, Zenon
<1>3. Types'
  BY <1>1 DEF IInv, Types, AllKept, NoCancel
<1>4. \A x \in Plans : (Off(plan[x]) => Off(plan'[x])) /\ (plan[x].pc # "unused" => plan'[x].pc # "unused")
  BY <1>1, Zenon DEF AllKept, Kept
<1>5. NamedOK'
  <2>1. ASSUME NEW m \in Nodes, NEW b \in Authorities, running'[m][b] # 0
        PROVE  plan'[running'[m][b]].pc # "unused"
    <3>1. running'[m][b] = running[m][b] /\ running[m][b] \in Plans /\ plan[running[m][b]].pc # "unused"
      BY <1>1, <2>1 DEF IInv, Types, NamedOK
    <3> QED
      BY <1>4, <3>1, Zenon
  <2>2. ASSUME NEW m \in Nodes, cancel'[m].pc # "free"
        PROVE  /\ cancel'[m].plan # 0 /\ plan'[cancel'[m].plan].pc # "unused"
               /\ cancel'[m].pc = "signalling" => Off(plan'[cancel'[m].plan])
    <3>1. cancel'[m] = cancel[m]
      BY <1>1, <2>2, Zenon DEF IInv, Types, NoCancel
    <3>2. cancel[m].plan # 0 /\ cancel[m].plan \in Plans /\ plan[cancel[m].plan].pc # "unused"
          /\ (cancel[m].pc = "signalling" => Off(plan[cancel[m].plan]))
      BY <2>2, <3>1, Zenon DEF IInv, Types, NamedOK
    <3> QED
      BY <1>4, <3>1, <3>2, Zenon
  <2> QED
    BY <2>1, <2>2, Zenon DEF NamedOK
<1>6. WindowOK'
  <2>1. \A k \in DOMAIN <<>> : FALSE
    <3>1. <<>> \in Seq(Authorities) /\ Len(<<>>) = 0
      OBVIOUS
    <3>2. DOMAIN <<>> = 1..0
      BY <3>1, LenProperties, Zenon
    <3>3. 1..0 = {}
      OBVIOUS
    <3> QED
      BY <3>2, <3>3, Zenon
  <2>2. ASSUME NEW m \in Nodes
        PROVE  /\ Distinct(abandoned'[m])
               /\ \A k \in DOMAIN abandoned'[m] :
                    latest'[m][abandoned'[m][k]] # 0 /\ Off(plan'[latest'[m][abandoned'[m][k]]])
    <3>1. CASE m = n
      <4>1. abandoned'[m] = <<>>
        BY <1>1, <3>1 DEF IInv, Types
      <4> QED
        BY <2>1, <4>1, Zenon DEF Distinct
    <3>2. CASE m # n
      <4>1. abandoned'[m] = abandoned[m] /\ latest'[m] = latest[m] /\ abandoned[m] \in Seq(Authorities)
        BY <1>1, <3>2 DEF IInv, Types
      <4>2. ASSUME NEW k \in DOMAIN abandoned[m]
            PROVE  latest[m][abandoned[m][k]] # 0 /\ Off(plan'[latest[m][abandoned[m][k]]])
        <5>1. abandoned[m][k] \in Authorities
          BY <4>1
        <5>2. /\ latest[m][abandoned[m][k]] # 0 /\ latest[m][abandoned[m][k]] \in Plans
              /\ Off(plan[latest[m][abandoned[m][k]]])
          BY <5>1 DEF IInv, Types, WindowOK
        <5> QED
          BY <1>4, <5>2, Zenon
      <4>3. Distinct(abandoned[m])
        BY Zenon DEF IInv, WindowOK
      <4> QED
        BY <4>1, <4>2, <4>3
    <3> QED
      BY <3>1, <3>2, Zenon
  <2> QED
    BY <2>2, Zenon DEF WindowOK, Distinct
<1> QED
  BY <1>2, <1>3, <1>5, <1>6, SMTT(30) DEF IInv

LEMMA StutterHolds ==
    ASSUME IInv, UNCHANGED vars
    PROVE  IInv'
<1>1. AllKept
  BY SameKept, Zenon DEF IInv, vars
<1>2. PlansOK' /\ LogOK' /\ DecidedOK' /\ NamedOK' /\ WindowOK' /\ CalledOffOK'
  BY <1>1, KeptPreserves DEF vars
<1> QED
  BY <1>2, Zenon DEF IInv, Types, vars

LEMMA StepHolds == IInv /\ [Next]_vars => IInv'
<1> SUFFICES ASSUME IInv, [Next]_vars PROVE IInv'
  OBVIOUS
<1>1. ASSUME NEW n \in Nodes, NEW a \in Authorities, NEW i \in Ids, NEW p \in Plans, Start(n, a, i, p)
      PROVE  IInv'
  BY <1>1, StartHolds
<1>2. ASSUME NEW p \in Plans, Step(p) \/ ClientGone(p)
      PROVE  IInv'
  BY <1>2, DriverHolds, SubmitHolds, RetireHolds, Zenon
<1>3. ASSUME NEW n \in Nodes, NEW a \in Authorities, Cancel(n, a)
      PROVE  IInv'
  BY <1>3, CancelHolds, Zenon
<1>4. ASSUME NEW n \in Nodes, CancelPlan(n) \/ Signal(n) \/ Write(n) \/ Crash(n)
      PROVE  IInv'
  BY <1>4, CancelPlanHolds, WriteHolds, CrashHolds, Zenon
<1>5. ASSUME NEW c \in log, Apply(c)
      PROVE  IInv'
  BY <1>5, ApplyHolds, Zenon
<1>6. CASE UNCHANGED vars
  BY <1>6, StutterHolds, Zenon
<1> QED
  BY <1>1, <1>2, <1>3, <1>4, <1>5, <1>6 DEF Next

-----------------------------------------------------------------------------
(* The theorems.                                                           *)

(* A plan whose cancellation was answered with Ok never reaches consensus, *)
(* for any number of concurrent moves, cancellations, dropped clients and  *)
(* crashes: a plan called off is one that can no longer claim, and a       *)
(* command in the log or decided is a claimed plan's.                      *)
THEOREM CalledOffPlansNeverMove == Spec => []CalledOffNeverMoves
<1>1. IInv => CalledOffNeverMoves
  <2> SUFFICES ASSUME IInv, NEW p \in called_off
               PROVE  (\A c \in log : c.plan # p) /\ (\A i \in Ids : decided[i].plan # p)
    BY Zenon DEF CalledOffNeverMoves
  <2>1. p \in Plans /\ p # 0 /\ Off(plan[p])
    BY DEF IInv, Types, CalledOffOK, Plans
  <2>2. ~ClaimedCommit(plan[p]) /\ ~Moved(plan[p])
    BY <2>1, Zenon DEF Off, ClaimedCommit, Moved
  <2>3. \A c \in log : c.plan # p
    BY <2>2, Zenon DEF IInv, LogOK
  <2>4. \A i \in Ids : decided[i].plan # p
    BY <2>1, <2>2, Zenon DEF IInv, DecidedOK
  <2> QED
    BY <2>3, <2>4, Zenon
<1> QED
  BY <1>1, InitHolds, StepHolds, PTL DEF Spec

(* A move is submitted and decided only once the target has what the       *)
(* coordinating node had when it was asked for, whatever the probes        *)
(* answered and however late the command is applied.                       *)
THEOREM MovesWaitForTheBarrier == Spec => []MovesAtBarrier
<1>1. IInv => MovesAtBarrier
  <2> SUFFICES ASSUME IInv PROVE MovesAtBarrier
    OBVIOUS
  <2>1. serial[Target] \in Nat
    BY TransferAssumption, SMTT(30) DEF IInv, Types
  <2>2. ASSUME NEW c \in log PROVE serial[Target] >= c.barrier
    <3>1. c.plan \in Plans /\ c.barrier = plan[c.plan].barrier /\ plan[c.plan].phase = "Committing"
      BY DEF IInv, Types, LogOK, ClaimedCommit, Command
    <3>2. plan[c.plan].barrier <= serial[Target] /\ c.barrier \in Nat
      BY <3>1, SMTT(30), Zenon DEF IInv, Types, PlansOK, PlanOK
    <3> QED
      BY <2>1, <3>1, <3>2, SMTT(30)
  <2>3. ASSUME NEW i \in Ids PROVE serial[Target] >= decided[i].barrier
    <3>1. CASE decided[i].plan = 0
      BY <2>1, <3>1 DEF IInv, DecidedOK
    <3>2. CASE decided[i].plan # 0
      <4>1. /\ decided[i].plan \in Plans /\ decided[i].barrier \in Nat
            /\ Moved(plan[decided[i].plan]) /\ decided[i].barrier = plan[decided[i].plan].barrier
        BY <3>2 DEF IInv, Types, DecidedOK
      <4>2. plan[decided[i].plan].barrier <= serial[Target]
        BY <4>1, Zenon DEF IInv, PlansOK, PlanOK, Moved
      <4> QED
        BY <2>1, <4>1, <4>2, Zenon
    <3> QED
      BY <3>1, <3>2, Zenon
  <2> QED
    BY <2>2, <2>3, Zenon DEF MovesAtBarrier
<1> QED
  BY <1>1, InitHolds, StepHolds, PTL DEF Spec

-----------------------------------------------------------------------------
(* Numbers: positions up to b, and times.                                  *)

LEMMA Reflexive == \A a \in Nat : a <= a /\ a >= a /\ a + 1 # a
BY SMT

LEMMA Later == \A a, c \in Nat : a + 1 \in Nat /\ a <= a + 1 /\ (c <= a => c <= a + 1)
BY SMT

LEMMA FirstPosition == \A b \in Nat : 0 \in 0..b /\ 0 \in Nat
BY SMT

LEMMA PositionIsNat == \A b \in Nat : \A a \in 0..b : a \in Nat /\ a <= a
BY SMT

LEMMA NextPosition ==
    \A b \in Nat : \A a \in 0..b :
        a < b => a + 1 \in 1..b /\ a + 1 \in 0..b /\ a + 1 \in Nat /\ a <= a + 1
BY SMT

(* Where a position is among those up to a, the next one and beyond. *)
LEMMA PastNext == \A b \in Nat : \A a \in 0..b : \A i \in 1..b : i >= a + 1 => i > a
BY SMT

LEMMA PastLater == \A b, c \in Nat : \A a \in 0..b : \A i \in 1..b : a <= c /\ i > c => i > a
BY SMT

LEMMA BelowIt == \A b, a \in Nat : \A i \in 1..b : ~(i >= a) => i < a /\ i <= a
BY SMT

LEMMA Beyond == \A b, a \in Nat : \A i \in 1..b : i > a \/ a < i => i # a /\ i >= a
BY SMT

LEMMA Earlier == \A b \in Nat : \A i \in 1..b : \A j \in 1..(i - 1) : j \in 1..b /\ j < i /\ j # i
BY SMT

LEMMA EarlierIs == \A b \in Nat : \A i, j \in 1..b : i <= j /\ i # j => i \in 1..(j - 1)
BY SMT

LEMMA EarlierYet == \A b, a \in Nat : \A i \in 1..b : i < a => \A j \in 1..(i - 1) : j # a
BY SMT

-----------------------------------------------------------------------------
(* ControlWindow, for every set of nodes, keys and commands, every length  *)
(* of the window, any drift of the clocks and any delay.  Configured is    *)
(* what it assumes of its constants.                                       *)

ReceiptType == [command : Commands, index : Nat]
MaybeReceipt == ReceiptType \cup {None}
MaybeCommand == Commands \cup {None}

RecordType ==
    [command : MaybeCommand, claimed : Int, receipt : MaybeReceipt, projectors : SUBSET Nodes]
EntryType ==
    [op : {"Attempt", "Change", "Settle", "Release", "Complete"}, node : Nodes, key : Keys,
     command : Commands, receipt : MaybeReceipt, at : Int, sent : Nat, roster : SUBSET Nodes]
HandlerType ==
    [pc : {"free", "attempting", "executing", "settling", "projecting", "answered"},
     key : Keys \cup {None}, command : MaybeCommand, receipt : MaybeReceipt]
CacheType == [command : MaybeCommand, receipt : MaybeReceipt]
MoveType == [key : Keys \cup {None}, at : Nat, owed : SUBSET Nodes]

WindowTypes ==
    /\ now \in Nat /\ index \in 0..MaxIndex /\ voters \in SUBSET Nodes
    /\ window \in [Keys -> RecordType]
    /\ net \in SUBSET EntryType
    /\ handler \in [Nodes -> HandlerType]
    /\ cache \in [Nodes -> [Keys -> CacheType]]
    /\ stored \in [Nodes -> SUBSET Nat]
    /\ moves \in [1..MaxIndex -> MoveType]

(* Receipt r is that of a move decided under key k. *)
Sealed(k, r, decisions) == r.index \in 1..MaxIndex /\ decisions[r.index].key = k

(* What a caller is, or can be, answered under key k. *)
OwnAnswer(k, cmd, r, decisions) ==
    /\ Fused(cmd) => r.command = cmd
    /\ Fused(r.command) => Sealed(k, r, decisions)

(* A move is bound with its receipt, and no later one under its key was    *)
(* decided while the record stands; only a move waits for projectors.      *)
RecordOK(k, w, decisions, members) ==
    /\ w.receipt # None => Bound(w) /\ OwnAnswer(k, w.command, w.receipt, decisions)
    /\ Bound(w) /\ Fused(w.command) => w.receipt # None
    /\ w.receipt # None /\ Fused(w.receipt.command) =>
         \A i \in 1..MaxIndex : decisions[i].key = k => i <= w.receipt.index
    /\ w.projectors # {} => w.receipt # None /\ Fused(w.receipt.command)
    /\ w.projectors \subseteq members

RecordsOK == \A k \in Keys : RecordOK(k, window[k], moves, voters)

CacheOK ==
    \A n \in Nodes, k \in Keys :
        cache[n][k].receipt # None =>
            cache[n][k].command # None /\ OwnAnswer(k, cache[n][k].command, cache[n][k].receipt, moves)

HandlerOK(h, decisions) ==
    /\ h.pc # "free" => h.key # None /\ h.command # None
    /\ h.pc \in {"executing", "settling"} => ~Fused(h.command)
    /\ h.pc \in {"projecting", "answered"} =>
         h.receipt # None /\ OwnAnswer(h.key, h.command, h.receipt, decisions)
    /\ h.pc = "projecting" => Fused(h.command)

HandlersOK == \A n \in Nodes : HandlerOK(handler[n], moves)

(* An entry is stamped within the drift and applied within the delay; one  *)
(* that reports a stored audit comes from a node that stored one.          *)
EntryOK(c, time, audits, decisions) ==
    /\ c.sent - Drift <= c.at /\ c.at <= c.sent + Drift
    /\ c.sent <= time /\ time - c.sent <= MaxDelay
    /\ c.op \in {"Change", "Settle", "Release"} => ~Fused(c.command)
    /\ c.op = "Settle" => c.receipt # None /\ c.receipt.command = c.command
    /\ c.op = "Complete" => \E i \in audits[c.node] : i \in 1..MaxIndex /\ decisions[i].key = c.key

NetOK == \A c \in net : EntryOK(c, now, stored, moves)

Ended == Window - 2 * Drift - MaxDelay

(* The record of a decision stands, unless its window is over. *)
Standing(i) ==
    \/ /\ window[moves[i].key].receipt # None
       /\ window[moves[i].key].claimed >= moves[i].at - Drift - MaxDelay
    \/ now - moves[i].at >= Ended

MovesOK ==
    /\ \A i \in 1..MaxIndex : i > index => moves[i].key = None
    /\ \A i \in 1..MaxIndex : moves[i].key # None => Standing(i)
    /\ OnceInWindow

HeldOK == \A i \in 1..MaxIndex : FirstUnderKey(i) => \A n \in moves[i].owed : HeldFor(i, n)

WindowInv == WindowTypes /\ RecordsOK /\ CacheOK /\ HandlersOK /\ NetOK /\ MovesOK /\ HeldOK

-----------------------------------------------------------------------------
(* Frames: what survives a step that only adds to the history.             *)

(* No step turns time back, drops a stored audit or rewrites a decision. *)
Grows ==
    /\ now' \in Nat /\ now <= now'
    /\ \A n \in Nodes : stored[n] \subseteq stored'[n]
    /\ \A i \in 1..MaxIndex : moves[i].key # None => moves'[i].key = moves[i].key

LEMMA EndedIsInt == ASSUME Configured PROVE Ended \in Int
BY SMT DEF Configured, Ended

(* What was over stays over. *)
LEMMA StaysOver ==
    ASSUME Configured, NEW t \in Nat, NEW u \in Nat, t <= u, NEW at \in Nat, t - at >= Ended
    PROVE  u - at >= Ended
BY SMT DEF Configured, Ended

(* A decision whose record has aged is over. *)
LEMMA AgedIsOver ==
    ASSUME Configured, NEW t \in Nat, NEW u \in Nat, t <= u, NEW at \in Nat, NEW claimed \in Int,
           t + Drift - claimed >= Window, claimed >= at - Drift - MaxDelay
    PROVE  u - at >= Ended
BY SMT DEF Configured, Ended

(* A record that pruning takes for aged has aged by true time. *)
LEMMA StampAged ==
    ASSUME Configured, NEW t \in Nat, NEW at \in Int, at <= t + Drift, NEW claimed \in Int,
           ~(at - claimed < Window)
    PROVE  t + Drift - claimed >= Window
BY SMT DEF Configured

LEMMA StampRecent ==
    ASSUME Configured, NEW t \in Nat, NEW at \in Int, at >= t - MaxDelay - Drift
    PROVE  at >= t - Drift - MaxDelay
BY SMT DEF Configured

LEMMA Empties ==
    /\ NoRecord \in RecordType /\ Free \in HandlerType
    /\ NoEntry \in CacheType /\ NoMove \in MoveType
BY SMT DEF NoRecord, RecordType, Free, HandlerType, NoEntry, CacheType, NoMove, MoveType,
           MaybeCommand, MaybeReceipt

(* Receipt r is one of command cmd at index i. *)
Receipted(r, cmd, i) == r \in ReceiptType /\ r # None /\ r.command = cmd /\ r.index = i

LEMMA ReceiptTyped ==
    ASSUME Configured, NEW cmd \in Commands, NEW i \in Nat
    PROVE  Receipted(Receipt(cmd, i), cmd, i)
BY SMT DEF Configured, Receipt, ReceiptType, Receipted

(* What a decision at index i writes. *)
DecidedAt(c, r, i) ==
    /\ index < MaxIndex /\ index' = i
    /\ moves' = [moves EXCEPT ![i] = [key |-> c.key, at |-> now, owed |-> voters]]
    /\ net' = net \ {c} /\ AnswerNode(c, "attempting", r)

LEMMA DecideWrites ==
    ASSUME NEW c, NEW cmd, NEW i, Decide(c, Receipt(cmd, i))
    PROVE  DecidedAt(c, Receipt(cmd, i), i)
<1>1. Receipt(cmd, i).index = i
  BY Zenon DEF Receipt
<1> QED
  BY <1>1, SMT DEF Decide, DecidedAt

(* A record bound with a receipt and nothing to project. *)
BoundTo(w, cmd, r) ==
    w \in RecordType /\ w.command = cmd /\ w.receipt = r /\ w.projectors = {}

LEMMA BindTyped ==
    ASSUME NEW cmd \in Commands, NEW at \in Int, NEW r \in ReceiptType, NEW w,
           w = bind_control(cmd, at, r, {})
    PROVE  BoundTo(w, cmd, r)
BY Zenon DEF BoundTo, bind_control, RecordType, MaybeCommand, MaybeReceipt

(* A receipt seals the same move after a step that only adds to the        *)
(* history.                                                                *)
LEMMA AnswerKept ==
    ASSUME Configured, Grows, NEW k \in Keys, NEW cmd, NEW r, OwnAnswer(k, cmd, r, moves)
    PROVE  OwnAnswer(k, cmd, r, moves')
<1> k # None
  BY Zenon DEF Configured
<1> QED
  BY Zenon DEF Grows, OwnAnswer, Sealed

(* A request stays as it was. *)
LEMMA HandlerKept ==
    ASSUME Configured, Grows, NEW h \in HandlerType, HandlerOK(h, moves)
    PROVE  HandlerOK(h, moves')
<1>1. CASE h.pc \in {"projecting", "answered"}
  <2>1. h.key \in Keys
    BY <1>1, Zenon DEF HandlerOK, HandlerType
  <2> QED
    BY <2>1, <1>1, AnswerKept, Zenon DEF HandlerOK
<1>2. CASE h.pc \notin {"projecting", "answered"}
  BY <1>2, Zenon DEF HandlerOK
<1> QED
  BY <1>1, <1>2, Zenon

(* One node's request changes, if it changes at all. *)
LEMMA HandlerSet ==
    ASSUME Configured, WindowTypes, HandlersOK, Grows, NEW n \in Nodes, NEW h \in HandlerType, HandlerOK(h, moves'),
           handler' = [handler EXCEPT ![n] = h]
    PROVE  handler' \in [Nodes -> HandlerType] /\ HandlersOK'
<1>1. handler' \in [Nodes -> HandlerType]
  BY Zenon DEF WindowTypes
<1>2. ASSUME NEW m \in Nodes PROVE HandlerOK(handler'[m], moves')
  <2>1. CASE m = n
    BY <2>1, Zenon DEF WindowTypes
  <2>2. CASE m # n
    <3>1. handler'[m] = handler[m] /\ handler[m] \in HandlerType /\ HandlerOK(handler[m], moves)
      BY <2>2, Zenon DEF WindowTypes, HandlersOK
    <3> QED
      BY <3>1, HandlerKept, Zenon
  <2> QED
    BY <2>1, <2>2, Zenon
<1> QED
  BY <1>1, <1>2, Zenon DEF HandlersOK

LEMMA HandlersKept ==
    ASSUME Configured, WindowTypes, HandlersOK, Grows, handler' = handler
    PROVE  handler' \in [Nodes -> HandlerType] /\ HandlersOK'
<1>1. ASSUME NEW m \in Nodes PROVE HandlerOK(handler'[m], moves')
  <2>1. handler'[m] = handler[m] /\ handler[m] \in HandlerType /\ HandlerOK(handler[m], moves)
    BY Zenon DEF WindowTypes, HandlersOK
  <2> QED
    BY <2>1, HandlerKept, Zenon
<1> QED
  BY <1>1, Zenon DEF HandlersOK, WindowTypes

(* What a cached entry under k may say. *)
CachedOK(k, e, decisions) ==
    e.receipt # None => e.command # None /\ OwnAnswer(k, e.command, e.receipt, decisions)

(* Every entry of the new cache is an old one or is sound by itself. *)
LEMMA CacheSet ==
    ASSUME Configured, WindowTypes, CacheOK, Grows, cache' \in [Nodes -> [Keys -> CacheType]],
           \A n \in Nodes, k \in Keys : cache'[n][k] = cache[n][k] \/ CachedOK(k, cache'[n][k], moves')
    PROVE  CacheOK'
<1>1. ASSUME NEW n \in Nodes, NEW k \in Keys PROVE CachedOK(k, cache'[n][k], moves')
  <2>1. CASE cache'[n][k] = cache[n][k]
    <3>1. CachedOK(k, cache[n][k], moves)
      BY Zenon DEF CacheOK, CachedOK
    <3> QED
      BY <3>1, <2>1, AnswerKept, Zenon DEF CachedOK
  <2> QED
    BY <2>1, Zenon
<1> QED
  BY <1>1, Zenon DEF CacheOK, CachedOK

(* One key of one node's cache is written. *)
LEMMA CacheWrite ==
    ASSUME Configured, WindowTypes, CacheOK, Grows, NEW n \in Nodes, NEW k \in Keys, NEW e \in CacheType,
           CachedOK(k, e, moves'), cache' = [cache EXCEPT ![n][k] = e]
    PROVE  cache' \in [Nodes -> [Keys -> CacheType]] /\ CacheOK'
<1>1. cache' \in [Nodes -> [Keys -> CacheType]]
  BY Zenon DEF WindowTypes
<1>2. \A m \in Nodes, j \in Keys : cache'[m][j] = IF m = n /\ j = k THEN e ELSE cache[m][j]
  BY Zenon DEF WindowTypes
<1> QED
  BY <1>1, <1>2, CacheSet, Zenon

LEMMA CacheKept ==
    ASSUME Configured, WindowTypes, CacheOK, Grows, cache' = cache
    PROVE  cache' \in [Nodes -> [Keys -> CacheType]] /\ CacheOK'
BY CacheSet, Zenon DEF WindowTypes

(* Entries in flight: old ones, and new ones that are sound by themselves. *)
LEMMA NetKept ==
    ASSUME Configured, WindowTypes, NetOK, Grows, now' = now,
           \A c \in net' : c \in net \/ (c \in EntryType /\ EntryOK(c, now', stored', moves'))
    PROVE  net' \in SUBSET EntryType /\ NetOK'
<1>1. ASSUME NEW c \in net' PROVE c \in EntryType /\ EntryOK(c, now', stored', moves')
  <2>1. CASE c \in net
    <3>1. c \in EntryType /\ EntryOK(c, now, stored, moves)
      BY <2>1, Zenon DEF WindowTypes, NetOK
    <3>2. c.node \in Nodes /\ c.key \in Keys /\ c.key # None
      BY <3>1, Zenon DEF Configured, EntryType
    <3>3. c.op = "Complete" => \E i \in stored'[c.node] : i \in 1..MaxIndex /\ moves'[i].key = c.key
      BY <3>1, <3>2, Zenon DEF EntryOK, Grows
    <3> QED
      BY <3>1, <3>3, Zenon DEF EntryOK
  <2> QED
    BY <1>1, <2>1, Zenon
<1> QED
  BY <1>1, Zenon DEF NetOK

(* The entry a node sends, stamped with its clock. *)
LEMMA Sent ==
    ASSUME Configured, WindowTypes, NEW in_flight, NEW op \in {"Attempt", "Change", "Settle", "Release", "Complete"},
           NEW n \in Nodes, NEW k \in Keys, NEW cmd \in Commands, NEW r \in MaybeReceipt,
           Send(in_flight, op, n, k, cmd, r), now' = now,
           op \in {"Change", "Settle", "Release"} => ~Fused(cmd),
           op = "Settle" => r # None /\ r.command = cmd,
           op = "Complete" => \E i \in stored'[n] : i \in 1..MaxIndex /\ moves'[i].key = k
    PROVE  \A c \in net' : c \in in_flight \/ (c \in EntryType /\ EntryOK(c, now', stored', moves'))
<1>1. PICK t \in Reading : net' = in_flight \cup {Entry(op, n, k, cmd, r, t)}
  BY Zenon DEF Send
<1>2. t \in Int /\ now - Drift <= t /\ t <= now + Drift
  BY <1>1 DEF Configured, Reading, WindowTypes
<1> DEFINE e == Entry(op, n, k, cmd, r, t)
<1>3. /\ e.op = op /\ e.node = n /\ e.key = k /\ e.command = cmd /\ e.receipt = r
      /\ e.at = t /\ e.sent = now
  BY Zenon DEF Entry
<1>4. e \in EntryType
  <2>1. op = "Change" => plan_voter_roster(cmd) \in SUBSET Nodes
    BY Zenon DEF Configured, Fused, plan_voter_roster, WindowTypes
  <2>2. (IF op = "Change" THEN plan_voter_roster(cmd) ELSE {}) \in SUBSET Nodes
    BY <2>1, Zenon
  <2>. QED
    BY <1>2, <2>2, Zenon DEF Entry, EntryType, WindowTypes
<1> HIDE DEF e
<1>5. EntryOK(e, now', stored', moves')
  BY <1>2, <1>3 DEF Configured, EntryOK, WindowTypes
<1> QED
  BY <1>1, <1>4, <1>5, Zenon DEF e

-----------------------------------------------------------------------------
(* The window: what a step that decides no move can do to a record.        *)

Aged(k) == window[k].projectors = {} /\ now + Drift - window[k].claimed >= Window

(* No move is bound here. *)
Plain(w) ==
    /\ w.projectors = {}
    /\ Bound(w) => ~Fused(w.command)
    /\ w.receipt # None => Bound(w) /\ ~Fused(w.receipt.command)

Trimmed(k) ==
    /\ window'[k].receipt = window[k].receipt
    /\ window'[k].claimed = window[k].claimed
    /\ window'[k].command = window[k].command
    /\ window'[k].projectors \subseteq window[k].projectors

Goes(k) ==
    \/ Trimmed(k)
    \/ (window[k].receipt = None \/ Aged(k)) /\ Plain(window'[k])

SameMoves ==
    \A i \in 1..MaxIndex : /\ moves'[i].key = moves[i].key /\ moves'[i].at = moves[i].at
                           /\ moves'[i].owed \subseteq moves[i].owed

(* The entry that is applied carries a clock within the drift of now. *)
LEMMA StampBound ==
    ASSUME Configured, WindowTypes, NetOK, NEW c \in net
    PROVE  /\ c.at \in Int /\ c.at <= now + Drift /\ c.at >= now - MaxDelay - Drift
           /\ c.node \in Nodes /\ c.key \in Keys /\ c.command \in Commands /\ c.receipt \in MaybeReceipt
<1>1. c \in EntryType /\ EntryOK(c, now, stored, moves)
  BY Zenon DEF WindowTypes, NetOK
<1>2. c.at \in Int /\ c.sent \in Nat
  BY <1>1, Zenon DEF EntryType
<1> QED
  BY <1>1, <1>2 DEF Configured, EntryOK, EntryType, WindowTypes

(* Pruning drops records that have aged and wait for nobody. *)
LEMMA Pruned ==
    ASSUME Configured, WindowTypes, NetOK, NEW c \in net, NEW k \in Keys
    PROVE  /\ prune_controls(c.at)[k] \in RecordType
           /\ \/ prune_controls(c.at)[k] = window[k]
              \/ prune_controls(c.at)[k] = NoRecord /\ Aged(k)
<1>1. prune_controls(c.at)[k] = IF window[k].projectors # {} \/ c.at - window[k].claimed < Window
                                THEN window[k] ELSE NoRecord
  BY Zenon DEF prune_controls
<1>2. window[k] \in RecordType /\ window[k].claimed \in Int
  BY Zenon DEF WindowTypes, RecordType
<1>3. NoRecord \in RecordType
  BY Empties, Zenon
<1>4. CASE window[k].projectors # {} \/ c.at - window[k].claimed < Window
  BY <1>4, <1>1, <1>2, Zenon
<1>5. CASE ~(window[k].projectors # {} \/ c.at - window[k].claimed < Window)
  <2>1. Aged(k)
    <3>1. c.at \in Int /\ c.at <= now + Drift /\ now \in Nat
      BY StampBound, Zenon DEF WindowTypes
    <3>2. window[k].projectors = {} /\ ~(c.at - window[k].claimed < Window)
      BY <1>5, Zenon
    <3> QED
      BY <3>1, <3>2, <1>2, StampAged, Zenon DEF Aged
  <2> QED
    BY <2>1, <1>5, <1>1, <1>3, Zenon
<1> QED
  BY <1>4, <1>5, Zenon

LEMMA NoRecordIsPlain == Plain(NoRecord) /\ ~Bound(NoRecord) /\ NoRecord.receipt = None
BY Zenon DEF Plain, NoRecord, Bound

(* A record that is left alone, or trimmed, or makes way for one without a *)
(* move, keeps the window sound.                                           *)
LEMMA RecordGoes ==
    ASSUME WindowTypes, RecordsOK, SameMoves, NEW k \in Keys, Goes(k),
           window'[k].projectors \subseteq voters'
    PROVE  RecordOK(k, window'[k], moves', voters')
<1>1. RecordOK(k, window[k], moves, voters)
  BY Zenon DEF RecordsOK
<1>2. CASE Trimmed(k)
  <2> DEFINE w == window[k]
             v == window'[k]
  <2>1. /\ v.receipt = w.receipt /\ v.command = w.command /\ v.projectors \subseteq w.projectors
        /\ v.projectors \subseteq voters'
    BY <1>2, Zenon DEF Trimmed
  <2>2. RecordOK(k, w, moves, voters)
    BY <1>1, Zenon
  <2> HIDE DEF w, v
  <2>3. v.projectors # {} => w.projectors # {}
    BY <2>1, Zenon
  <2>4. v.receipt # None => Bound(v) /\ OwnAnswer(k, v.command, v.receipt, moves')
    BY <2>1, <2>2, Zenon DEF RecordOK, Bound, OwnAnswer, Sealed, SameMoves
  <2>5. v.receipt # None /\ Fused(v.receipt.command) =>
             \A i \in 1..MaxIndex : moves'[i].key = k => i <= v.receipt.index
    BY <2>1, <2>2, Zenon DEF RecordOK, SameMoves
  <2>6. RecordOK(k, v, moves', voters')
    BY <2>1, <2>2, <2>3, <2>4, <2>5, Zenon DEF RecordOK, Bound
  <2> QED
    BY <2>6, Zenon DEF v
<1>3. CASE Plain(window'[k])
  BY <1>3, Zenon DEF Plain, RecordOK, OwnAnswer, Bound
<1> QED
  BY <1>2, <1>3, Zenon DEF Goes

(* The record of a past decision stands until its window is over. *)
LEMMA StandingGoes ==
    ASSUME Configured, WindowTypes, RecordsOK, SameMoves, now' \in Nat, now <= now', \A k \in Keys : Goes(k),
           NEW i \in 1..MaxIndex, moves[i].key # None, Standing(i)
    PROVE  Standing(i)'
<1> DEFINE k == moves[i].key
<1>1. /\ k \in Keys /\ moves[i].at \in Nat /\ moves'[i].key = k /\ moves'[i].at = moves[i].at
      /\ window[k].claimed \in Int
  BY Zenon DEF WindowTypes, MoveType, RecordType, SameMoves
<1>2. CASE now - moves[i].at >= Ended
  <2>1. now' - moves[i].at >= Ended
    BY <1>1, <1>2, StaysOver, Zenon DEF WindowTypes
  <2> QED
    BY <2>1, <1>1, Zenon DEF Standing, Ended
<1>3. CASE window[k].receipt # None /\ window[k].claimed >= moves[i].at - Drift - MaxDelay
  <2>1. CASE Trimmed(k)
    BY <1>1, <1>3, <2>1, Zenon DEF Standing, Trimmed
  <2>2. CASE Aged(k)
    <3>1. now + Drift - window[k].claimed >= Window /\ now \in Nat
      BY <2>2, Zenon DEF Aged, WindowTypes
    <3> HIDE DEF k
    <3>2. now' - moves[i].at >= Ended
      BY <3>1, <1>1, <1>3, AgedIsOver, Zenon
    <3> QED
      BY <3>2, <1>1, Zenon DEF Standing, Ended
  <2> QED
    BY <2>1, <2>2, <1>1, <1>3, Zenon DEF Goes
<1> QED
  BY <1>2, <1>3, Zenon DEF Standing

LEMMA MovesGo ==
    ASSUME Configured, WindowTypes, RecordsOK, MovesOK, SameMoves, now' \in Nat, now <= now',
           index' \in Nat, index <= index', \A k \in Keys : Goes(k)
    PROVE  MovesOK'
<1>1. \A i \in 1..MaxIndex : i > index' => moves'[i].key = None
  <2>1. MaxIndex \in Nat /\ index \in 0..MaxIndex
    BY Zenon DEF Configured, WindowTypes
  <2> QED
    BY <2>1, PastLater, Zenon DEF MovesOK, SameMoves
<1>2. \A i \in 1..MaxIndex : moves'[i].key # None => Standing(i)'
  BY StandingGoes, Zenon DEF MovesOK, SameMoves
<1>3. OnceInWindow'
  BY Zenon DEF MovesOK, OnceInWindow, SameMoves
<1> QED
  BY <1>1, <1>2, <1>3, Zenon DEF MovesOK

(* An audit is owed to a node while the record lists it; a node leaves the *)
(* list with the roster or once it has stored the audit.                   *)
LEMMA HeldGoes ==
    ASSUME Configured, WindowTypes, RecordsOK, HeldOK, SameMoves, Grows,
           \A k \in Keys : window[k].projectors # {} => window'[k].receipt = window[k].receipt,
           \A k \in Keys : \A n \in window[k].projectors :
               \/ n \in window'[k].projectors
               \/ n \notin moves'[window[k].receipt.index].owed
               \/ FirstUnderKey(window[k].receipt.index) => window[k].receipt.index \in stored[n]
    PROVE  HeldOK'
<1> SUFFICES ASSUME NEW i \in 1..MaxIndex, FirstUnderKey(i)', NEW n \in moves'[i].owed
             PROVE  HeldFor(i, n)'
  BY Zenon DEF HeldOK
<1>1. FirstUnderKey(i) /\ n \in moves[i].owed /\ n \in Nodes
  <2>1. \A j \in 1..(i - 1) : j \in 1..MaxIndex
    BY Earlier, Zenon DEF Configured
  <2>2. n \in moves[i].owed
    BY Zenon DEF SameMoves
  <2>3. n \in Nodes
    BY <2>2, Zenon DEF WindowTypes, MoveType
  <2> QED
    BY <2>1, <2>2, <2>3, Zenon DEF FirstUnderKey, SameMoves
<1>2. HeldFor(i, n)
  BY <1>1, Zenon DEF HeldOK
<1>3. CASE i \in stored[n]
  BY <1>1, <1>3, Zenon DEF Grows, HeldFor
<1>4. CASE \E k \in Keys : n \in window[k].projectors /\ window[k].receipt # None /\ window[k].receipt.index = i
  <2>1. PICK k \in Keys : n \in window[k].projectors /\ window[k].receipt # None /\ window[k].receipt.index = i
    BY <1>4, Zenon
  <2>2. window'[k].receipt = window[k].receipt
    BY <2>1, Zenon
  <2>3. CASE n \in window'[k].projectors
    BY <2>1, <2>2, <2>3, Zenon DEF HeldFor
  <2>4. CASE n \notin window'[k].projectors
    <3>1. i \in stored[n]
      BY <2>1, <2>4, <1>1, Zenon
    <3> QED
      BY <3>1, <1>1, Zenon DEF Grows, HeldFor
  <2> QED
    BY <2>3, <2>4, Zenon
<1> QED
  BY <1>2, <1>3, <1>4, Zenon DEF HeldFor

(* Steps that touch neither the window nor the decisions. *)
LEMMA WindowKept ==
    ASSUME Configured, WindowInv, Grows, UNCHANGED <<index, voters, window, moves>>
    PROVE  RecordsOK' /\ MovesOK' /\ HeldOK'
<1> USE DEF WindowInv
<1>0. index' \in Nat /\ index <= index'
  BY PositionIsNat, Zenon DEF Configured, WindowTypes
<1>1. SameMoves /\ now' \in Nat /\ now <= now'
  BY Zenon DEF SameMoves, Grows
<1>2. \A k \in Keys : Goes(k)
  BY Zenon DEF Goes, Trimmed
<1>3. RecordsOK'
  BY Zenon DEF RecordsOK
<1>4. MovesOK'
  BY <1>0, <1>1, <1>2, MovesGo, Zenon
<1>5. HeldOK'
  BY <1>1, HeldGoes, Zenon
<1> QED
  BY <1>3, <1>4, <1>5, Zenon

(* The parts of the invariant, put together again. *)
LEMMA Whole ==
    ASSUME now' \in Nat, index' \in 0..MaxIndex, voters' \in SUBSET Nodes,
           window' \in [Keys -> RecordType], moves' \in [1..MaxIndex -> MoveType],
           stored' \in [Nodes -> SUBSET Nat],
           net' \in SUBSET EntryType /\ NetOK',
           handler' \in [Nodes -> HandlerType] /\ HandlersOK',
           cache' \in [Nodes -> [Keys -> CacheType]] /\ CacheOK',
           RecordsOK' /\ MovesOK' /\ HeldOK'
    PROVE  WindowInv'
BY Zenon DEF WindowInv, WindowTypes

-----------------------------------------------------------------------------
(* The steps of a node.                                                    *)

LEMMA WindowInitHolds ==
    ASSUME Configured PROVE WindowInit => WindowInv
<1> SUFFICES ASSUME WindowInit PROVE WindowInv
  OBVIOUS
<1> USE DEF WindowInit
<1>1. WindowTypes
  <2>1. NoRecord \in RecordType /\ Free \in HandlerType /\ NoEntry \in CacheType /\ NoMove \in MoveType
    BY Empties, Zenon
  <2>2. 0 \in 0..MaxIndex /\ 0 \in Nat
    BY FirstPosition, Zenon DEF Configured
  <2> QED
    BY <2>1, <2>2, Zenon DEF WindowTypes
<1>2. RecordsOK
  BY Zenon DEF RecordsOK, RecordOK, NoRecord, Bound
<1>3. CacheOK
  BY Zenon DEF CacheOK, NoEntry
<1>4. HandlersOK
  BY Zenon DEF HandlersOK, HandlerOK, Free
<1>5. NetOK
  BY Zenon DEF NetOK
<1>6. MovesOK
  BY Zenon DEF MovesOK, NoMove, OnceInWindow
<1>7. HeldOK
  BY Zenon DEF HeldOK, FirstUnderKey, NoMove
<1> QED
  BY <1>1, <1>2, <1>3, <1>4, <1>5, <1>6, <1>7, Zenon DEF WindowInv

(* A step of a node changes at most its request, its cache, its stored     *)
(* audits and what is in flight.                                           *)
LEMMA NodeStep ==
    ASSUME Configured, WindowInv, UNCHANGED <<now, index, voters, window, moves>>,
           stored' \in [Nodes -> SUBSET Nat], \A n \in Nodes : stored[n] \subseteq stored'[n],
           Grows => net' \in SUBSET EntryType /\ NetOK',
           Grows => handler' \in [Nodes -> HandlerType] /\ HandlersOK',
           Grows => cache' \in [Nodes -> [Keys -> CacheType]] /\ CacheOK'
    PROVE  WindowInv'
<1>1. Grows
  BY Reflexive, Zenon DEF Grows, WindowInv, WindowTypes
<1>2. RecordsOK' /\ MovesOK' /\ HeldOK'
  BY <1>1, WindowKept, Zenon
<1> QED
  BY <1>1, <1>2, Whole, Zenon DEF WindowInv, WindowTypes

LEMMA NothingSent ==
    ASSUME Configured, WindowInv, Grows, now' = now, \A c \in net' : c \in net
    PROVE  net' \in SUBSET EntryType /\ NetOK'
BY NetKept, Zenon DEF WindowInv

LEMMA WindowSubmitHolds ==
    ASSUME Configured, WindowInv, NEW n \in Nodes, NEW k \in Keys, NEW cmd \in Commands, SubmitKeyed(n, k, cmd)
    PROVE  WindowInv'
<1> USE DEF WindowInv
<1>0. k # None /\ cmd # None /\ None \in MaybeReceipt
  BY Zenon DEF Configured, MaybeReceipt
<1>1. stored' \in [Nodes -> SUBSET Nat] /\ \A m \in Nodes : stored[m] \subseteq stored'[m]
  BY Zenon DEF SubmitKeyed, WindowTypes
<1>2. ASSUME Grows PROVE net' \in SUBSET EntryType /\ NetOK'
  <2>1. Send(net, "Attempt", n, k, cmd, None) /\ now' = now
    BY Zenon DEF SubmitKeyed
  <2>2. \A c \in net' : c \in net \/ (c \in EntryType /\ EntryOK(c, now', stored', moves'))
    BY <2>1, <1>0, Sent, Zenon
  <2> QED
    BY <2>1, <2>2, <1>2, NetKept, Zenon
<1>3. ASSUME Grows PROVE handler' \in [Nodes -> HandlerType] /\ HandlersOK'
  <2> DEFINE h == Serving("attempting", k, cmd, None)
  <2>1. h \in HandlerType /\ HandlerOK(h, moves')
    BY <1>0, Zenon DEF Serving, HandlerType, HandlerOK, MaybeCommand
  <2>2. handler' = [handler EXCEPT ![n] = h]
    BY Zenon DEF SubmitKeyed
  <2> QED
    BY <2>1, <2>2, <1>3, HandlerSet, Zenon
<1>4. ASSUME Grows PROVE cache' \in [Nodes -> [Keys -> CacheType]] /\ CacheOK'
  <2> DEFINE e == [command |-> cmd, receipt |-> None]
  <2>1. e \in CacheType /\ CachedOK(k, e, moves')
    BY <1>0, Zenon DEF CacheType, CachedOK, MaybeCommand
  <2>2. cache' = [cache EXCEPT ![n][k] = e]
    BY Zenon DEF SubmitKeyed
  <2> HIDE DEF e
  <2> QED
    BY <2>1, <2>2, <1>4, CacheWrite, Zenon
<1> HIDE DEF WindowInv
<1> QED
  BY <1>1, <1>2, <1>3, <1>4, NodeStep, Zenon DEF SubmitKeyed

(* The request that is answered: with the receipt of its own move. *)
LEMMA AnsweredOK ==
    ASSUME Configured, NEW k \in Keys, NEW cmd \in Commands, NEW r \in ReceiptType, NEW decisions,
           OwnAnswer(k, cmd, r, decisions)
    PROVE  Answered(k, cmd, r) \in HandlerType /\ HandlerOK(Answered(k, cmd, r), decisions)
<1> DEFINE h == Answered(k, cmd, r)
<1>1. h.key = k /\ h.command = cmd /\ h.receipt = r
  BY Zenon DEF Answered, Serving
<1>2. /\ h.pc \in {"projecting", "answered"}
      /\ h.pc = "projecting" => Fused(cmd)
  BY Zenon DEF Answered, Serving
<1>3. h \in HandlerType
  BY Zenon DEF Answered, Serving, HandlerType, MaybeCommand, MaybeReceipt
<1> HIDE DEF h
<1>4. r # None /\ k # None /\ cmd # None
  BY Zenon DEF Configured, ReceiptType
<1>5. HandlerOK(h, decisions)
  BY <1>1, <1>2, <1>4, Zenon DEF HandlerOK
<1> QED
  BY <1>3, <1>5, Zenon DEF h

LEMMA ReplayHolds ==
    ASSUME Configured, WindowInv, NEW n \in Nodes, NEW k \in Keys, ReplayCached(n, k)
    PROVE  WindowInv'
<1> USE DEF WindowInv
<1> DEFINE entry == cache[n][k]
<1>1. entry \in CacheType /\ entry.receipt # None /\ entry.command # None
  BY Zenon DEF WindowTypes, ReplayCached, CacheOK
<1>2. entry.command \in Commands /\ entry.receipt \in ReceiptType
  BY <1>1, Zenon DEF CacheType, MaybeCommand, MaybeReceipt
<1>3. OwnAnswer(k, entry.command, entry.receipt, moves)
  BY <1>1, Zenon DEF CacheOK
<1>4. handler' = [handler EXCEPT ![n] = Answered(k, entry.command, entry.receipt)] /\ moves' = moves
  BY Zenon DEF ReplayCached
<1>5. ASSUME Grows PROVE handler' \in [Nodes -> HandlerType] /\ HandlersOK'
  <2> HIDE DEF entry
  <2>1. OwnAnswer(k, entry.command, entry.receipt, moves')
    BY <1>3, <1>4, Zenon
  <2> QED
    BY <2>1, <1>2, <1>4, <1>5, AnsweredOK, HandlerSet, Zenon
<1> HIDE DEF WindowInv
<1>6. /\ UNCHANGED <<now, index, voters, window, net, cache, stored, moves>>
      /\ stored' \in [Nodes -> SUBSET Nat] /\ \A m \in Nodes : stored[m] \subseteq stored'[m]
  BY Zenon DEF ReplayCached, WindowInv, WindowTypes
<1> QED
  BY <1>5, <1>6, NodeStep, NothingSent, CacheKept, Zenon DEF WindowInv

LEMMA Blanks ==
    /\ Free \in HandlerType /\ \A decisions : HandlerOK(Free, decisions)
    /\ NoEntry \in CacheType /\ \A k, decisions : CachedOK(k, NoEntry, decisions)
BY Zenon DEF Free, HandlerType, HandlerOK, NoEntry, CacheType, CachedOK, MaybeCommand, MaybeReceipt

LEMMA StoredStays ==
    ASSUME WindowInv, stored' = stored
    PROVE  stored' \in [Nodes -> SUBSET Nat] /\ \A m \in Nodes : stored[m] \subseteq stored'[m]
BY Zenon DEF WindowInv, WindowTypes

LEMMA EvictHolds ==
    ASSUME Configured, WindowInv, NEW n \in Nodes, NEW k \in Keys, Evict(n, k)
    PROVE  WindowInv'
<1>1. /\ UNCHANGED <<now, index, voters, window, net, handler, stored, moves>>
      /\ cache' = [cache EXCEPT ![n][k] = NoEntry]
  BY Zenon DEF Evict
<1>2. ASSUME Grows PROVE cache' \in [Nodes -> [Keys -> CacheType]] /\ CacheOK'
  BY <1>1, <1>2, Blanks, CacheWrite, Zenon DEF WindowInv
<1> QED
  BY <1>1, <1>2, NodeStep, NothingSent, HandlersKept, StoredStays, Zenon DEF WindowInv

LEMMA AbandonHolds ==
    ASSUME Configured, WindowInv, NEW n \in Nodes, Abandon(n)
    PROVE  WindowInv'
<1>1. /\ UNCHANGED <<now, index, voters, window, net, stored, moves>>
      /\ handler' = [handler EXCEPT ![n] = Free]
      /\ cache' = [cache EXCEPT ![n][handler[n].key] = NoEntry]
  BY Zenon DEF Abandon
<1>2. handler[n].key \in Keys
  BY Zenon DEF Abandon, WindowInv, WindowTypes, HandlersOK, HandlerOK, HandlerType
<1>3. ASSUME Grows PROVE cache' \in [Nodes -> [Keys -> CacheType]] /\ CacheOK'
  BY <1>1, <1>2, <1>3, Blanks, CacheWrite, Zenon DEF WindowInv
<1>4. ASSUME Grows PROVE handler' \in [Nodes -> HandlerType] /\ HandlersOK'
  BY <1>1, <1>4, Blanks, HandlerSet, Zenon DEF WindowInv
<1> QED
  BY <1>1, <1>3, <1>4, NodeStep, NothingSent, StoredStays, Zenon

LEMMA WindowCrashHolds ==
    ASSUME Configured, WindowInv, NEW n \in Nodes, CrashNode(n)
    PROVE  WindowInv'
<1>1. /\ UNCHANGED <<now, index, voters, window, net, stored, moves>>
      /\ handler' = [handler EXCEPT ![n] = Free]
      /\ cache' = [cache EXCEPT ![n] = [k \in Keys |-> NoEntry]]
  BY Zenon DEF CrashNode
<1>2. ASSUME Grows PROVE cache' \in [Nodes -> [Keys -> CacheType]] /\ CacheOK'
  <2>1. cache' \in [Nodes -> [Keys -> CacheType]]
    BY <1>1, Blanks, Zenon DEF WindowInv, WindowTypes
  <2>2. \A m \in Nodes, k \in Keys : cache'[m][k] = IF m = n THEN NoEntry ELSE cache[m][k]
    BY <1>1, Zenon DEF WindowInv, WindowTypes
  <2>3. \A m \in Nodes, k \in Keys : cache'[m][k] = cache[m][k] \/ CachedOK(k, cache'[m][k], moves')
    BY <2>2, Blanks, Zenon
  <2> QED
    BY <2>1, <2>3, <1>2, CacheSet, Zenon DEF WindowInv
<1>3. ASSUME Grows PROVE handler' \in [Nodes -> HandlerType] /\ HandlersOK'
  BY <1>1, <1>3, Blanks, HandlerSet, Zenon DEF WindowInv
<1> QED
  BY <1>1, <1>2, <1>3, NodeStep, NothingSent, StoredStays, Zenon

(* A request that moves on keeps its key, its command and its receipt. *)
LEMMA NextStage ==
    ASSUME Configured, WindowInv, NEW n \in Nodes, NEW pc \in {"executing", "settling", "answered"},
           handler[n].pc # "free",
           pc \in {"executing", "settling"} => ~Fused(handler[n].command),
           pc = "answered" => handler[n].pc = "projecting",
           handler' = [handler EXCEPT ![n].pc = pc], Grows
    PROVE  handler' \in [Nodes -> HandlerType] /\ HandlersOK'
<1> DEFINE h == [handler[n] EXCEPT !.pc = pc]
<1>1. handler[n] \in HandlerType /\ HandlerOK(handler[n], moves)
  BY Zenon DEF WindowInv, WindowTypes, HandlersOK
<1>2. /\ h \in HandlerType
      /\ h.pc = pc /\ h.key = handler[n].key /\ h.command = handler[n].command
      /\ h.receipt = handler[n].receipt
  BY <1>1, Zenon DEF HandlerType
<1>3. handler' = [handler EXCEPT ![n] = h]
  BY Zenon DEF WindowInv, WindowTypes
<1> HIDE DEF h
<1>4. HandlerOK(handler[n], moves')
  BY <1>1, HandlerKept, Zenon
<1>5. HandlerOK(h, moves')
  BY <1>2, <1>4, Zenon DEF HandlerOK
<1> QED
  BY <1>2, <1>3, <1>5, HandlerSet, Zenon DEF WindowInv

LEMMA FailsHolds ==
    ASSUME Configured, WindowInv, NEW n \in Nodes, ExecuteFails(n)
    PROVE  WindowInv'
<1> DEFINE h == handler[n]
<1>1. /\ UNCHANGED <<now, index, voters, window, cache, stored, moves>>
      /\ h.pc = "executing" /\ handler' = [handler EXCEPT ![n].pc = "settling"]
      /\ Send(net, "Release", n, h.key, h.command, None)
  BY Zenon DEF ExecuteFails
<1>2. h.key \in Keys /\ h.command \in Commands /\ ~Fused(h.command)
  BY <1>1, Zenon DEF WindowInv, WindowTypes, HandlersOK, HandlerOK, HandlerType, MaybeCommand
<1>3. ASSUME Grows PROVE handler' \in [Nodes -> HandlerType] /\ HandlersOK'
  BY <1>1, <1>2, <1>3, NextStage, Zenon
<1>4. ASSUME Grows PROVE net' \in SUBSET EntryType /\ NetOK'
  <2>1. \A c \in net' : c \in net \/ (c \in EntryType /\ EntryOK(c, now', stored', moves'))
    <3>1. None \in MaybeReceipt /\ WindowTypes
      BY Zenon DEF MaybeReceipt, WindowInv
    <3> HIDE DEF h
    <3> QED
      BY <3>1, <1>1, <1>2, Sent, Zenon
  <2> QED
    BY <2>1, <1>1, <1>4, NetKept, Zenon DEF WindowInv
<1> QED
  BY <1>1, <1>3, <1>4, NodeStep, CacheKept, StoredStays, Zenon DEF WindowInv

(* A node stores a sealed audit and may report it. *)
LEMMA ProjectStores ==
    ASSUME Configured, WindowInv, NEW n \in Nodes, NEW k \in Keys, NEW r \in ReceiptType, Sealed(k, r, moves),
           project(n, k, r), UNCHANGED <<now, moves>>
    PROVE  /\ stored' \in [Nodes -> SUBSET Nat] /\ \A m \in Nodes : stored[m] \subseteq stored'[m]
           /\ Grows => net' \in SUBSET EntryType /\ NetOK'
<1>0. r.index \in Nat /\ r.command \in Commands
  BY Zenon DEF ReceiptType
<1>1. stored' = [stored EXCEPT ![n] = @ \cup {r.index}]
  BY Zenon DEF project
<1>2. stored' \in [Nodes -> SUBSET Nat] /\ \A m \in Nodes : stored[m] \subseteq stored'[m]
  BY <1>0, <1>1, Zenon DEF WindowInv, WindowTypes
<1>3. r.index \in stored'[n] /\ r.index \in 1..MaxIndex /\ moves'[r.index].key = k
  BY <1>1, Zenon DEF WindowInv, WindowTypes, Sealed
<1>4. ASSUME Grows PROVE net' \in SUBSET EntryType /\ NetOK'
  <2>1. CASE Send(net, "Complete", n, k, r.command, None)
    <3>1. \A c \in net' : c \in net \/ (c \in EntryType /\ EntryOK(c, now', stored', moves'))
      <4>1. None \in MaybeReceipt /\ WindowTypes
        BY Zenon DEF MaybeReceipt, WindowInv
      <4> QED
        BY <4>1, <2>1, <1>0, <1>3, Sent, Zenon
    <3> QED
      BY <3>1, <1>4, NetKept, Zenon DEF WindowInv
  <2>2. CASE UNCHANGED net
    BY <2>2, <1>4, NothingSent, Zenon
  <2> QED
    BY <2>1, <2>2, Zenon DEF project
<1> QED
  BY <1>2, <1>4, Zenon

LEMMA ProjectHolds ==
    ASSUME Configured, WindowInv, NEW n \in Nodes, ProjectAnswered(n)
    PROVE  WindowInv'
<1> DEFINE h == handler[n]
<1>1. /\ UNCHANGED <<now, index, voters, window, cache, moves>>
      /\ h.pc = "projecting" /\ handler' = [handler EXCEPT ![n].pc = "answered"]
      /\ project(n, h.key, h.receipt) \/ UNCHANGED <<stored, net>>
  BY Zenon DEF ProjectAnswered
<1>2. /\ h.key \in Keys /\ h.receipt \in ReceiptType /\ Sealed(h.key, h.receipt, moves)
  <2>1. HandlerOK(h, moves) /\ h \in HandlerType
    BY Zenon DEF WindowInv, WindowTypes, HandlersOK
  <2> HIDE DEF h
  <2> QED
    BY <2>1, <1>1, Zenon DEF HandlerOK, OwnAnswer, HandlerType, MaybeReceipt
<1>3. ASSUME Grows PROVE handler' \in [Nodes -> HandlerType] /\ HandlersOK'
  BY <1>1, <1>3, NextStage, Zenon
<1>4. /\ stored' \in [Nodes -> SUBSET Nat] /\ \A m \in Nodes : stored[m] \subseteq stored'[m]
      /\ Grows => net' \in SUBSET EntryType /\ NetOK'
  <2> HIDE DEF h
  <2>1. CASE project(n, h.key, h.receipt)
    BY <2>1, <1>1, <1>2, ProjectStores, Zenon
  <2>2. CASE UNCHANGED <<stored, net>>
    BY <2>2, <1>1, StoredStays, NothingSent, Zenon
  <2> QED
    BY <2>1, <2>2, <1>1, Zenon
<1> QED
  BY <1>1, <1>3, <1>4, NodeStep, CacheKept, Zenon DEF WindowInv

LEMMA RecoverHolds ==
    ASSUME Configured, WindowInv, NEW n \in Nodes, NEW k \in Keys, recover_transfer_audits(n, k)
    PROVE  WindowInv'
<1> DEFINE r == window[k].receipt
<1>1. /\ UNCHANGED <<now, index, voters, window, handler, cache, moves>>
      /\ n \in window[k].projectors /\ project(n, k, r)
  BY Zenon DEF recover_transfer_audits
<1>2. r \in ReceiptType /\ Sealed(k, r, moves)
  BY <1>1, Zenon DEF WindowInv, WindowTypes, RecordsOK, RecordOK, OwnAnswer, RecordType, MaybeReceipt
<1> HIDE DEF r
<1>3. /\ stored' \in [Nodes -> SUBSET Nat] /\ \A m \in Nodes : stored[m] \subseteq stored'[m]
      /\ Grows => net' \in SUBSET EntryType /\ NetOK'
  BY <1>1, <1>2, ProjectStores, Zenon
<1> QED
  BY <1>1, <1>3, NodeStep, HandlersKept, CacheKept, Zenon DEF WindowInv

LEMMA TickHolds ==
    ASSUME Configured, WindowInv, Tick
    PROVE  WindowInv'
<1>1. /\ UNCHANGED <<index, voters, window, handler, cache, stored, moves>>
      /\ now' = now + 1 /\ net' = {c \in net : now' - c.sent <= MaxDelay}
  BY Zenon DEF Tick
<1>0. now \in Nat
  BY Zenon DEF WindowInv, WindowTypes
<1>2. Grows
  BY <1>0, <1>1, Later, Zenon DEF Grows
<1>3. net' \in SUBSET EntryType /\ NetOK'
  <2>1. ASSUME NEW c \in net' PROVE c \in EntryType /\ EntryOK(c, now', stored', moves')
    <3>1. c \in EntryType /\ EntryOK(c, now, stored, moves) /\ now' - c.sent <= MaxDelay
      BY <1>1, Zenon DEF WindowInv, WindowTypes, NetOK
    <3>2. c.sent \in Nat
      BY <3>1, Zenon DEF EntryType
    <3>3. c.sent <= now'
      BY <3>1, <3>2, <1>0, <1>1, Later, Zenon DEF EntryOK
    <3> QED
      BY <3>1, <3>3, <1>1, Zenon DEF EntryOK
  <2> QED
    BY <2>1, Zenon DEF NetOK
<1>4. RecordsOK' /\ MovesOK' /\ HeldOK'
  BY <1>1, <1>2, WindowKept, Zenon
<1>5. handler' \in [Nodes -> HandlerType] /\ HandlersOK'
  BY <1>1, <1>2, HandlersKept, Zenon DEF WindowInv
<1>6. cache' \in [Nodes -> [Keys -> CacheType]] /\ CacheOK'
  BY <1>1, <1>2, CacheKept, Zenon DEF WindowInv
<1>7. /\ now' \in Nat /\ index' \in 0..MaxIndex /\ voters' \in SUBSET Nodes
      /\ window' \in [Keys -> RecordType] /\ moves' \in [1..MaxIndex -> MoveType]
      /\ stored' \in [Nodes -> SUBSET Nat]
  BY <1>0, <1>1, Later, Zenon DEF WindowInv, WindowTypes
<1> QED
  BY <1>3, <1>4, <1>5, <1>6, <1>7, Whole, Zenon

-----------------------------------------------------------------------------
(* The entries.                                                            *)

LEMMA RespondHolds ==
    ASSUME Configured, WindowInv, Grows, NEW c \in net, NEW pc, NEW r \in ReceiptType,
           OwnAnswer(c.key, c.command, r, moves'), AnswerNode(c, pc, r)
    PROVE  /\ handler' \in [Nodes -> HandlerType] /\ HandlersOK'
           /\ cache' \in [Nodes -> [Keys -> CacheType]] /\ CacheOK'
<1>0. /\ WindowTypes /\ NetOK /\ HandlersOK /\ CacheOK
      /\ c.node \in Nodes /\ c.key \in Keys /\ c.command \in Commands
  BY StampBound, Zenon DEF WindowInv
<1>1. CASE Awaited(c, pc)
  <2>1. /\ handler' = [handler EXCEPT ![c.node] = Answered(c.key, c.command, r)]
        /\ cache' = [cache EXCEPT ![c.node][c.key] = [command |-> c.command, receipt |-> r]]
    BY <1>1, Zenon DEF AnswerNode
  <2>2. handler' \in [Nodes -> HandlerType] /\ HandlersOK'
    BY <2>1, <1>0, AnsweredOK, HandlerSet, Zenon
  <2> DEFINE e == [command |-> c.command, receipt |-> r]
  <2>3. e \in CacheType /\ CachedOK(c.key, e, moves')
    BY <1>0, Zenon DEF Configured, CacheType, CachedOK, MaybeCommand, MaybeReceipt
  <2>4. cache' = [cache EXCEPT ![c.node][c.key] = e]
    BY <2>1, Zenon
  <2> HIDE DEF e
  <2> QED
    BY <2>2, <2>3, <2>4, <1>0, CacheWrite, Zenon
<1>2. CASE ~Awaited(c, pc)
  BY <1>0, <1>2, HandlersKept, CacheKept, Zenon DEF AnswerNode
<1> QED
  BY <1>1, <1>2, Zenon

LEMMA RefuseHolds ==
    ASSUME Configured, WindowInv, Grows, NEW c \in net, NEW pc, Refuse(c, pc)
    PROVE  /\ handler' \in [Nodes -> HandlerType] /\ HandlersOK'
           /\ cache' \in [Nodes -> [Keys -> CacheType]] /\ CacheOK'
<1>0. /\ WindowTypes /\ NetOK /\ HandlersOK /\ CacheOK
      /\ c.node \in Nodes /\ c.key \in Keys
  BY StampBound, Zenon DEF WindowInv
<1>1. CASE Awaited(c, pc)
  BY <1>0, <1>1, Blanks, HandlerSet, CacheWrite, Zenon DEF Refuse
<1>2. CASE ~Awaited(c, pc)
  BY <1>0, <1>2, HandlersKept, CacheKept, Zenon DEF Refuse
<1> QED
  BY <1>1, <1>2, Zenon

LEMMA ClaimedHolds ==
    ASSUME Configured, WindowInv, Grows, now' = now, NEW c \in net, ~Fused(c.command), Claimed(c)
    PROVE  /\ net' \in SUBSET EntryType /\ NetOK'
           /\ handler' \in [Nodes -> HandlerType] /\ HandlersOK'
           /\ cache' \in [Nodes -> [Keys -> CacheType]] /\ CacheOK'
<1>0. /\ WindowTypes /\ NetOK /\ HandlersOK /\ CacheOK
      /\ c.node \in Nodes /\ c.key \in Keys /\ c.command \in Commands /\ None \in MaybeReceipt
  BY StampBound, Zenon DEF WindowInv, MaybeReceipt
<1>1. cache' \in [Nodes -> [Keys -> CacheType]] /\ CacheOK'
  BY <1>0, CacheKept, Zenon DEF Claimed
<1>2. CASE Awaited(c, "attempting")
  <2>1. /\ handler' = [handler EXCEPT ![c.node].pc = "executing"]
        /\ Send(net \ {c}, "Change", c.node, c.key, c.command, None)
    BY <1>2, Zenon DEF Claimed
  <2>2. handler[c.node].pc = "attempting" /\ handler[c.node].command = c.command
    BY <1>2, Zenon DEF Awaited
  <2>3. handler' \in [Nodes -> HandlerType] /\ HandlersOK'
    BY <2>1, <2>2, <1>0, NextStage, Zenon
  <2>4. \A d \in net' : d \in net \ {c} \/ (d \in EntryType /\ EntryOK(d, now', stored', moves'))
    BY <2>1, <1>0, Sent, Zenon
  <2> QED
    BY <2>3, <2>4, <1>0, <1>1, NetKept, Zenon
<1>3. CASE ~Awaited(c, "attempting")
  <2>1. handler' = handler /\ net' = net \ {c}
    BY <1>3, Zenon DEF Claimed
  <2> QED
    BY <2>1, <1>0, <1>1, HandlersKept, NothingSent, Zenon
<1> QED
  BY <1>2, <1>3, Zenon

(* The record under k is left alone, or makes way for one without a move. *)
Tidy(k) ==
    \/ window'[k] = window[k]
    \/ (window[k].receipt = None \/ Aged(k)) /\ Plain(window'[k])

LEMMA TidyStep ==
    ASSUME Configured, WindowInv, UNCHANGED <<now, index, voters, stored, moves>>, \A k \in Keys : Tidy(k)
    PROVE  Grows /\ RecordsOK' /\ MovesOK' /\ HeldOK'
<1> USE DEF WindowInv
<1>0. now' \in Nat /\ now <= now' /\ index' \in Nat /\ index <= index'
  BY Reflexive, PositionIsNat, Zenon DEF Configured, WindowTypes
<1>1. Grows /\ SameMoves
  BY <1>0, Zenon DEF Grows, SameMoves
<1>2. ASSUME NEW k \in Keys
      PROVE  /\ Goes(k) /\ window'[k].projectors \subseteq voters'
             /\ window[k].projectors # {} => window'[k] = window[k]
  <2>1. RecordOK(k, window[k], moves, voters)
    BY Zenon DEF RecordsOK
  <2>2. window[k].receipt = None => window[k].projectors = {}
    BY <2>1, Zenon DEF RecordOK
  <2>3. window[k].projectors \subseteq voters
    BY <2>1, Zenon DEF RecordOK
  <2>4. CASE window'[k] = window[k]
    BY <2>3, <2>4, Zenon DEF Goes, Trimmed
  <2>5. CASE (window[k].receipt = None \/ Aged(k)) /\ Plain(window'[k])
    BY <2>2, <2>5, Zenon DEF Goes, Plain, Aged
  <2> QED
    BY <2>4, <2>5, Zenon DEF Tidy
<1>3. RecordsOK'
  BY <1>1, <1>2, RecordGoes, Zenon DEF RecordsOK
<1>4. MovesOK'
  BY <1>0, <1>1, <1>2, MovesGo, Zenon
<1>5. HeldOK'
  BY <1>1, <1>2, HeldGoes, Zenon
<1> QED
  BY <1>1, <1>3, <1>4, <1>5, Zenon

(* An entry prunes the window and then writes the record of its own key:   *)
(* as it was, or without a move where no receipt stood.                    *)
LEMMA WriteTidy ==
    ASSUME Configured, WindowInv, NEW c \in net, NEW w \in RecordType,
           window' = [prune_controls(c.at) EXCEPT ![c.key] = w],
           w = prune_controls(c.at)[c.key] \/ (prune_controls(c.at)[c.key].receipt = None /\ Plain(w))
    PROVE  window' \in [Keys -> RecordType] /\ \A k \in Keys : Tidy(k)
<1> DEFINE pruned == prune_controls(c.at)
<1>0. WindowTypes /\ NetOK /\ c.key \in Keys
  BY StampBound, Zenon DEF WindowInv
<1>1. \A k \in Keys : /\ pruned[k] \in RecordType
                      /\ pruned[k] = window[k] \/ (pruned[k] = NoRecord /\ Aged(k))
  BY <1>0, Pruned, Zenon
<1>2. pruned = [k \in Keys |-> pruned[k]]
  BY Zenon DEF prune_controls
<1> HIDE DEF pruned
<1>3. window' = [pruned EXCEPT ![c.key] = w]
  BY Zenon DEF pruned
<1>4. \A k \in Keys : window'[k] = IF k = c.key THEN w ELSE pruned[k]
  BY <1>0, <1>2, <1>3, Zenon
<1>5. window' \in [Keys -> RecordType]
  BY <1>0, <1>1, <1>2, <1>3, Zenon
<1>6. w = pruned[c.key] \/ (pruned[c.key].receipt = None /\ Plain(w))
  BY Zenon DEF pruned
<1>7. ASSUME NEW k \in Keys PROVE Tidy(k)
  <2>1. CASE window'[k] = pruned[k]
    BY <2>1, <1>1, NoRecordIsPlain, Zenon DEF Tidy
  <2>2. CASE k = c.key /\ pruned[k].receipt = None /\ Plain(w)
    BY <2>2, <1>0, <1>1, <1>4, Zenon DEF Tidy
  <2> QED
    BY <2>1, <2>2, <1>4, <1>6, Zenon
<1> QED
  BY <1>5, <1>7, Zenon

LEMMA PruneTidy ==
    ASSUME Configured, WindowInv, NEW c \in net, window' = prune_controls(c.at)
    PROVE  window' \in [Keys -> RecordType] /\ \A k \in Keys : Tidy(k)
<1>0. WindowTypes /\ NetOK
  BY Zenon DEF WindowInv
<1>1. \A k \in Keys : /\ window'[k] \in RecordType
                      /\ window'[k] = window[k] \/ (window'[k] = NoRecord /\ Aged(k))
  BY <1>0, Pruned, Zenon
<1>2. window' = [k \in Keys |-> window'[k]]
  BY Zenon DEF prune_controls
<1>3. window' \in [Keys -> RecordType]
  BY <1>1, <1>2, Zenon
<1>4. \A k \in Keys : Tidy(k)
  BY <1>1, NoRecordIsPlain, Zenon DEF Tidy
<1> QED
  BY <1>3, <1>4, Zenon

(* A bound record of the pruned window is the record of the window. *)
LEMMA BoundRecord ==
    ASSUME Configured, WindowInv, NEW c \in net, Bound(prune_controls(c.at)[c.key])
    PROVE  /\ prune_controls(c.at)[c.key] = window[c.key]
           /\ RecordOK(c.key, prune_controls(c.at)[c.key], moves, voters)
<1>0. WindowTypes /\ NetOK /\ c.key \in Keys
  BY StampBound, Zenon DEF WindowInv
<1>1. prune_controls(c.at)[c.key] = window[c.key]
  BY <1>0, Pruned, NoRecordIsPlain, Zenon
<1>2. RecordOK(c.key, window[c.key], moves, voters)
  BY <1>0, Zenon DEF WindowInv, RecordsOK
<1> QED
  BY <1>1, <1>2, Zenon

LEMMA FrameTyped ==
    ASSUME WindowInv, UNCHANGED <<now, voters, stored>>
    PROVE  now' \in Nat /\ voters' \in SUBSET Nodes /\ stored' \in [Nodes -> SUBSET Nat]
BY Zenon DEF WindowInv, WindowTypes

(* The attempt meets a record, is refused, or claims its key. *)
LEMMA AttemptHolds ==
    ASSUME Configured, WindowInv, NEW c \in net, attempt_control(c), index' = index
    PROVE  WindowInv'
<1> DEFINE old == prune_controls(c.at)[c.key]
<1>0. /\ c.node \in Nodes /\ c.key \in Keys /\ c.command \in Commands /\ c.at \in Int
      /\ c.command # None
      /\ UNCHANGED <<now, voters, stored>>
  BY StampBound, Zenon DEF Configured, WindowInv, attempt_control
<1>1. CASE AttemptBound(c, old) /\ window' = prune_controls(c.at)
  <2>1. Bound(old) /\ UNCHANGED <<index, moves>>
    BY <1>1, Zenon DEF AttemptBound, Claimed
  <2>2. old = window[c.key] /\ RecordOK(c.key, old, moves, voters) /\ old \in RecordType
    BY <2>1, <1>0, BoundRecord, Zenon DEF WindowInv, WindowTypes
  <2>3. window' \in [Keys -> RecordType] /\ Grows /\ RecordsOK' /\ MovesOK' /\ HeldOK'
    BY <1>0, <1>1, <2>1, PruneTidy, TidyStep, Zenon
  <2> HIDE DEF old
  <2>4. /\ net' \in SUBSET EntryType /\ NetOK'
        /\ handler' \in [Nodes -> HandlerType] /\ HandlersOK'
        /\ cache' \in [Nodes -> [Keys -> CacheType]] /\ CacheOK'
    <3>1. CASE old.command # c.command /\ Refuse(c, "attempting") /\ net' = net \ {c}
      BY <3>1, <2>3, <1>0, RefuseHolds, NothingSent, Zenon
    <3>2. CASE /\ old.command = c.command /\ old.receipt # None
               /\ AnswerNode(c, "attempting", old.receipt) /\ net' = net \ {c}
      <4>1. OwnAnswer(c.key, c.command, old.receipt, moves') /\ old.receipt \in ReceiptType
        BY <3>2, <2>1, <2>2, Zenon DEF RecordOK, RecordType, MaybeReceipt
      <4> QED
        BY <4>1, <3>2, <2>3, <1>0, RespondHolds, NothingSent, ZenonT(60)
    <3>3. CASE old.command = c.command /\ old.receipt = None /\ Claimed(c)
      <4>1. ~Fused(c.command)
        BY <3>3, <2>1, <2>2, Zenon DEF RecordOK
      <4> QED
        BY <4>1, <3>3, <2>3, <1>0, ClaimedHolds, Zenon
    <3> QED
      BY <1>1, <3>1, <3>2, <3>3, Zenon DEF AttemptBound
  <2> QED
    BY <2>1, <2>3, <2>4, <1>0, FrameTyped, Whole, ZenonT(60) DEF WindowInv, WindowTypes
<1>2. CASE /\ ~Bound(old) /\ ~Fused(c.command) /\ Claimed(c)
           /\ window' = [prune_controls(c.at) EXCEPT ![c.key] = bind_control(c.command, c.at, None, {})]
  <2> DEFINE w == bind_control(c.command, c.at, None, {})
  <2>1. w \in RecordType /\ Plain(w)
    BY <1>0, <1>2, Zenon DEF bind_control, RecordType, Plain, MaybeCommand, MaybeReceipt
  <2>2. old.receipt = None
    <3>1. RecordOK(c.key, window[c.key], moves, voters) /\ WindowTypes /\ NetOK
      BY <1>0, Zenon DEF WindowInv, RecordsOK
    <3> QED
      BY <3>1, <1>0, <1>2, Pruned, NoRecordIsPlain, Zenon DEF RecordOK
  <2>3. window' = [prune_controls(c.at) EXCEPT ![c.key] = w]
    BY <1>2, Zenon
  <2> HIDE DEF w
  <2>4. window' \in [Keys -> RecordType] /\ \A k \in Keys : Tidy(k)
    BY <2>1, <2>2, <2>3, WriteTidy, Zenon
  <2>5. UNCHANGED <<index, moves>>
    BY <1>2, Zenon DEF Claimed
  <2>6. Grows /\ RecordsOK' /\ MovesOK' /\ HeldOK'
    BY <1>0, <2>4, <2>5, TidyStep, Zenon
  <2>7. /\ net' \in SUBSET EntryType /\ NetOK'
        /\ handler' \in [Nodes -> HandlerType] /\ HandlersOK'
        /\ cache' \in [Nodes -> [Keys -> CacheType]] /\ CacheOK'
    BY <1>0, <1>2, <2>6, ClaimedHolds, Zenon
  <2> QED
    BY <2>4, <2>5, <2>6, <2>7, <1>0, FrameTyped, Whole, ZenonT(60) DEF WindowInv, WindowTypes
<1>3. CASE Reject(c) /\ window' = prune_controls(c.at)
  <2>1. UNCHANGED <<index, moves>> /\ Refuse(c, "attempting") /\ net' = net \ {c}
    BY <1>3, Zenon DEF Reject
  <2>2. window' \in [Keys -> RecordType] /\ Grows /\ RecordsOK' /\ MovesOK' /\ HeldOK'
    BY <1>0, <1>3, <2>1, PruneTidy, TidyStep, Zenon
  <2> QED
    BY <2>1, <2>2, <1>0, RefuseHolds, NothingSent, FrameTyped, Whole, ZenonT(60) DEF WindowInv, WindowTypes
<1>4. ~Decide(c, Receipt(c.command, index + 1))
  <2>1. index + 1 # index
    BY Reflexive, PositionIsNat, Zenon DEF Configured, WindowInv, WindowTypes
  <2> QED
    BY <2>1, DecideWrites, Zenon DEF DecidedAt
<1> QED
  BY <1>1, <1>2, <1>3, <1>4, Zenon DEF attempt_control

(* Where the record of a decision is gone, or may go, its window is over. *)
LEMMA WindowOver ==
    ASSUME Configured, WindowInv, NEW i \in 1..MaxIndex, moves[i].key # None,
           window[moves[i].key].receipt = None \/ Aged(moves[i].key)
    PROVE  now - moves[i].at >= Ended
<1> DEFINE k == moves[i].key
<1>1. k \in Keys /\ moves[i].at \in Nat /\ window[k].claimed \in Int /\ now \in Nat
  BY Zenon DEF WindowInv, WindowTypes, MoveType, RecordType
<1>2. Standing(i)
  BY Zenon DEF WindowInv, MovesOK
<1>3. /\ window[k].receipt = None \/ now + Drift - window[k].claimed >= Window
      /\ \/ window[k].receipt # None /\ window[k].claimed >= moves[i].at - Drift - MaxDelay
         \/ now - moves[i].at >= Ended
  BY <1>2, Zenon DEF Aged, Standing
<1> HIDE DEF k
<1>4. now <= now
  BY <1>1, Reflexive, Zenon
<1> QED
  BY <1>1, <1>3, <1>4, AgedIsOver, Zenon

(* A move is decided: its key was free, so every earlier decision under it *)
(* is over.                                                                *)
LEMMA DecideHolds ==
    ASSUME Configured, WindowInv, NEW c \in net, attempt_control(c), Decide(c, Receipt(c.command, index + 1)),
           ~Bound(prune_controls(c.at)[c.key]), Fused(c.command),
           window' = [prune_controls(c.at) EXCEPT
                          ![c.key] = bind_control(c.command, c.at, Receipt(c.command, index + 1), voters)]
    PROVE  WindowInv'
<1> DEFINE pruned == prune_controls(c.at)
           q == c.key
           i0 == index + 1
           r == Receipt(c.command, i0)
           w == bind_control(c.command, c.at, r, voters)
           m == [key |-> q, at |-> now, owed |-> voters]
<1>0. /\ WindowTypes /\ NetOK /\ c.node \in Nodes /\ q \in Keys /\ c.command \in Commands
      /\ c.at \in Int /\ c.at >= now - MaxDelay - Drift
      /\ c.command # None /\ q # None
      /\ UNCHANGED <<now, voters, stored>>
  BY StampBound, Zenon DEF Configured, WindowInv, attempt_control
<1>1. /\ i0 \in 1..MaxIndex /\ i0 \in 0..MaxIndex /\ i0 \in Nat /\ index' = i0
      /\ moves' = [moves EXCEPT ![i0] = m] /\ net' = net \ {c}
      /\ AnswerNode(c, "attempting", r)
  <2>1. DecidedAt(c, r, i0)
    BY DecideWrites, Zenon
  <2>2. MaxIndex \in Nat /\ index \in 0..MaxIndex /\ index < MaxIndex
    BY <1>0, <2>1, Zenon DEF Configured, WindowTypes, DecidedAt
  <2>3. i0 \in 1..MaxIndex /\ i0 \in 0..MaxIndex /\ i0 \in Nat
    BY <2>2, NextPosition, Zenon
  <2> HIDE DEF r, i0
  <2> QED
    BY <2>1, <2>3, Zenon DEF DecidedAt, m, q
<1>2. r \in ReceiptType /\ r # None /\ r.command = c.command /\ r.index = i0
  BY <1>0, <1>1, ReceiptTyped, Zenon DEF Receipted
<1>3. /\ w \in RecordType /\ w.command = c.command /\ w.claimed = c.at /\ w.receipt = r
      /\ w.projectors = voters
  <2> HIDE DEF r
  <2> QED
    BY <1>0, <1>2, Zenon DEF bind_control, RecordType, MaybeCommand, MaybeReceipt, WindowTypes
<1>4. m \in MoveType /\ m.key = q /\ m.at = now /\ m.owed = voters
  BY <1>0, Zenon DEF MoveType, WindowTypes
<1>5. \A k \in Keys : /\ pruned[k] \in RecordType
                      /\ pruned[k] = window[k] \/ (pruned[k] = NoRecord /\ Aged(k))
  BY <1>0, Pruned, Zenon
<1>6. pruned = [k \in Keys |-> pruned[k]] /\ ~Bound(pruned[q])
  BY Zenon DEF prune_controls
<1>7. window' = [pruned EXCEPT ![q] = w]
  OBVIOUS
<1> HIDE DEF pruned, q, i0, r, w, m
<1>8. /\ window' \in [Keys -> RecordType]
      /\ \A k \in Keys : window'[k] = IF k = q THEN w ELSE pruned[k]
  BY <1>0, <1>3, <1>5, <1>6, <1>7, ZenonT(60)
<1>9. /\ moves' \in [1..MaxIndex -> MoveType]
      /\ \A i \in 1..MaxIndex : moves'[i] = IF i = i0 THEN m ELSE moves[i]
  BY <1>0, <1>1, <1>4, Zenon DEF WindowTypes
<1>10. \A i \in 1..MaxIndex : i >= i0 => moves[i].key = None
  <2>1. MaxIndex \in Nat /\ index \in 0..MaxIndex
    BY <1>0, Zenon DEF WindowTypes, Configured
  <2> QED
    BY <2>1, PastNext, Zenon DEF WindowInv, MovesOK, i0
<1>11. Grows
  <2>1. i0 >= i0 /\ now \in Nat /\ now <= now
    BY <1>0, <1>1, Reflexive, Zenon DEF WindowTypes
  <2>2. moves[i0].key = None
    BY <1>1, <1>10, <2>1, Zenon
  <2> QED
    BY <1>0, <1>9, <2>1, <2>2, Zenon DEF Grows
<1>12. window[q].receipt = None \/ Aged(q)
  BY <1>0, <1>5, <1>6, Zenon DEF WindowInv, RecordsOK, RecordOK
<1>13. \A i \in 1..MaxIndex : moves[i].key = q => now - moves[i].at >= Ended
  <2> SUFFICES ASSUME NEW i \in 1..MaxIndex, moves[i].key = q PROVE now - moves[i].at >= Ended
    BY Zenon
  <2>1. moves[i].key # None /\ (window[moves[i].key].receipt = None \/ Aged(moves[i].key))
    BY <1>0, <1>12, Zenon
  <2> QED
    BY <2>1, WindowOver, Zenon
<1>14. RecordsOK'
  <2>1. ASSUME NEW k \in Keys PROVE RecordOK(k, window'[k], moves', voters')
    <3>1. CASE k = q
      <4>1. OwnAnswer(k, w.command, w.receipt, moves')
        BY <3>1, <1>1, <1>2, <1>3, <1>4, <1>9, ZenonT(60) DEF OwnAnswer, Sealed
      <4>2. \A i \in 1..MaxIndex : moves'[i].key = k => i <= w.receipt.index
        <5> SUFFICES ASSUME NEW i \in 1..MaxIndex, moves'[i].key = k PROVE i <= i0
          BY <1>2, <1>3, Zenon
        <5>1. CASE i = i0
          BY <5>1, <1>1, Reflexive, Zenon
        <5>2. CASE i # i0
          <6>1. moves[i].key # None
            BY <5>2, <3>1, <1>0, <1>9, Zenon
          <6>2. ~(i >= i0) /\ MaxIndex \in Nat
            BY <6>1, <1>10, Zenon DEF Configured
          <6> QED
            BY <6>2, <1>1, BelowIt, Zenon
        <5> QED
          BY <5>1, <5>2, Zenon
      <4>3. RecordOK(k, w, moves', voters')
        BY <4>1, <4>2, <1>0, <1>2, <1>3, Zenon DEF RecordOK, Bound
      <4> QED
        BY <4>3, <3>1, <1>8, Zenon
    <3>2. CASE k # q
      <4>1. CASE pruned[k] = window[k]
        <5>1. RecordOK(k, window[k], moves, voters)
          BY Zenon DEF WindowInv, RecordsOK
        <5>2. \A i \in 1..MaxIndex : moves'[i].key = k => moves[i].key = k
          BY <3>2, <1>4, <1>9, Zenon
        <5>3. window[k].receipt # None => OwnAnswer(k, window[k].command, window[k].receipt, moves')
          BY <5>1, <1>11, AnswerKept, Zenon DEF RecordOK
        <5>4. RecordOK(k, window[k], moves', voters')
          BY <5>1, <5>2, <5>3, <1>0, Zenon DEF RecordOK
        <5> QED
          BY <5>4, <4>1, <3>2, <1>8, Zenon
      <4>2. CASE pruned[k] = NoRecord
        <5>1. RecordOK(k, NoRecord, moves', voters')
          BY Zenon DEF RecordOK, NoRecord, Bound
        <5> QED
          BY <5>1, <4>2, <3>2, <1>8, Zenon
      <4> QED
        BY <4>1, <4>2, <1>5, Zenon
    <3> QED
      BY <3>1, <3>2, Zenon
  <2> QED
    BY <2>1, Zenon DEF RecordsOK
<1>15. MovesOK'
  <2>1. \A i \in 1..MaxIndex : i > index' => moves'[i].key = None
    <3>1. MaxIndex \in Nat
      BY Zenon DEF Configured
    <3> QED
      BY <3>1, <1>1, <1>9, <1>10, Beyond, Zenon
  <2>2. ASSUME NEW i \in 1..MaxIndex, moves'[i].key # None PROVE Standing(i)'
    <3>1. CASE i = i0
      <4>1. moves'[i].key = q /\ moves'[i].at = now
        BY <3>1, <1>1, <1>4, <1>9, Zenon
      <4>2. window'[q] = w
        BY <1>0, <1>8, Zenon
      <4>3. w.receipt # None /\ w.claimed >= now - Drift - MaxDelay
        BY <1>0, <1>2, <1>3, StampRecent, Zenon DEF WindowTypes
      <4> QED
        BY <4>1, <4>2, <4>3, Zenon DEF Standing
    <3>2. CASE i # i0
      <4>1. moves'[i] = moves[i] /\ moves[i].key \in Keys
        BY <3>2, <2>2, <1>0, <1>9, Zenon DEF WindowTypes, MoveType
      <4>2. CASE window[moves[i].key].receipt = None \/ Aged(moves[i].key)
        BY <4>1, <4>2, <2>2, <1>0, WindowOver, Zenon DEF Standing, Ended
      <4>3. CASE ~(window[moves[i].key].receipt = None \/ Aged(moves[i].key))
        <5>1. window'[moves[i].key] = window[moves[i].key]
          BY <4>1, <4>3, <1>5, <1>8, <1>12, Zenon
        <5> QED
          BY <5>1, <4>1, <2>2, <1>0, Zenon DEF WindowInv, MovesOK, Standing
      <4> QED
        BY <4>2, <4>3, Zenon
    <3> QED
      BY <3>1, <3>2, Zenon
  <2>3. OnceInWindow'
    <3>1. ASSUME NEW i \in 1..MaxIndex, NEW j \in 1..MaxIndex, i < j, moves'[i].key # None,
                 moves'[j].key = moves'[i].key
          PROVE  moves'[j].at - moves'[i].at >= Ended
      <4>1. CASE j = i0
        <5>1. i # i0
          BY <4>1, <3>1, <1>1, Beyond, Zenon DEF Configured
        <5>2. moves'[i] = moves[i] /\ moves'[j] = m
          BY <5>1, <4>1, <1>9, Zenon
        <5>3. moves[i].key = q
          BY <5>2, <3>1, <1>4, Zenon
        <5> QED
          BY <5>2, <5>3, <1>4, <1>13, Zenon
      <4>2. CASE j # i0
        <5>1. i # i0
          <6>1. ASSUME i = i0 PROVE FALSE
            <7>1. j >= i0
              BY <6>1, <3>1, <1>1, Beyond, Zenon DEF Configured
            <7> QED
              BY <7>1, <4>2, <3>1, <1>9, <1>10, Zenon
          <6> QED
            BY <6>1, Zenon
        <5> QED
          BY <5>1, <4>2, <3>1, <1>9, Zenon DEF WindowInv, MovesOK, OnceInWindow, Ended
      <4> QED
        BY <4>1, <4>2, Zenon
    <3> QED
      BY <3>1, Zenon DEF OnceInWindow, Ended
  <2> QED
    BY <2>1, <2>2, <2>3, Zenon DEF MovesOK
<1>16. HeldOK'
  <2> SUFFICES ASSUME NEW i \in 1..MaxIndex, FirstUnderKey(i)', NEW n \in moves'[i].owed
               PROVE  HeldFor(i, n)'
    BY Zenon DEF HeldOK
  <2>1. CASE i = i0
    <3>1. n \in voters
      BY <2>1, <1>1, <1>4, <1>9, Zenon
    <3>2. window'[q] = w
      BY <1>0, <1>8, Zenon
    <3>3. n \in window'[q].projectors /\ window'[q].receipt # None /\ window'[q].receipt.index = i
      BY <3>1, <3>2, <2>1, <1>2, <1>3, Zenon
    <3> QED
      BY <3>3, <1>0, Zenon DEF HeldFor
  <2>2. CASE i # i0
    <3>1. i < i0
      <4>1. moves[i].key # None
        BY <2>2, <1>9, Zenon DEF FirstUnderKey
      <4>2. ~(i >= i0) /\ MaxIndex \in Nat
        BY <4>1, <1>10, Zenon DEF Configured
      <4> QED
        BY <4>2, <1>1, BelowIt, Zenon
    <3>2. FirstUnderKey(i) /\ n \in moves[i].owed
      <4>1. \A j \in 1..(i - 1) : j \in 1..MaxIndex /\ j # i0
        BY <3>1, <1>1, Earlier, EarlierYet, Zenon DEF Configured
      <4> QED
        BY <4>1, <2>2, <1>9, Zenon DEF FirstUnderKey
    <3>3. HeldFor(i, n)
      BY <3>2, Zenon DEF WindowInv, HeldOK
    <3>4. ASSUME NEW k \in Keys, n \in window[k].projectors, window[k].receipt # None
          PROVE  window'[k] = window[k]
      <4>1. pruned[k] = window[k]
        BY <3>4, <1>5, Zenon DEF Aged
      <4>2. k # q
        BY <4>1, <3>4, <1>6, Zenon DEF WindowInv, RecordsOK, RecordOK
      <4> QED
        BY <4>1, <4>2, <1>8, Zenon
    <3> QED
      BY <3>3, <3>4, <1>0, Zenon DEF HeldFor
  <2> QED
    BY <2>1, <2>2, Zenon
<1>17. OwnAnswer(q, c.command, r, moves')
  BY <1>1, <1>2, <1>4, <1>9, Zenon DEF OwnAnswer, Sealed
<1>18. /\ handler' \in [Nodes -> HandlerType] /\ HandlersOK'
       /\ cache' \in [Nodes -> [Keys -> CacheType]] /\ CacheOK'
  BY <1>1, <1>2, <1>11, <1>17, RespondHolds, Zenon DEF q
<1>19. net' \in SUBSET EntryType /\ NetOK'
  BY <1>0, <1>1, <1>11, NothingSent, Zenon
<1>20. index' \in 0..MaxIndex
  BY <1>1, Zenon
<1> QED
  BY <1>0, <1>8, <1>9, <1>14, <1>15, <1>16, <1>18, <1>19, <1>20, FrameTyped, Whole, Zenon

LEMMA SettleHolds ==
    ASSUME Configured, WindowInv, NEW c \in net, ApplySettle(c)
    PROVE  WindowInv'
<1> DEFINE old == prune_controls(c.at)[c.key]
           w == settle_control(old, c.command, c.receipt, c.at)
<1>0. /\ c.node \in Nodes /\ c.key \in Keys /\ c.command \in Commands /\ c.at \in Int
      /\ c.command # None /\ WindowTypes /\ NetOK
      /\ UNCHANGED <<now, index, voters, stored, moves>> /\ net' = net \ {c}
  BY StampBound, Zenon DEF Configured, WindowInv, ApplySettle
<1>1. ~Fused(c.command) /\ c.receipt # None /\ c.receipt.command = c.command /\ c.receipt \in ReceiptType
  BY StampBound, Zenon DEF WindowInv, NetOK, EntryOK, ApplySettle, MaybeReceipt
<1>2. window' = [prune_controls(c.at) EXCEPT ![c.key] = w] /\ AnswerNode(c, "settling", w.receipt)
  BY Zenon DEF ApplySettle
<1>3. old \in RecordType /\ RecordOK(c.key, old, moves, voters)
  <2>1. RecordOK(c.key, window[c.key], moves, voters) /\ RecordOK(c.key, NoRecord, moves, voters)
    BY <1>0, Zenon DEF WindowInv, RecordsOK, RecordOK, NoRecord, Bound
  <2> QED
    BY <2>1, <1>0, Pruned, Zenon
<1> HIDE DEF old
<1>4. /\ w \in RecordType /\ w.receipt \in ReceiptType
      /\ w = old \/ (old.receipt = None /\ Plain(w))
      /\ OwnAnswer(c.key, c.command, w.receipt, moves)
  <2>1. CASE ~Bound(old)
    <3>1. w = bind_control(c.command, c.at, c.receipt, {}) /\ old.receipt = None
      BY <2>1, <1>3, Zenon DEF settle_control, RecordOK
    <3> QED
      <4> HIDE DEF w
      <4>1. c.receipt \in ReceiptType
        BY <1>1, Zenon
      <4>2. BoundTo(w, c.command, c.receipt)
        BY <4>1, <3>1, <1>0, BindTyped, Zenon
      <4>3. w \in RecordType /\ w.command = c.command /\ w.receipt = c.receipt /\ w.projectors = {}
        BY <4>2, Zenon DEF BoundTo
      <4>4. Plain(w)
        BY <4>3, <1>0, <1>1, Zenon DEF Plain, Bound
      <4>5. OwnAnswer(c.key, c.command, w.receipt, moves)
        BY <4>3, <1>1, Zenon DEF OwnAnswer
      <4> QED
        BY <4>3, <4>4, <4>5, <3>1, <1>1, Zenon
  <2>2. CASE Bound(old) /\ old.receipt = None
    <3>1. w = [old EXCEPT !.receipt = c.receipt]
      BY <2>2, Zenon DEF settle_control
    <3>2. /\ w \in RecordType /\ w.receipt = c.receipt /\ w.command = old.command
          /\ w.projectors = old.projectors
      BY <3>1, <1>1, <1>3, Zenon DEF RecordType, MaybeReceipt
    <3> QED
      BY <3>2, <2>2, <1>0, <1>1, <1>3, Zenon DEF RecordOK, Plain, Bound, OwnAnswer
  <2>3. CASE Bound(old) /\ old.receipt # None
    <3>1. w = old
      BY <2>3, Zenon DEF settle_control
    <3> QED
      BY <3>1, <2>3, <1>1, <1>3, Zenon DEF RecordOK, OwnAnswer, RecordType, MaybeReceipt
  <2> QED
    BY <2>1, <2>2, <2>3, Zenon
<1> HIDE DEF w
<1>5. window' \in [Keys -> RecordType] /\ \A k \in Keys : Tidy(k)
  BY <1>2, <1>4, WriteTidy, Zenon DEF old
<1>6. Grows /\ RecordsOK' /\ MovesOK' /\ HeldOK'
  BY <1>0, <1>5, TidyStep, Zenon
<1>7. OwnAnswer(c.key, c.command, w.receipt, moves')
  BY <1>0, <1>4, Zenon
<1>8. /\ handler' \in [Nodes -> HandlerType] /\ HandlersOK'
      /\ cache' \in [Nodes -> [Keys -> CacheType]] /\ CacheOK'
  BY <1>2, <1>4, <1>6, <1>7, RespondHolds, Zenon
<1>9. net' \in SUBSET EntryType /\ NetOK'
  BY <1>0, <1>6, NothingSent, Zenon
<1> QED
  BY <1>0, <1>5, <1>6, <1>8, <1>9, FrameTyped, Whole, ZenonT(60) DEF WindowTypes

LEMMA ReleaseHolds ==
    ASSUME Configured, WindowInv, NEW c \in net, ApplyRelease(c)
    PROVE  WindowInv'
<1> DEFINE old == prune_controls(c.at)[c.key]
           w == release_control(old, c.command)
<1>0. /\ c.key \in Keys /\ WindowTypes /\ NetOK
      /\ UNCHANGED <<now, index, voters, stored, moves>> /\ net' = net \ {c}
      /\ Refuse(c, "settling")
  BY StampBound, Zenon DEF WindowInv, ApplyRelease
<1>1. window' = [prune_controls(c.at) EXCEPT ![c.key] = w]
  <2>1. window' = [prune_controls(c.at) EXCEPT ![c.key] = release_control(@, c.command)]
    BY Zenon DEF ApplyRelease
  <2>2. prune_controls(c.at) = [k \in Keys |-> prune_controls(c.at)[k]]
    BY Zenon DEF prune_controls
  <2> QED
    BY <2>1, <2>2, <1>0, Zenon
<1>2. old \in RecordType
  BY <1>0, Pruned, Zenon
<1>3. w \in RecordType /\ (w = old \/ (old.receipt = None /\ Plain(w)))
  <2> HIDE DEF old
  <2>1. NoRecord \in RecordType
    BY Empties, Zenon
  <2> QED
    BY <2>1, <1>2, NoRecordIsPlain, Zenon DEF release_control
<1> HIDE DEF w
<1>4. window' \in [Keys -> RecordType] /\ \A k \in Keys : Tidy(k)
  BY <1>1, <1>3, WriteTidy, Zenon
<1>5. Grows /\ RecordsOK' /\ MovesOK' /\ HeldOK'
  BY <1>0, <1>4, TidyStep, Zenon
<1> QED
  BY <1>0, <1>4, <1>5, RefuseHolds, NothingSent, FrameTyped, Whole, ZenonT(60) DEF WindowTypes

(* A node leaves the list of the record under its key.  Where the record   *)
(* is that of a first move, that move is the only one under the key, and   *)
(* the audit the node reported is its audit.                               *)
LEMMA CompleteHolds ==
    ASSUME Configured, WindowInv, NEW c \in net, ApplyComplete(c)
    PROVE  WindowInv'
<1> DEFINE q == c.key
           w == complete_transfer_audit(window[q], c.node)
<1>0. /\ q \in Keys /\ c.node \in Nodes /\ WindowTypes /\ NetOK /\ RecordsOK /\ MovesOK /\ HeldOK
      /\ UNCHANGED <<now, index, voters, handler, cache, stored, moves>> /\ net' = net \ {c}
  BY StampBound, Zenon DEF WindowInv, ApplyComplete
<1>1. window' = [window EXCEPT ![q] = w]
  BY <1>0, Zenon DEF ApplyComplete, WindowTypes
<1>2. /\ w \in RecordType /\ w.command = window[q].command /\ w.claimed = window[q].claimed
      /\ w.receipt = window[q].receipt /\ w.projectors = window[q].projectors \ {c.node}
  BY <1>0, Zenon DEF complete_transfer_audit, WindowTypes, RecordType
<1>3. PICK i \in stored[c.node] : i \in 1..MaxIndex /\ moves[i].key = q
  BY <1>0, Zenon DEF NetOK, EntryOK, ApplyComplete
<1> HIDE DEF w, q
<1>4. /\ window' \in [Keys -> RecordType]
      /\ \A k \in Keys : window'[k] = IF k = q THEN w ELSE window[k]
  BY <1>0, <1>1, <1>2, Zenon DEF WindowTypes
<1>50. now' \in Nat /\ now <= now' /\ index' \in Nat /\ index <= index'
  BY <1>0, Reflexive, PositionIsNat, Zenon DEF Configured, WindowTypes
<1>5. Grows /\ SameMoves
  BY <1>0, <1>50, Zenon DEF Grows, SameMoves
<1>6. \A k \in Keys : Trimmed(k)
  BY <1>2, <1>4, Zenon DEF Trimmed
<1>7. \A k \in Keys : Goes(k) /\ window'[k].projectors \subseteq voters'
  BY <1>0, <1>6, Zenon DEF Goes, Trimmed, RecordsOK, RecordOK
<1>8. RecordsOK'
  BY <1>0, <1>5, <1>7, RecordGoes, Zenon DEF RecordsOK
<1>9. MovesOK'
  BY <1>0, <1>5, <1>50, <1>7, MovesGo, Zenon
<1>10. ASSUME NEW k \in Keys, NEW n \in window[k].projectors
       PROVE  \/ n \in window'[k].projectors
              \/ FirstUnderKey(window[k].receipt.index) => window[k].receipt.index \in stored[n]
  <2>1. CASE k # q \/ n # c.node
    BY <2>1, <1>2, <1>4, Zenon
  <2>2. CASE k = q /\ n = c.node
    <3> DEFINE j == window[q].receipt.index
    <3>1. RecordOK(q, window[q], moves, voters)
      BY <1>0, Zenon DEF RecordsOK
    <3>2. i <= j /\ j \in 1..MaxIndex /\ moves[j].key = q
      BY <3>1, <2>2, <1>3, Zenon DEF RecordOK, OwnAnswer, Sealed
    <3> HIDE DEF j
    <3>3. FirstUnderKey(j) => i = j
      BY <3>2, <1>3, EarlierIs, Zenon DEF Configured, FirstUnderKey
    <3> QED
      BY <3>3, <2>2, <1>3, Zenon DEF j
  <2> QED
    BY <2>1, <2>2, Zenon
<1>11. HeldOK'
  BY <1>0, <1>5, <1>6, <1>10, HeldGoes, Zenon DEF Trimmed
<1> QED
  BY <1>0, <1>4, <1>5, <1>8, <1>9, <1>11, HandlersKept, CacheKept, NothingSent, FrameTyped, Whole, ZenonT(60) DEF WindowInv, WindowTypes

(* The roster changes: the records and the debts forget the same nodes. *)
LEMMA ChangeHolds ==
    ASSUME Configured, WindowInv, NEW c \in net, ApplyChange(c)
    PROVE  WindowInv'
<1> DEFINE roster == c.roster
           i0 == index + 1
           r == Receipt(c.command, i0)
<1>0. /\ c.node \in Nodes /\ c.key \in Keys /\ c.command \in Commands
      /\ WindowTypes /\ NetOK /\ RecordsOK /\ MovesOK /\ HeldOK /\ HandlersOK /\ CacheOK
      /\ UNCHANGED <<now, cache, stored>> /\ voters' = roster
      /\ index' = i0 /\ i0 \in 0..MaxIndex /\ i0 \in Nat /\ index <= i0
  <2>1. index \in 0..MaxIndex /\ index < MaxIndex /\ index' = i0
    BY Zenon DEF WindowInv, ApplyChange, WindowTypes
  <2>2. i0 \in 0..MaxIndex /\ i0 \in Nat /\ index <= i0
    BY <2>1, NextPosition, Zenon DEF Configured
  <2> QED
    BY <2>1, <2>2, StampBound, Zenon DEF WindowInv, ApplyChange
<1>1. ~Fused(c.command)
  BY <1>0, Zenon DEF NetOK, EntryOK, ApplyChange
<1>2. roster \in SUBSET Nodes
  BY <1>0, Zenon DEF WindowTypes, EntryType
<1>3. /\ window' = set_audit_projectors(roster)
      /\ moves' = [i \in DOMAIN moves |-> [moves[i] EXCEPT !.owed = @ \cap roster]]
  BY Zenon DEF ApplyChange
<1>4. r \in ReceiptType /\ r # None /\ r.command = c.command
  BY <1>0, ReceiptTyped, Zenon DEF Receipted
<1>5. IF Awaited(c, "executing")
      THEN /\ handler' = [handler EXCEPT ![c.node] = Serving("settling", c.key, c.command, r)]
           /\ Send(net \ {c}, "Settle", c.node, c.key, c.command, r)
      ELSE net' = net \ {c} /\ UNCHANGED handler
  BY Zenon DEF ApplyChange
<1> HIDE DEF roster, i0, r
<1>6. /\ window' \in [Keys -> RecordType]
      /\ \A k \in Keys : Trimmed(k) /\ window'[k].projectors = window[k].projectors \cap roster
  <2>1. ASSUME NEW k \in Keys
        PROVE  window'[k] \in RecordType /\ Trimmed(k) /\ window'[k].projectors = window[k].projectors \cap roster
    <3>1. window'[k] = [window[k] EXCEPT !.projectors = @ \cap roster] /\ window[k] \in RecordType
      BY <1>0, <1>3, Zenon DEF set_audit_projectors, WindowTypes
    <3> QED
      BY <3>1, Zenon DEF RecordType, Trimmed
  <2>2. window' = [k \in Keys |-> window'[k]]
    BY <1>3, Zenon DEF set_audit_projectors
  <2> QED
    BY <2>1, <2>2, Zenon
<1>7. /\ moves' \in [1..MaxIndex -> MoveType] /\ SameMoves
      /\ \A i \in 1..MaxIndex : moves'[i].owed = moves[i].owed \cap roster
  <2>1. ASSUME NEW i \in 1..MaxIndex
        PROVE  /\ moves'[i] \in MoveType /\ moves'[i].key = moves[i].key /\ moves'[i].at = moves[i].at
               /\ moves'[i].owed = moves[i].owed \cap roster
    <3>1. moves'[i] = [moves[i] EXCEPT !.owed = @ \cap roster] /\ moves[i] \in MoveType
      BY <1>0, <1>3, Zenon DEF WindowTypes
    <3> QED
      BY <3>1, Zenon DEF MoveType
  <2>2. moves' = [i \in 1..MaxIndex |-> moves'[i]]
    BY <1>0, <1>3, Zenon DEF WindowTypes
  <2> QED
    BY <2>1, <2>2, Zenon DEF SameMoves
<1>80. now' \in Nat /\ now <= now'
  BY <1>0, Reflexive, Zenon DEF WindowTypes
<1>8. Grows
  BY <1>0, <1>7, <1>80, Zenon DEF Grows, SameMoves
<1>9. \A k \in Keys : Goes(k) /\ window'[k].projectors \subseteq voters'
  BY <1>0, <1>6, Zenon DEF Goes
<1>10. RecordsOK'
  BY <1>0, <1>7, <1>9, RecordGoes, Zenon DEF RecordsOK
<1>11. MovesOK'
  BY <1>0, <1>7, <1>80, <1>9, MovesGo, Zenon
<1>12. HeldOK'
  <2>1. \A k \in Keys : \A n \in window[k].projectors :
            n \in window'[k].projectors \/ n \notin moves'[window[k].receipt.index].owed
    <3>1. \A k \in Keys : window[k].projectors # {} => window[k].receipt.index \in 1..MaxIndex
      BY <1>0, Zenon DEF RecordsOK, RecordOK, OwnAnswer, Sealed
    <3> QED
      BY <3>1, <1>6, <1>7, Zenon
  <2> QED
    BY <2>1, <1>0, <1>6, <1>7, <1>8, HeldGoes, Zenon DEF Trimmed
<1>13. cache' \in [Nodes -> [Keys -> CacheType]] /\ CacheOK'
  BY <1>0, <1>8, CacheKept, Zenon
<1>14. /\ handler' \in [Nodes -> HandlerType] /\ HandlersOK'
       /\ net' \in SUBSET EntryType /\ NetOK'
  <2>1. CASE Awaited(c, "executing")
    <3> DEFINE h == Serving("settling", c.key, c.command, r)
    <3>1. h \in HandlerType /\ HandlerOK(h, moves')
      BY <1>0, <1>1, <1>4, Zenon DEF Configured, Serving, HandlerType, HandlerOK, MaybeCommand, MaybeReceipt
    <3>2. handler' = [handler EXCEPT ![c.node] = h]
      BY <2>1, <1>5, Zenon
    <3>3. r \in MaybeReceipt /\ Send(net \ {c}, "Settle", c.node, c.key, c.command, r)
      BY <2>1, <1>4, <1>5, Zenon DEF MaybeReceipt
    <3> HIDE DEF h
    <3>4. \A d \in net' : d \in net \ {c} \/ (d \in EntryType /\ EntryOK(d, now', stored', moves'))
      BY <3>3, <1>0, <1>1, <1>4, Sent, Zenon
    <3> QED
      BY <3>1, <3>2, <3>4, <1>0, <1>8, HandlerSet, NetKept, ZenonT(60)
  <2>2. CASE ~Awaited(c, "executing")
    BY <2>2, <1>0, <1>5, <1>8, HandlersKept, NothingSent, Zenon
  <2> QED
    BY <2>1, <2>2, Zenon
<1> QED
  BY <1>0, <1>2, <1>6, <1>7, <1>10, <1>11, <1>12, <1>13, <1>14, Whole, ZenonT(60) DEF WindowTypes

-----------------------------------------------------------------------------
(* The step, and the theorems.                                             *)

LEMMA WindowStutterHolds ==
    ASSUME Configured, WindowInv, UNCHANGED windowVars
    PROVE  WindowInv'
<1>1. UNCHANGED <<now, index, voters, window, net, handler, cache, stored, moves>>
  BY Zenon DEF windowVars
<1> QED
  BY <1>1, NodeStep, NothingSent, HandlersKept, CacheKept, StoredStays, Zenon DEF WindowInv

LEMMA WindowStepHolds ==
    ASSUME Configured, WindowInv, [WindowNext]_windowVars
    PROVE  WindowInv'
<1>1. CASE \E n \in Nodes, k \in Keys, cmd \in Commands : SubmitKeyed(n, k, cmd)
  BY <1>1, WindowSubmitHolds, Zenon
<1>2. CASE \E n \in Nodes, k \in Keys : ReplayCached(n, k) \/ Evict(n, k) \/ recover_transfer_audits(n, k)
  BY <1>2, ReplayHolds, EvictHolds, RecoverHolds, Zenon
<1>3. CASE \E n \in Nodes : Abandon(n) \/ CrashNode(n) \/ ExecuteFails(n) \/ ProjectAnswered(n)
  BY <1>3, AbandonHolds, WindowCrashHolds, FailsHolds, ProjectHolds, ZenonT(60)
<1>4. ASSUME NEW c \in net, attempt_control(c) PROVE WindowInv'
  <2>1. CASE index' = index
    BY <2>1, <1>4, AttemptHolds, Zenon
  <2>2. CASE index' # index
    BY <2>2, <1>4, DecideHolds, Zenon DEF attempt_control, AttemptBound, Claimed, Reject
  <2> QED
    BY <2>1, <2>2, Zenon
<1>5. CASE \E c \in net : \/ attempt_control(c) \/ ApplyChange(c) \/ ApplySettle(c)
                          \/ ApplyRelease(c) \/ ApplyComplete(c)
  BY <1>4, <1>5, ChangeHolds, SettleHolds, ReleaseHolds, CompleteHolds, Zenon
<1>6. CASE Tick
  BY <1>6, TickHolds, Zenon
<1>7. CASE UNCHANGED windowVars
  BY <1>7, WindowStutterHolds, Zenon
<1> QED
  BY <1>1, <1>2, <1>3, <1>5, <1>6, <1>7, ZenonT(60) DEF WindowNext

(* The inductive invariant holds of every behaviour. *)
THEOREM WindowInvariant == WindowSpec => []WindowInv
<1>1. WindowInit => WindowInv
  BY WindowInitHolds, WindowAssumption, Zenon
<1>2. WindowInv /\ [WindowNext]_windowVars => WindowInv'
  BY WindowStepHolds, WindowAssumption, Zenon
<1> QED
  BY <1>1, <1>2, PTL DEF WindowSpec

(* A keyed move is decided once per window, less what two clocks and one   *)
(* delay take off it: attempt_control finds the record of the earlier      *)
(* decision until prune_controls may drop it.                              *)
THEOREM MovesOncePerWindow == WindowSpec => []OnceInWindow
<1>1. WindowInv => OnceInWindow
  BY Zenon DEF WindowInv, MovesOK
<1> QED
  BY <1>1, WindowInvariant, PTL

(* Whoever asked for a move is answered with that move's receipt, by the   *)
(* decision, the window or the process's cache (control.rs, claim).        *)
THEOREM MovesAnswerTheirOwn == WindowSpec => []FusedAnswersOwn
<1>1. WindowInv => FusedAnswersOwn
  BY Zenon DEF WindowInv, HandlersOK, HandlerOK, OwnAnswer, FusedAnswersOwn
<1> QED
  BY <1>1, WindowInvariant, PTL

(* The audit of the first move under a key is stored by, or still held     *)
(* for, every voter it is owed to, and no record waits for a node that     *)
(* left (complete_transfer_audit, prune_controls, set_audit_projectors).   *)
THEOREM AuditsAreRetained == WindowSpec => []AuditRetained
<1>1. WindowInv => AuditRetained
  BY Zenon DEF WindowInv, HeldOK, RecordsOK, RecordOK, AuditRetained
<1> QED
  BY <1>1, WindowInvariant, PTL

(* A receipt that a step takes out of the window had aged. *)
LEMMA ReceiptStep ==
    ASSUME Configured, WindowInv, [WindowNext]_windowVars, NEW k \in Keys, window[k].receipt # None,
           window'[k].receipt # window[k].receipt
    PROVE  now + Drift - window[k].claimed >= Window
<1> SUFFICES Aged(k)
  BY Zenon DEF Aged
<1>0. WindowTypes /\ NetOK /\ RecordsOK
  BY Zenon DEF WindowInv
<1>1. PICK c \in net : \/ attempt_control(c) \/ ApplyChange(c) \/ ApplySettle(c)
                       \/ ApplyRelease(c) \/ ApplyComplete(c)
  BY Zenon DEF WindowNext, windowVars, SubmitKeyed, ReplayCached, Evict, recover_transfer_audits, Abandon, CrashNode,
         ExecuteFails, ProjectAnswered, Tick
<1> DEFINE pruned == prune_controls(c.at)
<1>2. c.key \in Keys /\ pruned = [j \in Keys |-> pruned[j]]
  BY <1>0, StampBound, Zenon DEF prune_controls
<1>3. pruned[k] = window[k] \/ Aged(k)
  BY <1>0, Pruned, Zenon
<1>4. CASE ApplyChange(c)
  BY <1>0, <1>4, Zenon DEF ApplyChange, set_audit_projectors, WindowTypes, RecordType
<1>5. CASE ApplyComplete(c)
  BY <1>0, <1>2, <1>5, Zenon DEF ApplyComplete, complete_transfer_audit, WindowTypes, RecordType
<1>6. CASE window' = pruned
  BY <1>3, <1>6, Zenon
<1>7. ASSUME NEW w, window' = [pruned EXCEPT ![c.key] = w],
             pruned[c.key].receipt # None => w.receipt = pruned[c.key].receipt
      PROVE  Aged(k)
  <2> HIDE DEF pruned
  <2> QED
    BY <1>2, <1>3, <1>7, Zenon
<1>8. ~Bound(pruned[c.key]) => pruned[c.key].receipt = None
  <2>1. RecordOK(c.key, window[c.key], moves, voters)
    BY <1>0, <1>2, Zenon DEF RecordsOK
  <2> QED
    BY <2>1, <1>0, <1>2, Pruned, NoRecordIsPlain, Zenon DEF RecordOK
<1>9. CASE attempt_control(c)
  BY <1>6, <1>7, <1>8, <1>9, Zenon DEF attempt_control
<1>10. CASE ApplySettle(c)
  <2> DEFINE w == settle_control(pruned[c.key], c.command, c.receipt, c.at)
  <2>1. window' = [pruned EXCEPT ![c.key] = w]
    BY <1>10, Zenon DEF ApplySettle
  <2>2. pruned[c.key].receipt # None => w.receipt = pruned[c.key].receipt
    BY <1>8, Zenon DEF settle_control
  <2> QED
    BY <2>1, <2>2, <1>7, Zenon
<1>11. CASE ApplyRelease(c)
  <2> DEFINE w == release_control(pruned[c.key], c.command)
  <2>1. window' = [pruned EXCEPT ![c.key] = w]
    <3>1. window' = [pruned EXCEPT ![c.key] = release_control(@, c.command)]
      BY <1>11, Zenon DEF ApplyRelease
    <3> HIDE DEF pruned
    <3> QED
      BY <3>1, <1>2, Zenon
  <2>2. pruned[c.key].receipt # None => w.receipt = pruned[c.key].receipt
    BY Zenon DEF release_control
  <2> QED
    BY <2>1, <2>2, <1>7, Zenon
<1> QED
  BY <1>1, <1>4, <1>5, <1>9, <1>10, <1>11, Zenon

(* A committed receipt leaves the window only by ageing out: neither       *)
(* release_control nor settle_control of another attempt touches it.       *)
THEOREM ReceiptsHold == WindowSpec => ReceiptHolds
<1>1. WindowInv /\ [WindowNext]_windowVars =>
          [\A k \in Keys :
              window[k].receipt # None /\ window'[k].receipt # window[k].receipt
                  => now + Drift - window[k].claimed >= Window]_windowVars
  BY ReceiptStep, WindowAssumption, Zenon
<1> QED
  BY <1>1, WindowInvariant, PTL DEF WindowSpec, ReceiptHolds
=============================================================================
