---------------------------- MODULE CommitWindow ----------------------------
(* What write leases promise, without clocks, leases or consensus: a       *)
(* mutation commits inside a window, a window opens under the authority's  *)
(* current epoch, and the epoch does not move while one is open.           *)
EXTENDS Naturals

CONSTANTS Authorities, Writes

VARIABLES
    epoch,  \* per authority, its committed epoch, 0 without a home
    open    \* the commit windows

vars == <<epoch, open>>

Window(w, a, e) == [write |-> w, authority |-> a, epoch |-> e]

Init ==
    /\ epoch = [a \in Authorities |-> 0]
    /\ open = {}

Open(w, a) ==
    /\ \A o \in open : o.write # w
    /\ open' = open \cup {Window(w, a, epoch[a])}
    /\ UNCHANGED epoch

(* Transactions end, or run past the time they were given. *)
Close ==
    /\ open' \subseteq open
    /\ UNCHANGED epoch

(* The authority is assigned, transferred, advanced or forgotten. *)
Move(a) ==
    /\ \A o \in open : o.authority # a
    /\ epoch'[a] \in Nat
    /\ epoch' = [epoch EXCEPT ![a] = epoch'[a]]
    /\ UNCHANGED open

Next ==
    \/ \E w \in Writes, a \in Authorities : Open(w, a)
    \/ Close
    \/ \E a \in Authorities : Move(a)

Spec == Init /\ [][Next]_vars
=============================================================================
