--------------------------- MODULE IngressIntents ---------------------------
(***************************************************************************)
(* The durable ledgers that make a hosted write retryable: the ingress     *)
(* intents (peryx-storage/src/meta/ingress_intent.rs) and the operation    *)
(* outcomes (meta/operation_outcome.rs, meta/finalize.rs).                 *)
(*                                                                         *)
(* An intent ledger I is one record of its tables:                         *)
(*   records  INGRESS_INTENT: key -> staged intent                         *)
(*   order    INGRESS_INTENT_ORDER: seq -> key, of pending intents         *)
(*   counts   INGRESS_INTENT_COUNT: authority -> records and bytes         *)
(*   seq      INGRESS_INTENT_SEQ: the next admission number                *)
(* Each operator is one write transaction and maps the ledger before it to *)
(* the ledger after it.  Ages are the caller's clock: the operators that   *)
(* expire and prune take a key old enough for it as an input.              *)
(***************************************************************************)
EXTENDS Integers, FiniteSets, Functions, Sequences, TLC

CONSTANTS
    Authorities,    \* what an intent's capacity is accounted to
    max_records,    \* IntentLimits of an authority
    max_bytes,
    MaxRefusals     \* MAX_INTENT_REFUSALS

NoIntents ==
    [records |-> <<>>, order |-> <<>>,
     counts |-> [a \in Authorities |-> [records |-> 0, bytes |-> 0]], seq |-> 0]

Phases == <<"pending", "admitted", "expired">>
Rank(phase) == CHOOSE i \in DOMAIN Phases : Phases[i] = phase

Put(f, x, row) == [y \in DOMAIN f \cup {x} |-> IF y = x THEN row ELSE f[y]]
Drop(f, x) == [y \in DOMAIN f \ {x} |-> f[y]]
Staged(I) == DOMAIN I.records
PhaseOf(I, key) == IF key \in Staged(I) THEN I.records[key].phase ELSE "missing"

(* The usage check comes after the key check, records before bytes. *)
stage_outcome(I, a) ==
    IF a.key \in Staged(I)
    THEN IF I.records[a.key].digest = a.digest /\ I.records[a.key].size = a.size
         THEN "duplicate" ELSE "conflict"
    ELSE IF I.counts[a.authority].records + 1 > max_records THEN "over_record_limit"
    ELSE IF I.counts[a.authority].bytes + a.size > max_bytes THEN "over_byte_limit"
    ELSE "admitted"

stage_intent(I, a) ==
    IF stage_outcome(I, a) # "admitted" THEN I
    ELSE [records |-> Put(I.records, a.key,
                       [phase |-> "pending", authority |-> a.authority, seq |-> I.seq,
                        digest |-> a.digest, size |-> a.size, payload |-> a.payload, refusals |-> 0]),
          order |-> Put(I.order, I.seq, a.key),
          counts |-> [I.counts EXCEPT ![a.authority] =
                        [records |-> @.records + 1, bytes |-> @.bytes + a.size]],
          seq |-> I.seq + 1]

(* Deliberately wrong variant: a settled intent stays in the order index. *)
advance_intent_indexed(I, key, to) ==
    IF key \in Staged(I) /\ Rank(to) > Rank(I.records[key].phase)
    THEN [I EXCEPT !.records[key].phase = to] ELSE I

(* A settled intent leaves the order index in the same transaction. *)
advance_intent(I, key, to) ==
    IF key \in Staged(I) /\ Rank(to) > Rank(I.records[key].phase)
    THEN [I EXCEPT !.records[key].phase = to, !.order = Drop(@, I.records[key].seq)]
    ELSE I

(* Only whether the count has reached MaxRefusals is ever read. *)
refuse_intent(I, key) ==
    IF PhaseOf(I, key) = "pending"
    THEN [I EXCEPT !.records[key].refusals = IF @ < MaxRefusals THEN @ + 1 ELSE @]
    ELSE I

refund_capacity(I, key) ==
    [I.counts EXCEPT ![I.records[key].authority] =
       [records |-> @.records - 1, bytes |-> @.bytes - I.records[key].size]]

release_intent(I, key) ==
    IF PhaseOf(I, key) = "pending"
    THEN [I EXCEPT !.records = Drop(@, key), !.order = Drop(@, I.records[key].seq),
                   !.counts = refund_capacity(I, key)]
    ELSE I

(* Age alone never expires an intent: the ecosystem must have refused it. *)
Expirable(I) ==
    {key \in Staged(I) : PhaseOf(I, key) = "pending" /\ I.records[key].refusals >= MaxRefusals}

(* The row of a stale intent; the transaction of a batch takes one after the other. *)
expire_stale_intents(I, key) == advance_intent(I, key, "expired")

Prunable(I) == {key \in Staged(I) : PhaseOf(I, key) \in {"admitted", "expired"}}

(* One row of a batch again.  A settled intent left the order index when it settled. *)
prune_ingress_intents(I, key) == [I EXCEPT !.records = Drop(@, key), !.counts = refund_capacity(I, key)]

(* collect_pending: the pending keys in admission order. *)
Keys(I, seqs) == LET ordered == CHOOSE s \in Bijection(1..Cardinality(seqs), seqs) :
                                    \A i, j \in DOMAIN s : i < j => s[i] < s[j]
                 IN  [i \in DOMAIN ordered |-> I.order[ordered[i]]]
list_pending_intents(I) ==
    Keys(I, {n \in DOMAIN I.order : I.records[I.order[n]].refusals < MaxRefusals})
list_pending_intents_for(I, authority, after_seq) ==
    Keys(I, {n \in DOMAIN I.order : n > after_seq /\ I.records[I.order[n]].authority = authority})

(***************************************************************************)
(* The order index holds the pending intents and nothing else, each under  *)
(* its own number, and the capacity counters are the sums of the retained  *)
(* records: no settled intent is ever offered again, none that is pending  *)
(* is lost to the sweep, and no capacity leaks or is refunded twice.       *)
(***************************************************************************)
IndexOf(I) == {<<I.records[key].seq, key>> : key \in {k \in Staged(I) : PhaseOf(I, k) = "pending"}}
IntentsConsistent(I) ==
    /\ {<<n, I.order[n]>> : n \in DOMAIN I.order} = IndexOf(I)
    /\ \A a \in Authorities :
         LET held == {key \in Staged(I) : I.records[key].authority = a}
             size == [key \in Staged(I) |-> I.records[key].size]
         IN  I.counts[a] = [records |-> Cardinality(held), bytes |-> SumFunctionOnSet(size, held)]

----------------------------------------------------------------------------
(***************************************************************************)
(* Operation outcomes O: operation -> "none", "pending", "published" or    *)
(* "failed".  The retained response is left out.                           *)
(***************************************************************************)
is_terminal(state) == state \in {"published", "failed"}

claim_operation(O, op) == IF O[op] = "none" THEN [O EXCEPT ![op] = "pending"] ELSE O

(* NotAdmitted and AlreadyFinal leave the record as it stands. *)
finalize_operation(O, op, result) ==
    IF O[op] = "pending" THEN [O EXCEPT ![op] = result] ELSE O

=============================================================================
