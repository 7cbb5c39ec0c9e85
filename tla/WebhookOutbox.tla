---------------------------- MODULE WebhookOutbox ----------------------------
(***************************************************************************)
(* Webhook deliveries: the outbox a mutation's transaction writes its      *)
(* event to, the queue of deliveries and its index of deadlines            *)
(* (peryx-storage/src/meta/webhook.rs), and the one worker of a process    *)
(* that fans events out, sends what is due and records the results         *)
(* (peryx-events/src/webhook/delivery.rs).                                 *)
(*                                                                         *)
(* A deadline is named by the delivery and the number of attempts recorded *)
(* when it was set; deadlines pass in any order, the first as it is set.   *)
(* A store access may fail, and the process may stop with whatever it had  *)
(* in flight, MaxFaults times in all.                                      *)
(***************************************************************************)
EXTENDS Integers, Sequences, FiniteSets, Functions

CONSTANTS
    Events,         \* mutations that have an event to tell
    TargetsOf,      \* per event, the targets it is told to, in order
    MaxConcurrent,  \* MAX_CONCURRENT_DELIVERIES
    MaxAttempts,    \* MAX_ATTEMPTS
    MaxFaults       \* bound on store accesses that fail and processes that stop

VARIABLES
    mutation,   \* per event, how far its mutation has come
    outbox,     \* WEBHOOK_EVENT: events with the deliveries not fanned out yet
    queue,      \* WEBHOOK_DELIVERY: per queued delivery, the attempts recorded
    due,        \* WEBHOOK_DUE: deadlines
    passed,     \* the deadlines of the index that are not in the future
    permit,     \* the stored wake-up of `notify`
    worker,     \* the delivery loop's position and what it remembers
    faults,     \* store accesses that have failed, and processes that have stopped
    settled,    \* history: deliveries whose terminal attempt was recorded
    sent        \* history: per unsettled delivery, the sends no stopped process forgot

webhookVars == <<mutation, outbox, queue, due, passed, permit, worker, faults, settled, sent>>
store == <<outbox, queue, due>>
history == <<settled, sent>>

(* What the constants are: insert_webhook_event refuses an event without a *)
(* target, WebhookRuntime::new a target named twice.                       *)
Configured ==
    /\ MaxAttempts \in Nat \ {0}
    /\ \A e \in Events : /\ TargetsOf[e] \in Seq(Range(TargetsOf[e])) /\ TargetsOf[e] # <<>>
                         /\ IsInjective(TargetsOf[e])

ASSUME WebhookAssumption == Configured

Delivery(e, t) == [event |-> e, target |-> t]

DeliveriesOf(e) == {Delivery(e, t) : t \in Range(TargetsOf[e])}

Deliveries == UNION {DeliveriesOf(e) : e \in Events}

Deadline(d, attempts) == [delivery |-> d, after |-> attempts]

Queued == DOMAIN queue

(* A delivery as the scan read it, and the PendingUpdate of its attempt. *)
Read(d) == [delivery |-> d, attempts |-> queue[d]]
Update(d, status) == [delivery |-> d, status |-> status]

Named(rs) == {r.delivery : r \in rs}

Targets(ds) == {d.target : d \in ds}

Fresh == [pc |-> "recover", inFlight |-> {}, busy |-> {}, held |-> {},
          retried |-> {}, failed |-> FALSE, scanFailed |-> FALSE, timed |-> FALSE]

WebhookInit ==
    /\ mutation = [e \in Events |-> "new"]
    /\ outbox = <<>>
    /\ queue = <<>>
    /\ due = {}
    /\ passed = {}
    /\ permit = FALSE
    /\ worker = Fresh
    /\ faults = 0
    /\ settled = {}
    /\ sent = [d \in Deliveries |-> 0]

(* The mutation's transaction carries its event: insert_webhook_event. *)
CommitEvent(e) ==
    /\ mutation[e] = "new"
    /\ mutation' = [mutation EXCEPT ![e] = "committed"]
    /\ outbox' = Append(outbox, [event |-> e, rest |-> TargetsOf[e]])
    /\ UNCHANGED <<queue, due, passed, permit, worker, faults, history>>

(* The handler wakes the worker once its mutation is committed. *)
Notify(e) ==
    /\ mutation[e] = "committed"
    /\ mutation' = [mutation EXCEPT ![e] = "answered"]
    /\ permit' = TRUE
    /\ UNCHANGED <<store, passed, worker, faults, history>>

(* The handler leaves before the wake-up: its acknowledgement was refused  *)
(* or its future dropped.                                                  *)
Leave(e) ==
    /\ mutation[e] = "committed"
    /\ mutation' = [mutation EXCEPT ![e] = "answered"]
    /\ UNCHANGED <<store, passed, permit, worker, faults, history>>

(* Something fails and the worker goes on as w. *)
Fault(w) ==
    /\ faults < MaxFaults
    /\ faults' = faults + 1
    /\ worker' = w

At(pc) == worker.pc = pc

Goto(pc) == [worker EXCEPT !.pc = pc]

(* enqueue_next_webhook_event_delivery, on the oldest event of the outbox. *)
FanOut ==
    LET head == Head(outbox)
        d == Delivery(head.event, Head(head.rest))
    IN  /\ outbox' = IF Len(head.rest) = 1
                     THEN Tail(outbox) ELSE [outbox EXCEPT ![1].rest = Tail(head.rest)]
        /\ queue' = [q \in Queued \cup {d} |-> IF q = d THEN 0 ELSE queue[q]]
        /\ due' = due \cup {Deadline(d, 0)}
        /\ passed' = passed \cup {Deadline(d, 0)}

(* recover_webhook_events: one target at a time, each its own transaction, *)
(* then deliver_due takes the updates that are still to be written.        *)
Recover ==
    /\ At("recover")
    /\ \/ /\ outbox # <<>>
          /\ FanOut
          /\ UNCHANGED <<worker, faults>>
       \/ /\ outbox = <<>>
          /\ worker' = [worker EXCEPT !.pc = "retry", !.retried = worker.held, !.held = {}, !.failed = FALSE]
          /\ UNCHANGED <<store, passed, faults>>
       \/ /\ Fault(Goto("backoff"))
          /\ UNCHANGED <<store, passed>>
    /\ UNCHANGED <<mutation, permit, history>>

(* Deliberately wrong variant: the old deadline stays in the index. *)
update_webhook_delivery_undue(u) ==
    LET row == Queued \cap {u.delivery}
        retried == IF u.status = "pending" THEN row ELSE {}
    IN  /\ queue' = [d \in (Queued \ row) \cup retried |-> IF d \in row THEN queue[d] + 1 ELSE queue[d]]
        /\ due' = due \cup {Deadline(d, queue[d] + 1) : d \in retried}
        /\ passed' = passed \cap due'
        /\ settled' = settled \cup (row \ retried)
        /\ sent' = [d \in Deliveries |-> IF d \in row \ retried THEN 0 ELSE sent[d]]

(* The attempt is counted and its deadline replaced; a terminal one drops  *)
(* the row, and one whose row is gone changes nothing.                     *)
update_webhook_delivery(u) ==
    LET row == Queued \cap {u.delivery}
        retried == IF u.status = "pending" THEN row ELSE {}
    IN  /\ queue' = [d \in (Queued \ row) \cup retried |-> IF d \in row THEN queue[d] + 1 ELSE queue[d]]
        /\ due' = (due \ {Deadline(d, queue[d]) : d \in row})
                      \cup {Deadline(d, queue[d] + 1) : d \in retried}
        /\ passed' = passed \cap due'
        /\ settled' = settled \cup (row \ retried)
        /\ sent' = [d \in Deliveries |-> IF d \in row \ retried THEN 0 ELSE sent[d]]

(* retry_pending_updates, one update at a time. *)
retry_pending_updates ==
    /\ At("retry")
    /\ \E u \in worker.retried :
          LET w == [worker EXCEPT !.retried = @ \ {u}]
          IN  \/ /\ update_webhook_delivery(u)
                 /\ worker' = w
                 /\ UNCHANGED faults
              \/ /\ Fault([w EXCEPT !.held = @ \cup {u}, !.failed = TRUE])
                 /\ UNCHANGED <<queue, due, passed, history>>
    /\ UNCHANGED <<mutation, outbox, permit>>

(* Deliberately wrong variant: results still to be written hold no target. *)
BusyAtFirst_none == {}

(* A target whose last result is not written yet is passed over. *)
BusyAtFirst == Targets(Named(worker.held))

StartScan ==
    /\ At("retry")
    /\ worker.retried = {}
    /\ worker' = [worker EXCEPT !.pc = "scan", !.busy = BusyAtFirst, !.scanFailed = FALSE]
    /\ UNCHANGED <<mutation, store, passed, permit, faults, history>>

Ready == {d \in Queued : Deadline(d, queue[d]) \in due \cap passed /\ d.target \notin worker.busy}

(* list_due_webhook_deliveries: one per target that is not busy, as many   *)
(* as may still be started.                                                *)
Scanned(ds) ==
    LET want == MaxConcurrent - Cardinality(worker.inFlight)
        waiting == Cardinality(Targets(Ready))
    IN  /\ Cardinality(ds) = IF want < waiting THEN want ELSE waiting
        /\ Cardinality(Targets(ds)) = Cardinality(ds)

(* The inner loop of deliver_due, which ends when a scan returns nothing   *)
(* or fails.                                                               *)
Scan ==
    /\ At("scan")
    /\ \/ \E ds \in SUBSET Ready :
             /\ Scanned(ds)
             /\ sent' = [d \in Deliveries |-> IF d \in ds THEN sent[d] + 1 ELSE sent[d]]
             /\ worker' = [worker EXCEPT !.pc = IF ds = {} THEN "await" ELSE "scan",
                                         !.inFlight = @ \cup {Read(d) : d \in ds},
                                         !.busy = @ \cup Targets(ds)]
             /\ UNCHANGED faults
       \/ /\ Fault([worker EXCEPT !.pc = "await", !.failed = TRUE, !.scanFailed = TRUE])
          /\ UNCHANGED sent
    /\ UNCHANGED <<mutation, store, passed, permit, settled>>

(* Deliberately wrong variant: one attempt too many. *)
record_failure_late(r, retriable) ==
    IF retriable /\ r.attempts + 1 <= MaxAttempts THEN "pending" ELSE "failed"

(* What a failed attempt makes of the delivery as it was read. *)
record_failure(r, retriable) ==
    IF retriable /\ r.attempts + 1 < MaxAttempts THEN "pending" ELSE "failed"

(* A success; a timeout, transport error, 5xx, 408 or 429, which may be    *)
(* retried; any other status, a redirect or an unconfigured target.        *)
Outcomes(r) == {"delivered", record_failure(r, TRUE), record_failure(r, FALSE)}

(* deliver_one ends and its result is written, or held if the store fails. *)
Finish ==
    /\ At("await")
    /\ \E r \in worker.inFlight : \E status \in Outcomes(r) :
          LET u == Update(r.delivery, status)
              w == [worker EXCEPT !.pc = IF worker.scanFailed THEN "await" ELSE "scan", !.inFlight = @ \ {r}]
          IN  \/ /\ update_webhook_delivery(u)
                 /\ worker' = [w EXCEPT !.busy = @ \ {r.delivery.target}]
                 /\ UNCHANGED faults
              \/ /\ Fault([w EXCEPT !.held = @ \cup {u}, !.failed = TRUE])
                 /\ UNCHANGED <<queue, due, passed, history>>
    /\ UNCHANGED <<mutation, outbox, permit>>

(* deliver_due returns, with the first failure if there was one. *)
EndDelivery ==
    /\ At("await")
    /\ worker.inFlight = {}
    /\ worker' = [Fresh EXCEPT !.pc = IF worker.failed THEN "backoff" ELSE "next", !.held = worker.held]
    /\ UNCHANGED <<mutation, store, passed, permit, faults, history>>

(* Deliberately wrong variant: a wake-up stored before the wait is dropped. *)
EnterWait_clearing ==
    /\ At("next")
    /\ \/ /\ worker' = [worker EXCEPT !.pc = "wait", !.timed = due # {}]
          /\ UNCHANGED faults
       \/ Fault(Goto("backoff"))
    /\ permit' = FALSE
    /\ UNCHANGED <<mutation, store, passed, history>>

(* wait_for_work reads whether there is a deadline to sleep to. *)
EnterWait ==
    /\ At("next")
    /\ \/ /\ worker' = [worker EXCEPT !.pc = "wait", !.timed = due # {}]
          /\ UNCHANGED faults
       \/ Fault(Goto("backoff"))
    /\ UNCHANGED <<mutation, store, passed, permit, history>>

(* The wait and the back-off end by the stored wake-up, or by the sleep    *)
(* that a deadline or the back-off sets; a sleep may end before its        *)
(* deadline (wait_secs).                                                   *)
Wake ==
    /\ \/ /\ At("wait") \/ At("backoff")
          /\ permit
          /\ permit' = FALSE
       \/ /\ (At("wait") /\ worker.timed) \/ At("backoff")
          /\ UNCHANGED permit
    /\ worker' = [Fresh EXCEPT !.held = worker.held]
    /\ UNCHANGED <<mutation, store, passed, faults, history>>

(* A deadline passes. *)
Pass ==
    /\ \E x \in due \ passed : passed' = passed \cup {x}
    /\ UNCHANGED <<mutation, store, permit, worker, faults, history>>

(* The process stops at any point, and the next one starts its worker. *)
RestartProcess ==
    /\ Fault(Fresh)
    /\ permit' = FALSE
    /\ mutation' = [e \in Events |-> IF mutation[e] = "committed" THEN "answered" ELSE mutation[e]]
    /\ sent' = [d \in Deliveries |->
                   IF d \in Named(worker.inFlight \cup worker.held \cup worker.retried)
                   THEN sent[d] - 1 ELSE sent[d]]
    /\ UNCHANGED <<store, passed, settled>>

Work == Recover \/ retry_pending_updates \/ StartScan \/ Scan \/ Finish \/ EndDelivery \/ EnterWait \/ Wake

WebhookNext ==
    \/ \E e \in Events : CommitEvent(e) \/ Notify(e) \/ Leave(e)
    \/ Work
    \/ Pass
    \/ RestartProcess

WebhookSpec == WebhookInit /\ [][WebhookNext]_webhookVars

(* The runtime polls the worker's task, a request ends by its time-out and *)
(* a sleep by its own, and time passes.                                    *)
WebhookFairSpec == WebhookSpec /\ WF_webhookVars(Work) /\ WF_webhookVars(Pass)

-----------------------------------------------------------------------------

(* Deliveries named in the outbox. *)
Outboxed == UNION {{Delivery(x.event, t) : t \in Range(x.rest)} : x \in Range(outbox)}

(* Every delivery of a committed event is in exactly one place: still in   *)
(* the outbox, queued, or settled; and each queued one has exactly its own *)
(* deadline in the index, so no crash, retry or failed write loses one,    *)
(* revives one or leaves it unscheduled (enqueue_next_webhook_event_       *)
(* delivery, update_webhook_delivery).                                     *)
QueueIsExact ==
    /\ Outboxed \cup Queued \cup settled = UNION {DeliveriesOf(e) : e \in {x \in Events : mutation[x] # "new"}}
    /\ Outboxed \cap Queued = {} /\ (Outboxed \cup Queued) \cap settled = {}
    /\ due = {Deadline(d, queue[d]) : d \in Queued}

(* A target has one delivery at a time: none is sent to it while another   *)
(* is in flight or while the result of one could not be written yet, so a  *)
(* process never repeats a request whose answer it has (deliver_due, busy  *)
(* and pending_updates).                                                   *)
TargetsInTurn ==
    LET active == Named(worker.inFlight) \cup Named(worker.held \cup worker.retried)
    IN  /\ Cardinality(Targets(active)) = Cardinality(active)
        /\ Named(worker.inFlight) \cap Named(worker.held \cup worker.retried) = {}

(* A delivery is sent MAX_ATTEMPTS times at most, not counting a send that *)
(* its process stopped too early to record: a result the store refused     *)
(* counts as well, once (record_failure, retry_pending_updates).           *)
AttemptsBounded == \A d \in Deliveries : sent[d] <= MaxAttempts

(* A wake-up that follows a commit, the mutation's own or a later one's,   *)
(* ends in every delivery of the event being settled, whatever failed or   *)
(* restarted in between: none is lost between the worker's last look at    *)
(* the outbox and its wait (notify, wait_for_work).                        *)
DeliveriesSettle ==
    \A e \in Events : (mutation[e] # "new" /\ permit) ~> DeliveriesOf(e) \subseteq settled

=============================================================================
