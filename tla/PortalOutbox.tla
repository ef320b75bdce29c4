---------------------------- MODULE PortalOutbox ----------------------------
(***************************************************************************)
(* The outbox between the CRM and the customer portal: IntegrationEvent    *)
(* rows written with the business change they report, the worker that      *)
(* delivers them one at a time (src/services/portalWorker.ts), and the     *)
(* portal's callbacks (src/services/integration.service.ts).  The portal   *)
(* itself is outside src/: it may lose a request, a response or both, and  *)
(* recognises an event it already has by its idempotency key.              *)
(*                                                                         *)
(* Events are kept in the order of created_at.  A handler is split at each *)
(* database call and at the HTTP call; a crash or a database error stops   *)
(* it between any two of them.                                             *)
(*                                                                         *)
(* Abstracted: payloads, audit rows, error messages, the waiting between   *)
(* polls, and the KYC and instalment events, which are delivered as the    *)
(* payment events are and touch no row of their own ("STATUS").            *)
(***************************************************************************)
EXTENDS Naturals, Sequences, FiniteSets

CONSTANTS
    BookingIds,  \* bookings that may be confirmed
    PaymentIds,  \* payments that may be verified and refunded
    Workers,     \* delivery loops running (one per server process)
    Callers,     \* handoff callbacks that may be in flight at once
    MaxRetries,  \* IntegrationEvent.max_retries
    MaxEvents,   \* bound: length of the outbox
    MaxFaults,   \* bound: crashes and database errors
    None

ASSUME OutboxAssumption ==
    /\ MaxRetries \in Nat \ {0}
    /\ MaxEvents \in Nat
    /\ MaxFaults \in Nat
    /\ None \notin BookingIds

VARIABLES
    events,    \* IntegrationEvent rows, oldest first
    mapping,   \* BookingPortalMapping.handoff_status, "NONE" without a row
    sync,      \* Payment.sync_status
    notified,  \* notified[b]: PORTAL_ACTIVATED notifications written for b
    complaints,\* events whose delivery the portal reported as failed (audit rows)
    received,  \* the events the portal has taken in
    unreadable,\* the events an answer came to that could not be read
    worker,    \* what each delivery loop is doing
    caller,    \* the booking a handoff callback is about to activate
    faults

vars == <<events, mapping, sync, notified, complaints, received, unreadable, worker, caller, faults>>

-----------------------------------------------------------------------------
EventStatus   == {"CREATED", "PROCESSING", "COMPLETED", "FAILED"}
HandoffStatus == {"NONE", "CREATED", "WAITING_ACTIVATION", "ACTIVE", "FAILED"}
SyncStatus    == {"LOCAL", "PENDING_SYNC", "SYNCED"}

Event == [kind : {"HANDOFF", "PAYMENT", "STATUS"}, of : BookingIds \cup PaymentIds \cup {None},
          status : EventStatus, tries : Nat]

\* A worker has found the event and read its retry count, claimed it, had an
\* answer, or has the mapping left to update.
Stage == {"IDLE", "FOUND", "CLAIMED", "DELIVERED", "RETRY", "REFUSED", "MAP_WAITING", "MAP_FAILED"}

Job    == [st : Stage, e : 0 .. MaxEvents, attempt : Nat]
Resting == [st |-> "IDLE", e |-> 0, attempt |-> 0]

TypeOK ==
    /\ events \in Seq(Event) /\ Len(events) <= MaxEvents
    /\ mapping \in [BookingIds -> HandoffStatus]
    /\ sync \in [PaymentIds -> SyncStatus]
    /\ notified \in [BookingIds -> Nat]
    /\ complaints \subseteq DOMAIN events
    /\ received \subseteq DOMAIN events
    /\ unreadable \subseteq DOMAIN events
    /\ worker \in [Workers -> Job]
    /\ caller \in [Callers -> BookingIds \cup {None}]
    /\ faults \in 0 .. MaxFaults

Init ==
    /\ events = <<>>
    /\ mapping = [b \in BookingIds |-> "NONE"]
    /\ sync = [x \in PaymentIds |-> "LOCAL"]
    /\ notified = [b \in BookingIds |-> 0]
    /\ complaints = {}
    /\ received = {}
    /\ unreadable = {}
    /\ worker = [w \in Workers |-> Resting]
    /\ caller = [c \in Callers |-> None]
    /\ faults = 0

-----------------------------------------------------------------------------
(* The business transactions that write events.                             *)

Emit(kind, of) ==
    /\ Len(events) < MaxEvents
    /\ events' = Append(events, [kind |-> kind, of |-> of, status |-> "CREATED", tries |-> 0])
    /\ UNCHANGED <<notified, complaints, received, unreadable, worker, caller, faults>>

\* confirmBooking: the event and the mapping, once per booking.
EmitHandoff(b) ==
    /\ mapping[b] = "NONE"
    /\ Emit("HANDOFF", b)
    /\ mapping' = [mapping EXCEPT ![b] = "CREATED"]
    /\ UNCHANGED sync

\* verifyPayment, to SUCCESS and later to REFUNDED.
EmitPayment(x) ==
    /\ Emit("PAYMENT", x)
    /\ sync' = [sync EXCEPT ![x] = "PENDING_SYNC"]
    /\ UNCHANGED mapping

\* writeCustomerKyc, and an instalment's new status.
EmitStatus ==
    /\ Emit("STATUS", None)
    /\ UNCHANGED <<mapping, sync>>

-----------------------------------------------------------------------------
(* The worker.  Operators named X_Y are mutants of X.                       *)

SetWorker(w, job) == worker' = [worker EXCEPT ![w] = job]
Goto(w, st)       == worker' = [worker EXCEPT ![w].st = st]
SetStatus(e, s)   == events' = [events EXCEPT ![e].status = s]

Settled(e) == events[e].status \in {"COMPLETED", "FAILED"}

IsOldest_Newest(e) ==
    /\ events[e].status = "CREATED"
    /\ \A d \in DOMAIN events : d > e => events[d].status # "CREATED"

IsOldest(e) ==
    /\ events[e].status = "CREATED"
    /\ \A d \in DOMAIN events : d < e => events[d].status # "CREATED"

\* processNextEvent: findFirst ...
Find(w) ==
    /\ worker[w].st = "IDLE"
    /\ \E e \in DOMAIN events :
         /\ IsOldest(e)
         /\ SetWorker(w, [st |-> "FOUND", e |-> e, attempt |-> events[e].tries + 1])
    /\ UNCHANGED <<events, mapping, sync, notified, complaints, received, unreadable, caller, faults>>

\* ... the claim, which counts only if the event is still CREATED ...
Claimable_Any(e) == events[e].status \in {"CREATED", "PROCESSING"}

Claimable(e) == events[e].status = "CREATED"

Claimed(event) ==
    [kind |-> event.kind, of |-> event.of, status |-> "PROCESSING", tries |-> event.tries + 1]

Claim(w) ==
    /\ worker[w].st = "FOUND"
    /\ LET e == worker[w].e
       IN IF Claimable(e)
          THEN /\ events' = [events EXCEPT ![e] = Claimed(@)]
               /\ Goto(w, "CLAIMED")
          ELSE /\ SetWorker(w, Resting)
               /\ UNCHANGED events
    /\ UNCHANGED <<mapping, sync, notified, complaints, received, unreadable, caller, faults>>

\* ... and the HTTP call: accepted or a duplicate; refused (an error body or 4xx); an
\* answer that says neither, because its body is cut or is no JSON, which counts as a
\* refusal; or no answer to go by (timeout, network, 5xx, 429).  The portal may have the
\* event by then in the last two.
Send(w) ==
    /\ worker[w].st = "CLAIMED"
    /\ LET e == worker[w].e
       IN \/ Goto(w, "DELIVERED") /\ received' = received \cup {e} /\ UNCHANGED unreadable
          \/ Goto(w, "REFUSED") /\ e \notin received /\ UNCHANGED <<received, unreadable>>
          \/ /\ Goto(w, "REFUSED") /\ unreadable' = unreadable \cup {e}
             /\ received' \in {received, received \cup {e}}
          \/ /\ Goto(w, "RETRY") /\ UNCHANGED unreadable
             /\ received' \in {received, received \cup {e}}
    /\ UNCHANGED <<events, mapping, sync, notified, complaints, caller, faults>>

\* handleSuccess and its siblings: the event, then for a handoff the mapping.
CompletedNext_NoMapping(e) == "IDLE"

CompletedNext(e) == IF events[e].kind = "HANDOFF" THEN "MAP_WAITING" ELSE "IDLE"

Complete(w) ==
    /\ worker[w].st = "DELIVERED"
    /\ SetStatus(worker[w].e, "COMPLETED")
    /\ Goto(w, CompletedNext(worker[w].e))
    /\ UNCHANGED <<mapping, sync, notified, complaints, received, unreadable, caller, faults>>

\* handleTerminalFailure and its siblings.
Terminal(w) ==
    /\ SetStatus(worker[w].e, "FAILED")
    /\ Goto(w, IF events[worker[w].e].kind = "HANDOFF" THEN "MAP_FAILED" ELSE "IDLE")

Refuse(w) ==
    /\ worker[w].st = "REFUSED"
    /\ Terminal(w)
    /\ UNCHANGED <<mapping, sync, notified, complaints, received, unreadable, caller, faults>>

Requeued_Processing(e) == events

Requeued(e) == [events EXCEPT ![e].status = "CREATED"]

\* handleRetryableFailure: back to CREATED, for the next poll, or given up.
LastAttempt_OneMore(job) == job.attempt > MaxRetries

LastAttempt(job) == job.attempt >= MaxRetries

RetryOrGiveUp(w) ==
    /\ worker[w].st = "RETRY"
    /\ IF LastAttempt(worker[w])
       THEN Terminal(w)
       ELSE events' = Requeued(worker[w].e) /\ SetWorker(w, Resting)
    /\ UNCHANGED <<mapping, sync, notified, complaints, received, unreadable, caller, faults>>

\* What the mapping becomes, whatever it was.
MappingAfter_EventStatus(st) == IF st = "MAP_WAITING" THEN "COMPLETED" ELSE "FAILED"

MappingAfter(st) == IF st = "MAP_WAITING" THEN "WAITING_ACTIVATION" ELSE "FAILED"

UpdateMapping(w) ==
    /\ worker[w].st \in {"MAP_WAITING", "MAP_FAILED"}
    /\ mapping' = [mapping EXCEPT ![events[worker[w].e].of] = MappingAfter(worker[w].st)]
    /\ Goto(w, "IDLE")
    /\ UNCHANGED <<events, sync, notified, complaints, received, unreadable, caller, faults>>

-----------------------------------------------------------------------------
(* Callbacks.  The portal calls about an event it has received, any number  *)
(* of times and however late.                                               *)

\* processPortalCallback, "completed": the mapping is checked as read ...
ReadMapping(c, e) ==
    /\ caller[c] = None
    /\ e \in received /\ events[e].kind = "HANDOFF"
    /\ mapping[events[e].of] = "WAITING_ACTIVATION"
    /\ caller' = [caller EXCEPT ![c] = events[e].of]
    /\ UNCHANGED <<events, mapping, sync, notified, complaints, received, unreadable, worker, faults>>

\* ... and activated, with its notification, if it is still waiting.
MayActivate_AsRead(b) == TRUE

MayActivate(b) == mapping[b] = "WAITING_ACTIVATION"

Activate(c) ==
    /\ caller[c] # None
    /\ LET b == caller[c]
       IN IF MayActivate(b)
          THEN /\ mapping' = [mapping EXCEPT ![b] = "ACTIVE"]
               /\ notified' = [notified EXCEPT ![b] = @ + 1]
          ELSE UNCHANGED <<mapping, notified>>
    /\ caller' = [caller EXCEPT ![c] = None]
    /\ UNCHANGED <<events, sync, complaints, received, unreadable, worker, faults>>

\* processPaymentCallback, "completed".
PaymentSynced(e) ==
    /\ e \in received /\ events[e].kind = "PAYMENT"
    /\ sync[events[e].of] = "PENDING_SYNC"
    /\ sync' = [sync EXCEPT ![events[e].of] = "SYNCED"]
    /\ UNCHANGED <<events, mapping, notified, complaints, received, unreadable, worker, caller, faults>>

\* Either callback, "failed": only recorded.
CallbackFailed(e) ==
    /\ e \in received /\ events[e].kind \in {"HANDOFF", "PAYMENT"}
    /\ events[e].kind = "HANDOFF" => mapping[events[e].of] = "WAITING_ACTIVATION"
    /\ complaints' = complaints \cup {e}
    /\ UNCHANGED <<events, mapping, sync, notified, received, unreadable, worker, caller, faults>>

-----------------------------------------------------------------------------
(* Faults.                                                                  *)

\* A database error anywhere in the worker: its loop logs it and goes on, and the
\* event stays as it is.
WorkerError(w) ==
    /\ worker[w].st # "IDLE"
    /\ faults < MaxFaults
    /\ faults' = faults + 1
    /\ SetWorker(w, Resting)
    /\ UNCHANGED <<events, mapping, sync, notified, complaints, received, unreadable, caller>>

Crash ==
    /\ faults < MaxFaults
    /\ faults' = faults + 1
    /\ worker' = [w \in Workers |-> Resting]
    /\ caller' = [c \in Callers |-> None]
    /\ UNCHANGED <<events, mapping, sync, notified, complaints, received, unreadable>>

-----------------------------------------------------------------------------
WorkerStep(w) ==
    \/ Find(w) \/ Claim(w) \/ Send(w) \/ Complete(w) \/ Refuse(w)
    \/ RetryOrGiveUp(w) \/ UpdateMapping(w)

Next ==
    \/ \E b \in BookingIds : EmitHandoff(b)
    \/ \E x \in PaymentIds : EmitPayment(x)
    \/ EmitStatus
    \/ \E w \in Workers : WorkerStep(w) \/ WorkerError(w)
    \/ \E c \in Callers : Activate(c) \/ \E e \in DOMAIN events : ReadMapping(c, e)
    \/ \E e \in DOMAIN events : PaymentSynced(e) \/ CallbackFailed(e)
    \/ Crash

Spec == Init /\ [][Next]_vars

\* The loop polls for ever and every call in it returns (requests time out).
FairSpec == Spec /\ \A w \in Workers : WF_vars(WorkerStep(w))

-----------------------------------------------------------------------------
(* What must hold.                                                          *)

Busy(w) == worker[w].st \notin {"IDLE", "FOUND", "MAP_WAITING", "MAP_FAILED"}

\* No event is in the hands of two loops: the claim is conditional.
ClaimedByOne ==
    \A v, w \in Workers : v # w /\ Busy(v) /\ Busy(w) => worker[v].e # worker[w].e

\* A single loop delivers in order: when an event goes out, every older one has
\* been delivered or given up.  (So a refund never overtakes its payment.)
DeliveredInOrder ==
    \A w \in Workers : Busy(w) => \A d \in DOMAIN events : d < worker[w].e => Settled(d)

\* An event goes out at most max_retries times, and one that the portal has taken in is
\* given up only after all of them went unanswered, or on an answer nobody could read.
RetriesBounded ==
    \A e \in DOMAIN events :
        /\ events[e].tries <= MaxRetries
        /\ events[e].status = "FAILED" /\ e \in received \ unreadable =>
             events[e].tries = MaxRetries

\* The customer is told of the activation exactly once, however many callbacks
\* arrive together, and only for a handoff that the portal has and that was
\* recorded as delivered.
ActivatedOnce ==
    \A b \in BookingIds :
        /\ notified[b] = IF mapping[b] = "ACTIVE" THEN 1 ELSE 0
        /\ mapping[b] \in {"WAITING_ACTIVATION", "ACTIVE"} =>
             \E e \in received : /\ events[e].kind = "HANDOFF" /\ events[e].of = b
                                 /\ events[e].status = "COMPLETED"

\* Neither two loops nor two callbacks do one thing twice.
ClaimedAndToldOnce == ClaimedByOne /\ ActivatedOnce

\* One loop delivers each event in its turn and within its retries.
DeliveriesSound == DeliveredInOrder /\ RetriesBounded

\* Without faults every event is delivered or given up ...
EventsSettle ==
    \A e \in 1 .. MaxEvents : (e \in DOMAIN events) ~> (e \in DOMAIN events /\ Settled(e))

\* ... and the outcome of a handoff reaches its mapping, so that the portal's
\* callback is accepted.
OutcomeReachesMapping ==
    \A b \in BookingIds : (mapping[b] = "CREATED") ~> (mapping[b] # "CREATED")

-----------------------------------------------------------------------------
(* What comments in the code state of the same steps.                       *)

\* "The payment's own financial status and sync_status are untouched (worker will
\* retry)": a payment event that the portal reports as failed goes out again.
FailedCallbackRetried ==
    \A e \in 1 .. MaxEvents :
        (e \in complaints /\ events[e].kind = "PAYMENT") ~> (e \in DOMAIN events /\ events[e].status \in {"CREATED", "PROCESSING"})

=============================================================================
