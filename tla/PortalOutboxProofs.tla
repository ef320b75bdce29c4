------------------------- MODULE PortalOutboxProofs -------------------------
(***************************************************************************)
(* Theorems about PortalOutbox, for any bookings, payments, delivery loops *)
(* and callbacks, any number of retries and any number of faults: every    *)
(* row has its type, no event is delivered by two loops at once, and the   *)
(* activation of a handoff is announced exactly once.                      *)
(***************************************************************************)
EXTENDS PortalOutbox, TLAPS

-----------------------------------------------------------------------------
(* The inductive invariant.                                                 *)

Handoff(e) == events[e].kind = "HANDOFF"
Waiting(e) == mapping[events[e].of] = "CREATED"

\* A handoff event belongs to one booking, and the booking's mapping waits for the
\* event's outcome until there is one.
HandoffsSound ==
    /\ \A e \in DOMAIN events : Handoff(e) =>
          /\ events[e].of \in BookingIds
          /\ mapping[events[e].of] # "NONE"
          /\ Settled(e) \/ Waiting(e)
    /\ \A d, e \in DOMAIN events :
          Handoff(d) /\ Handoff(e) /\ events[d].of = events[e].of => d = e

Holds(w) == worker[w].st \notin {"IDLE", "FOUND"}

\* What a loop knows of the event it holds.
JobSound(j) ==
    /\ j.st # "IDLE" => j.e \in DOMAIN events
    /\ j.st \in {"CLAIMED", "DELIVERED", "RETRY", "REFUSED"} => events[j.e].status = "PROCESSING"
    /\ j.st \in {"DELIVERED", "MAP_WAITING"} => j.e \in received
    /\ j.st \in {"MAP_WAITING", "MAP_FAILED"} => Handoff(j.e) /\ Waiting(j.e)
    /\ j.st = "MAP_WAITING" => events[j.e].status = "COMPLETED"
    /\ j.st = "MAP_FAILED" => events[j.e].status = "FAILED"

JobsSound == \A w \in Workers : JobSound(worker[w])

\* Until its outcome is recorded, an event is in the hands of one loop.
HeldByOne == \A v, w \in Workers : v # w /\ Holds(v) /\ Holds(w) => worker[v].e # worker[w].e

IInv == TypeOK /\ HandoffsSound /\ JobsSound /\ HeldByOne

-----------------------------------------------------------------------------
(* What the steps do to the events.                                         *)

LEMMA EmitAppends ==
  ASSUME TypeOK, NEW kind \in {"HANDOFF", "PAYMENT", "STATUS"},
         NEW of \in BookingIds \cup PaymentIds \cup {None}, Emit(kind, of)
  PROVE  /\ events' \in Seq(Event) /\ Len(events') <= MaxEvents
         /\ DOMAIN events' = DOMAIN events \cup {Len(events) + 1}
         /\ Len(events) + 1 \notin DOMAIN events
         /\ \A e \in DOMAIN events : events'[e] = events[e]
         /\ events'[Len(events) + 1] =
              [kind |-> kind, of |-> of, status |-> "CREATED", tries |-> 0]
<1> DEFINE new == [kind |-> kind, of |-> of, status |-> "CREATED", tries |-> 0]
<1>1. new \in Event
  BY DEF Event, EventStatus
<1>2. events \in Seq(Event) /\ events' = Append(events, new) /\ Len(events) < MaxEvents
  BY DEF Emit, TypeOK
<1> HIDE DEF new
<1>3. /\ events' \in Seq(Event) /\ Len(events') = Len(events) + 1
      /\ \A e \in 1 .. Len(events) : events'[e] = events[e]
      /\ events'[Len(events) + 1] = new
  BY <1>1, <1>2
<1>4. Len(events) \in Nat /\ DOMAIN events = 1 .. Len(events) /\ DOMAIN events' = 1 .. Len(events')
  BY <1>2, <1>3
<1> QED
  BY <1>2, <1>3, <1>4, OutboxAssumption DEF new

\* A loop changes the status of the event it works on, and counts a claim.
Written(e, s) ==
    /\ events' \in Seq(Event) /\ Len(events') = Len(events) /\ DOMAIN events' = DOMAIN events
    /\ \A d \in DOMAIN events : d # e => events'[d] = events[d]
    /\ events'[e].kind = events[e].kind /\ events'[e].of = events[e].of
    /\ events'[e].status = s

LEMMA StatusWritten ==
  ASSUME TypeOK, NEW e \in DOMAIN events, NEW s \in EventStatus,
         events' = [events EXCEPT ![e].status = s]
  PROVE  Written(e, s)
<1>1. events \in Seq(Event) /\ events[e] \in Event
  BY DEF TypeOK
<1>2. [events[e] EXCEPT !.status = s] \in Event
  BY <1>1 DEF Event
<1>3. events' = [events EXCEPT ![e] = [events[e] EXCEPT !.status = s]]
  OBVIOUS
<1>4. /\ events' \in Seq(Event) /\ Len(events') = Len(events) /\ DOMAIN events' = DOMAIN events
      /\ \A d \in DOMAIN events : d # e => events'[d] = events[d]
  BY <1>1, <1>2, <1>3
<1>5. events'[e] = [events[e] EXCEPT !.status = s]
  BY <1>1, <1>3
<1>6. /\ events'[e].kind = events[e].kind /\ events'[e].of = events[e].of
      /\ events'[e].status = s
  BY <1>1, <1>5 DEF Event
<1> QED
  BY <1>4, <1>6 DEF Written

LEMMA ClaimWritten ==
  ASSUME TypeOK, NEW e \in DOMAIN events,
         events' = [events EXCEPT ![e] = Claimed(@)]
  PROVE  Written(e, "PROCESSING")
<1>1. events \in Seq(Event) /\ events[e] \in Event
  BY DEF TypeOK
<1>2. Claimed(events[e]) \in Event
  BY <1>1 DEF Event, EventStatus, Claimed
<1> QED
  BY <1>1, <1>2 DEF Written, Claimed

LEMMA HandoffsKept ==
  ASSUME TypeOK, HandoffsSound, NEW e \in DOMAIN events, NEW s \in EventStatus,
         ~Settled(e), Written(e, s), UNCHANGED mapping
  PROVE  HandoffsSound'
<1>1. \A d \in DOMAIN events : /\ events'[d].kind = events[d].kind
                              /\ events'[d].of = events[d].of
  BY DEF Written
<1>2. \A d \in DOMAIN events : Handoff(d) /\ ~Settled(d)' => Waiting(d)
  BY DEF Written, HandoffsSound, Settled
<1> QED
  BY <1>1, <1>2 DEF Written, HandoffsSound, Handoff, Waiting, Settled

-----------------------------------------------------------------------------
(* What a loop's step leaves to the others.                                 *)

\* The event a loop writes is held by no other loop.
Mine(w) ==
    /\ worker[w].st # "IDLE"
    /\ Holds(w) \/ events[worker[w].e].status = "CREATED"

LEMMA OnlyMine ==
  ASSUME IInv, NEW w \in Workers, Mine(w), NEW v \in Workers, v # w, Holds(v)
  PROVE  worker[v].e # worker[w].e
<1>1. worker[v].st \in Stage
  BY DEF IInv, TypeOK, Job
<1>2. events[worker[v].e].status # "CREATED"
  BY <1>1 DEF IInv, JobsSound, JobSound, Holds, Stage
<1> QED
  BY <1>2 DEF IInv, Mine, HeldByOne

LEMMA OthersKept ==
  ASSUME IInv, NEW w \in Workers, NEW s \in EventStatus,
         \/ UNCHANGED events
         \/ Mine(w) /\ Written(worker[w].e, s),
         UNCHANGED mapping, received \subseteq received',
         NEW v \in Workers, v # w, worker'[v] = worker[v]
  PROVE  JobSound(worker[v])'
<1> DEFINE j == worker[v]
<1>1. JobSound(j) /\ j.st \in Stage
  BY DEF IInv, JobsSound, TypeOK, Job
<1>2. CASE UNCHANGED events
  BY <1>1, <1>2 DEF JobSound, Handoff, Waiting
<1>3. CASE Mine(w) /\ Written(worker[w].e, s)
  <2>1. CASE Holds(v)
    <3>1. j.e # worker[w].e
      BY <1>3, <2>1, OnlyMine
    <3>2. j.e \in DOMAIN events /\ DOMAIN events' = DOMAIN events
      BY <1>1, <1>3, <2>1 DEF JobSound, Holds, Written
    <3>3. events'[j.e] = events[j.e]
      BY <1>3, <3>1, <3>2 DEF Written
    <3> QED
      BY <1>1, <3>2, <3>3 DEF JobSound, Handoff, Waiting
  <2>2. CASE ~Holds(v)
    BY <1>1, <1>3, <2>2 DEF JobSound, Holds, Written
  <2> QED
    BY <2>1, <2>2
<1> QED
  BY <1>2, <1>3

\* So a step is sound if the loop's own new job is.
LEMMA JobMoves ==
  ASSUME IInv, NEW w \in Workers, NEW j, worker' = [worker EXCEPT ![w] = j], JobSound(j)',
         j.st \in {"IDLE", "FOUND"} \/ (Mine(w) /\ j.e = worker[w].e),
         \A v \in Workers : v # w => JobSound(worker[v])'
  PROVE  JobsSound' /\ HeldByOne'
<1>1. worker'[w] = j /\ \A v \in Workers : v # w => worker'[v] = worker[v]
  BY DEF IInv, TypeOK
<1>2. JobsSound'
  BY <1>1 DEF JobsSound, JobSound
<1>3. \A u, v \in Workers : u # v /\ u # w /\ v # w /\ Holds(u)' /\ Holds(v)' =>
        worker'[u].e # worker'[v].e
  BY <1>1 DEF IInv, HeldByOne, Holds
<1>4. \A v \in Workers : v # w /\ Holds(w)' /\ Holds(v)' => worker'[v].e # worker'[w].e
  BY <1>1, OnlyMine DEF Holds
<1> QED
  BY <1>2, <1>3, <1>4 DEF HeldByOne

\* What a loop does to the rows and to its own job, in any step but the update of
\* the mapping.
Moved(w, j, s) ==
    /\ worker' = [worker EXCEPT ![w] = j] /\ j \in Job /\ JobSound(j)'
    /\ j.st \in {"IDLE", "FOUND"} \/ (Mine(w) /\ j.e = worker[w].e)
    /\ received \subseteq received' /\ received' \subseteq DOMAIN events
    /\ unreadable' \subseteq DOMAIN events
    /\ \/ UNCHANGED events
       \/ Mine(w) /\ ~Settled(worker[w].e) /\ Written(worker[w].e, s)
    /\ UNCHANGED <<mapping, sync, notified, complaints, caller>>

LEMMA Goes ==
  ASSUME TypeOK, NEW w \in Workers, NEW st \in Stage, Goto(w, st)
  PROVE  \E j \in Job : /\ worker' = [worker EXCEPT ![w] = j]
                        /\ j.st = st /\ j.e = worker[w].e
<1>1. worker[w] \in Job
  BY DEF TypeOK
<1> DEFINE j == [worker[w] EXCEPT !.st = st]
<1>2. j \in Job /\ j.st = st /\ j.e = worker[w].e
  BY <1>1 DEF Job
<1>3. worker' = [worker EXCEPT ![w] = j]
  BY DEF Goto
<1> HIDE DEF j
<1> QED
  BY <1>2, <1>3

LEMMA LoopStep ==
  ASSUME IInv, NEW w \in Workers,
         \/ Find(w) \/ Claim(w) \/ Send(w) \/ Complete(w) \/ Refuse(w) \/ RetryOrGiveUp(w)
         \/ WorkerError(w)
  PROVE  \E j \in Job, s \in EventStatus : Moved(w, j, s)
<1> DEFINE e == worker[w].e
<1> USE DEF IInv
<1>0. /\ worker[w] \in Job /\ JobSound(worker[w])
      /\ received \subseteq DOMAIN events /\ "CREATED" \in EventStatus
      /\ unreadable \subseteq DOMAIN events
  BY DEF TypeOK, JobsSound, EventStatus
<1>1. Resting \in Job /\ Resting.st = "IDLE" /\ JobSound(Resting)'
  BY OutboxAssumption DEF Resting, Job, JobSound, Stage
<1>2. CASE Find(w)
  <2>1. PICK d \in DOMAIN events :
           SetWorker(w, [st |-> "FOUND", e |-> d, attempt |-> events[d].tries + 1])
    BY <1>2 DEF Find
  <2>2. d \in 0 .. MaxEvents /\ events[d] \in Event
    BY OutboxAssumption DEF TypeOK
  <2>3. PICK j \in Job : worker' = [worker EXCEPT ![w] = j] /\ j.st = "FOUND" /\ j.e = d
    <3> DEFINE r == [st |-> "FOUND", e |-> d, attempt |-> events[d].tries + 1]
    <3>1. r \in Job /\ r.st = "FOUND" /\ r.e = d
      BY <2>2 DEF Job, Stage, Event
    <3>2. worker' = [worker EXCEPT ![w] = r]
      BY <2>1 DEF SetWorker
    <3> HIDE DEF r
    <3> QED
      BY <3>1, <3>2
  <2>4. JobSound(j)'
    BY <1>2, <2>3 DEF Find, JobSound
  <2> QED
    BY <1>0, <1>2, <2>3, <2>4 DEF Find, Moved
<1>3. CASE Claim(w)
  <2>1. CASE Claimable(e)
    <3>1. Goto(w, "CLAIMED") /\ events' = [events EXCEPT ![e] = Claimed(@)]
      BY <1>3, <2>1 DEF Claim
    <3>2. PICK j \in Job : worker' = [worker EXCEPT ![w] = j] /\ j.st = "CLAIMED" /\ j.e = e
      BY <3>1, Goes DEF Stage
    <3>3. e \in DOMAIN events /\ Mine(w) /\ ~Settled(e)
      BY <1>0, <1>3, <2>1 DEF Claim, JobSound, Mine, Claimable, Settled
    <3>4. Written(e, "PROCESSING")
      BY <3>1, <3>3, ClaimWritten
    <3>5. JobSound(j)'
      BY <3>2, <3>3, <3>4 DEF JobSound, Written
    <3> QED
      BY <1>0, <1>3, <3>2, <3>3, <3>4, <3>5 DEF Claim, Moved, EventStatus
  <2>2. CASE ~Claimable(e)
    BY <1>0, <1>1, <1>3, <2>2 DEF Claim, Moved, SetWorker
  <2> QED
    BY <2>1, <2>2
<1>4. CASE Send(w)
  <2>1. /\ worker[w].st = "CLAIMED" /\ e \in DOMAIN events
        /\ Mine(w) /\ events[e].status = "PROCESSING"
    BY <1>0, <1>4 DEF Send, JobSound, Mine, Holds
  <2>2. PICK st \in {"DELIVERED", "REFUSED", "RETRY"} :
          /\ Goto(w, st) /\ received' \in {received, received \cup {e}}
          /\ st = "DELIVERED" => e \in received'
          /\ unreadable' \in {unreadable, unreadable \cup {e}}
    BY <1>4 DEF Send
  <2>3. PICK j \in Job : worker' = [worker EXCEPT ![w] = j] /\ j.st = st /\ j.e = e
    BY <2>2, Goes DEF Stage
  <2>4. JobSound(j)'
    BY <1>4, <2>1, <2>2, <2>3 DEF JobSound, Send
  <2> QED
    BY <1>0, <1>4, <2>1, <2>2, <2>3, <2>4 DEF Send, Moved
<1>5. ASSUME NEW s \in {"COMPLETED", "FAILED"}, SetStatus(e, s),
             Goto(w, IF Handoff(e) THEN IF s = "COMPLETED" THEN "MAP_WAITING" ELSE "MAP_FAILED"
                     ELSE "IDLE"),
             worker[w].st \in {"DELIVERED", "RETRY", "REFUSED"},
             s = "COMPLETED" => worker[w].st = "DELIVERED",
             UNCHANGED <<mapping, sync, notified, complaints, received, unreadable, caller>>
      PROVE  \E j \in Job, t \in EventStatus : Moved(w, j, t)
  <2>1. /\ e \in DOMAIN events /\ Mine(w) /\ ~Settled(e)
        /\ s = "COMPLETED" => e \in received
    BY <1>0, <1>5 DEF JobSound, Mine, Holds, Settled
  <2>2. Written(e, s)
    BY <1>5, <2>1, StatusWritten DEF SetStatus, EventStatus
  <2>3. PICK st \in Stage : /\ Goto(w, st)
                            /\ st = IF Handoff(e)
                                    THEN IF s = "COMPLETED" THEN "MAP_WAITING" ELSE "MAP_FAILED"
                                    ELSE "IDLE"
    BY <1>5 DEF Stage
  <2>4. PICK j \in Job : worker' = [worker EXCEPT ![w] = j] /\ j.st = st /\ j.e = e
    BY <2>3, Goes
  <2>5. Handoff(e) => Waiting(e)
    BY <2>1 DEF HandoffsSound
  <2>6. JobSound(j)'
    BY <1>5, <2>1, <2>2, <2>3, <2>4, <2>5 DEF JobSound, Written, Handoff, Waiting
  <2> QED
    BY <1>0, <1>5, <2>1, <2>2, <2>4, <2>6 DEF Moved, EventStatus
<1>6. CASE Complete(w)
  BY <1>5, <1>6 DEF Complete, CompletedNext, Handoff
<1>7. CASE Refuse(w)
  BY <1>5, <1>7 DEF Refuse, Terminal, Handoff
<1>8. CASE RetryOrGiveUp(w)
  <2>1. CASE LastAttempt(worker[w])
    BY <1>5, <1>8, <2>1 DEF RetryOrGiveUp, Terminal, Handoff
  <2>2. CASE ~LastAttempt(worker[w])
    <3>1. /\ e \in DOMAIN events /\ Mine(w) /\ ~Settled(e)
      BY <1>0, <1>8 DEF RetryOrGiveUp, JobSound, Mine, Holds, Settled
    <3>2. Written(e, "CREATED")
      BY <1>0, <1>8, <2>2, <3>1, StatusWritten DEF RetryOrGiveUp, Requeued
    <3> QED
      BY <1>0, <1>1, <1>8, <2>2, <3>1, <3>2 DEF RetryOrGiveUp, SetWorker, Moved
  <2> QED
    BY <2>1, <2>2
<1>9. CASE WorkerError(w)
  BY <1>0, <1>1, <1>9 DEF WorkerError, SetWorker, Moved
<1> QED
  BY <1>2, <1>3, <1>4, <1>6, <1>7, <1>8, <1>9

-----------------------------------------------------------------------------
(* The invariant is kept by every step.                                     *)

Kept == TypeOK' /\ HandoffsSound' /\ JobsSound' /\ HeldByOne'

LEMMA MovesKept ==
  ASSUME IInv, NEW w \in Workers, NEW j \in Job, NEW s \in EventStatus, Moved(w, j, s),
         faults' \in 0 .. MaxFaults
  PROVE  Kept
<1> USE DEF IInv
<1>1. TypeOK'
  BY DEF Moved, Written, TypeOK
<1>2. HandoffsSound'
  <2>1. CASE UNCHANGED events
    BY <2>1 DEF Moved, HandoffsSound, Handoff, Waiting, Settled
  <2>2. CASE Mine(w) /\ ~Settled(worker[w].e) /\ Written(worker[w].e, s)
    <3>1. worker[w].e \in DOMAIN events
      BY <2>2 DEF Mine, JobsSound, JobSound
    <3> QED
      BY <2>2, <3>1, HandoffsKept DEF Moved
  <2> QED
    BY <2>1, <2>2 DEF Moved
<1>3. \A v \in Workers : v # w => worker'[v] = worker[v]
  BY DEF Moved, TypeOK
<1>4. \A v \in Workers : v # w => JobSound(worker[v])'
  BY <1>3, OthersKept DEF Moved
<1>5. JobsSound' /\ HeldByOne'
  BY <1>4, JobMoves DEF Moved
<1> QED
  BY <1>1, <1>2, <1>5 DEF Kept

LEMMA MappingKept ==
  ASSUME IInv, NEW w \in Workers, UpdateMapping(w)
  PROVE  Kept
<1> USE DEF IInv
<1> DEFINE e == worker[w].e
<1>1. /\ worker[w].st \in {"MAP_WAITING", "MAP_FAILED"} /\ e \in DOMAIN events
      /\ Handoff(e) /\ Settled(e) /\ events[e].of \in BookingIds
  BY DEF UpdateMapping, JobsSound, JobSound, HandoffsSound, Settled
<1>2. PICK m \in HandoffStatus \ {"NONE"} : mapping' = [mapping EXCEPT ![events[e].of] = m]
  <2>1. MappingAfter(worker[w].st) \in HandoffStatus \ {"NONE"}
    BY DEF MappingAfter, HandoffStatus
  <2> QED
    BY <2>1 DEF UpdateMapping
<1>3. \A b \in BookingIds : mapping'[b] = IF b = events[e].of THEN m ELSE mapping[b]
  BY <1>1, <1>2 DEF TypeOK
<1>4. UNCHANGED <<events, sync, notified, complaints, received, unreadable, caller, faults>>
  BY DEF UpdateMapping
<1>5. PICK j \in Job : worker' = [worker EXCEPT ![w] = j] /\ j.st = "IDLE" /\ j.e = e
  BY Goes DEF UpdateMapping, Stage
<1>6. TypeOK'
  BY <1>2, <1>4, <1>5 DEF TypeOK
<1>7. HandoffsSound'
  <2>1. \A d \in DOMAIN events : Handoff(d) =>
           /\ events[d].of \in BookingIds /\ mapping'[events[d].of] # "NONE"
           /\ d # e => (Settled(d) \/ mapping'[events[d].of] = "CREATED")
    BY <1>1, <1>2, <1>3 DEF HandoffsSound, Waiting
  <2> QED
    BY <1>1, <1>4, <2>1 DEF HandoffsSound, Handoff, Waiting, Settled
<1>8. ASSUME NEW v \in Workers, v # w
      PROVE  JobSound(worker[v])'
  <2>1. worker'[v] = worker[v] /\ JobSound(worker[v])
    BY <1>5, <1>8 DEF TypeOK, JobsSound
  <2>2. CASE worker[v].st \in {"MAP_WAITING", "MAP_FAILED"}
    <3>1. worker[v].e # e /\ worker[v].e \in DOMAIN events /\ Handoff(worker[v].e)
      BY <1>1, <1>8, <2>1, <2>2 DEF HeldByOne, Holds, JobSound
    <3>2. events[worker[v].e].of # events[e].of /\ events[worker[v].e].of \in BookingIds
      BY <1>1, <3>1 DEF HandoffsSound
    <3>3. mapping'[events[worker[v].e].of] = "CREATED"
      BY <1>3, <2>1, <2>2, <3>2 DEF JobSound, Waiting
    <3> QED
      BY <1>4, <2>1, <2>2, <3>1, <3>3 DEF JobSound, Handoff, Waiting
  <2>3. CASE worker[v].st \notin {"MAP_WAITING", "MAP_FAILED"}
    BY <1>4, <2>1, <2>3 DEF JobSound
  <2> QED
    BY <2>2, <2>3
<1>9. JobSound(j)'
  BY <1>5 DEF JobSound
<1>10. JobsSound' /\ HeldByOne'
  BY <1>5, <1>8, <1>9, JobMoves
<1> QED
  BY <1>6, <1>7, <1>10 DEF Kept

\* An event is appended, and the mapping of its booking made with it.
LEMMA EmitKept ==
  ASSUME IInv, NEW kind \in {"HANDOFF", "PAYMENT", "STATUS"},
         NEW of \in BookingIds \cup PaymentIds \cup {None}, Emit(kind, of),
         sync' \in [PaymentIds -> SyncStatus],
         \/ kind # "HANDOFF" /\ UNCHANGED mapping
         \/ /\ kind = "HANDOFF" /\ of \in BookingIds /\ mapping[of] = "NONE"
            /\ mapping' = [mapping EXCEPT ![of] = "CREATED"]
  PROVE  Kept
<1> USE DEF IInv
<1> DEFINE n == Len(events) + 1
<1>1. /\ events' \in Seq(Event) /\ Len(events') <= MaxEvents
      /\ DOMAIN events' = DOMAIN events \cup {n} /\ n \notin DOMAIN events
      /\ \A e \in DOMAIN events : events'[e] = events[e]
      /\ events'[n].kind = kind /\ events'[n].of = of /\ events'[n].status = "CREATED"
  <2>1. TypeOK
    OBVIOUS
  <2>2. /\ events' \in Seq(Event) /\ Len(events') <= MaxEvents
        /\ DOMAIN events' = DOMAIN events \cup {Len(events) + 1}
        /\ Len(events) + 1 \notin DOMAIN events
        /\ \A e \in DOMAIN events : events'[e] = events[e]
        /\ events'[Len(events) + 1] =
             [kind |-> kind, of |-> of, status |-> "CREATED", tries |-> 0]
    BY <2>1, EmitAppends
  <2> QED
    BY <2>2
<1>2. UNCHANGED <<notified, complaints, received, unreadable, worker, caller, faults>>
  BY DEF Emit
<1>3. TypeOK'
  BY <1>1, <1>2 DEF TypeOK, HandoffStatus
<1> HIDE DEF n
<1>4. \A e \in DOMAIN events : Handoff(e) => mapping'[events[e].of] = mapping[events[e].of]
  BY DEF HandoffsSound, TypeOK
<1>5. kind = "HANDOFF" => /\ of \in BookingIds /\ mapping'[of] = "CREATED"
                          /\ \A e \in DOMAIN events : Handoff(e) => events[e].of # of
  BY DEF HandoffsSound, TypeOK
<1>6. HandoffsSound'
  BY <1>1, <1>4, <1>5 DEF HandoffsSound, Handoff, Waiting, Settled
<1>7. JobsSound'
  <2>1. ASSUME NEW j, JobSound(j)
        PROVE  JobSound(j)'
    BY <1>1, <1>2, <1>4, <2>1 DEF JobSound, Handoff, Waiting
  <2> QED
    BY <1>2, <2>1 DEF JobsSound, JobSound
<1>8. HeldByOne'
  BY <1>2 DEF HeldByOne, Holds
<1> QED
  BY <1>3, <1>6, <1>7, <1>8 DEF Kept

\* A callback changes a mapping that waits for it, or no row these facts are about.
LEMMA CallbackKept ==
  ASSUME IInv,
         \/ \E c \in Callers : Activate(c) \/ \E e \in DOMAIN events : ReadMapping(c, e)
         \/ \E e \in DOMAIN events : PaymentSynced(e) \/ CallbackFailed(e)
  PROVE  Kept
<1> USE DEF IInv
<1>1. UNCHANGED <<events, received, worker, faults>>
  BY DEF Activate, ReadMapping, PaymentSynced, CallbackFailed
<1>2. \A b \in BookingIds : mapping'[b] # mapping[b] =>
        mapping[b] = "WAITING_ACTIVATION" /\ mapping'[b] = "ACTIVE"
  BY DEF Activate, MayActivate, ReadMapping, PaymentSynced, CallbackFailed, TypeOK
<1>3. TypeOK'
  <2>1. ASSUME NEW c \in Callers, Activate(c)
        PROVE  TypeOK'
    <3>1. /\ mapping' \in [BookingIds -> HandoffStatus] /\ notified' \in [BookingIds -> Nat]
          /\ caller' \in [Callers -> BookingIds \cup {None}]
      <4>1. caller[c] \in BookingIds
        BY <2>1 DEF Activate, TypeOK
      <4>2. CASE MayActivate(caller[c])
        <5>1. /\ mapping' = [mapping EXCEPT ![caller[c]] = "ACTIVE"]
              /\ notified' = [notified EXCEPT ![caller[c]] = notified[caller[c]] + 1]
              /\ caller' = [caller EXCEPT ![c] = None]
          BY <2>1, <4>2 DEF Activate
        <5>2. notified[caller[c]] + 1 \in Nat
          BY <4>1 DEF TypeOK
        <5> QED
          BY <5>1, <5>2 DEF TypeOK, HandoffStatus
      <4>3. CASE ~MayActivate(caller[c])
        BY <2>1, <4>3 DEF Activate, TypeOK
      <4> QED
        BY <4>2, <4>3
    <3> QED
      BY <2>1, <3>1 DEF Activate, TypeOK
  <2>2. ASSUME NEW c \in Callers, NEW e \in DOMAIN events, ReadMapping(c, e)
        PROVE  TypeOK'
    BY <2>2 DEF ReadMapping, TypeOK, HandoffsSound, Handoff
  <2>3. ASSUME NEW e \in DOMAIN events, PaymentSynced(e)
        PROVE  TypeOK'
    BY <2>3 DEF PaymentSynced, TypeOK, SyncStatus
  <2>4. ASSUME NEW e \in DOMAIN events, CallbackFailed(e)
        PROVE  TypeOK'
    BY <2>4 DEF CallbackFailed, TypeOK
  <2> QED
    BY <2>1, <2>2, <2>3, <2>4
<1>4. HandoffsSound'
  BY <1>1, <1>2 DEF HandoffsSound, Handoff, Waiting, Settled
<1>5. JobsSound'
  <2>1. ASSUME NEW j, JobSound(j)
        PROVE  JobSound(j)'
    BY <1>1, <1>2, <2>1 DEF JobSound, Handoff, Waiting, HandoffsSound
  <2> QED
    BY <1>1, <2>1 DEF JobsSound, JobSound
<1>6. HeldByOne'
  BY <1>1 DEF HeldByOne, Holds
<1> QED
  BY <1>3, <1>4, <1>5, <1>6 DEF Kept

LEMMA StepKept ==
  ASSUME IInv, [Next]_vars
  PROVE  Kept
<1>1. CASE UNCHANGED vars
  BY <1>1 DEF vars, Kept, IInv, TypeOK, HandoffsSound, Handoff, Waiting, Settled, JobsSound,
     JobSound, HeldByOne, Holds
<1>2. ASSUME NEW b \in BookingIds, EmitHandoff(b)
      PROVE  Kept
  BY <1>2, EmitKept DEF EmitHandoff, IInv, TypeOK
<1>3. ASSUME NEW x \in PaymentIds, EmitPayment(x)
      PROVE  Kept
  <2>1. sync' \in [PaymentIds -> SyncStatus]
    BY <1>3 DEF EmitPayment, IInv, TypeOK, SyncStatus
  <2> QED
    BY <1>3, <2>1, EmitKept DEF EmitPayment
<1>4. CASE EmitStatus
  BY <1>4, EmitKept DEF EmitStatus, IInv, TypeOK
<1>5. ASSUME NEW w \in Workers, WorkerStep(w) \/ WorkerError(w)
      PROVE  Kept
  <2>1. CASE UpdateMapping(w)
    BY <2>1, MappingKept
  <2>2. CASE ~UpdateMapping(w)
    <3>1. PICK j \in Job, s \in EventStatus : Moved(w, j, s)
      BY <1>5, <2>2, LoopStep DEF WorkerStep
    <3>2. faults' \in 0 .. MaxFaults
      BY <1>5, <2>2, OutboxAssumption DEF WorkerStep, IInv, TypeOK, Find, Claim, Send, Complete,
         Refuse, RetryOrGiveUp, WorkerError
    <3> QED
      BY <3>1, <3>2, MovesKept
  <2> QED
    BY <2>1, <2>2
<1>6. CASE Crash
  <2>1. /\ worker' = [w \in Workers |-> Resting] /\ caller' = [c \in Callers |-> None]
        /\ UNCHANGED <<events, mapping, sync, notified, complaints, received, unreadable>>
        /\ faults' \in 0 .. MaxFaults
    BY <1>6, OutboxAssumption DEF Crash, IInv, TypeOK
  <2>2. Resting \in Job
    BY OutboxAssumption DEF Resting, Job, Stage
  <2>3. TypeOK'
    BY <2>1, <2>2 DEF IInv, TypeOK
  <2>4. HandoffsSound'
    BY <2>1 DEF IInv, HandoffsSound, Handoff, Waiting, Settled
  <2>5. JobsSound' /\ HeldByOne'
    BY <2>1 DEF JobsSound, JobSound, HeldByOne, Holds, Resting
  <2> QED
    BY <2>3, <2>4, <2>5 DEF Kept
<1> QED
  BY <1>1, <1>2, <1>3, <1>4, <1>5, <1>6, CallbackKept DEF Next

LEMMA InitKept == Init => IInv
<1> SUFFICES ASSUME Init PROVE IInv
  OBVIOUS
<1>1. TypeOK
  <2>1. Resting \in Job
    BY OutboxAssumption DEF Resting, Job, Stage
  <2>2. events \in Seq(Event) /\ Len(events) <= MaxEvents
    BY OutboxAssumption DEF Init
  <2> QED
    BY <2>1, <2>2, OutboxAssumption DEF Init, TypeOK, HandoffStatus, SyncStatus
<1>2. DOMAIN events = {}
  BY DEF Init
<1> QED
  BY <1>1, <1>2 DEF Init, IInv, HandoffsSound, JobsSound, JobSound, HeldByOne, Holds, Resting

LEMMA AlwaysSound == Spec => []IInv
<1>1. IInv /\ [Next]_vars => IInv'
  BY StepKept DEF Kept, IInv
<1> QED
  BY <1>1, InitKept, PTL DEF Spec

\* Every row, job and callback has its type in every reachable state.
THEOREM TypeCorrect == Spec => []TypeOK
<1>1. IInv => TypeOK
  BY DEF IInv
<1> QED
  BY <1>1, AlwaysSound, PTL

\* However many delivery loops run, and whatever faults stop them, no event is in the
\* hands of two.
THEOREM ClaimsCorrect == Spec => []ClaimedByOne
<1>1. IInv => ClaimedByOne
  BY DEF IInv, HeldByOne, ClaimedByOne, Holds, Busy
<1> QED
  BY <1>1, AlwaysSound, PTL

-----------------------------------------------------------------------------
(* One announcement per activation.                                         *)

Delivered(b) == \E e \in received : /\ events[e].kind = "HANDOFF" /\ events[e].of = b
                                    /\ events[e].status = "COMPLETED"

\* A delivered handoff stays delivered.
LEMMA DeliveredStays ==
  ASSUME IInv, [Next]_vars, NEW b \in BookingIds, Delivered(b)
  PROVE  Delivered(b)'
<1>1. PICK e \in received : /\ events[e].kind = "HANDOFF" /\ events[e].of = b
                            /\ events[e].status = "COMPLETED"
  BY DEF Delivered
<1>2. e \in DOMAIN events
  BY DEF IInv, TypeOK
<1>3. e \in received' /\ events'[e] = events[e]
  <2>1. ASSUME NEW w \in Workers, WorkerStep(w) \/ WorkerError(w), ~UpdateMapping(w)
        PROVE  e \in received' /\ events'[e] = events[e]
    <3>1. PICK j \in Job, s \in EventStatus : Moved(w, j, s)
      BY <2>1, LoopStep DEF WorkerStep
    <3> QED
      BY <1>1, <1>2, <3>1 DEF Moved, Written, Settled
  <2>2. ASSUME NEW x \in BookingIds \cup PaymentIds \cup {None},
               NEW kind \in {"HANDOFF", "PAYMENT", "STATUS"}, Emit(kind, x)
        PROVE  e \in received' /\ events'[e] = events[e]
    BY <1>2, <2>2, EmitAppends DEF Emit, IInv
  <2> QED
    BY <2>1, <2>2 DEF Next, vars, UpdateMapping, EmitHandoff, EmitPayment, EmitStatus,
       Activate, ReadMapping, PaymentSynced, CallbackFailed, Crash
<1> QED
  BY <1>1, <1>3 DEF Delivered

\* The mapping of a booking and its announcements change together, or the mapping
\* changes to what is not announced yet.
LEMMA MappingSteps ==
  ASSUME IInv, [Next]_vars, NEW b \in BookingIds
  PROVE  \/ mapping'[b] = mapping[b] /\ notified'[b] = notified[b]
         \/ /\ mapping[b] = "WAITING_ACTIVATION" /\ mapping'[b] = "ACTIVE"
            /\ notified'[b] = notified[b] + 1
         \/ /\ mapping[b] \in {"NONE", "CREATED"} /\ mapping'[b] \in {"CREATED", "FAILED"}
            /\ notified'[b] = notified[b]
         \/ /\ mapping[b] = "CREATED" /\ mapping'[b] = "WAITING_ACTIVATION"
            /\ notified'[b] = notified[b] /\ Delivered(b)
<1> DEFINE Goal ==
         \/ mapping'[b] = mapping[b] /\ notified'[b] = notified[b]
         \/ /\ mapping[b] = "WAITING_ACTIVATION" /\ mapping'[b] = "ACTIVE"
            /\ notified'[b] = notified[b] + 1
         \/ /\ mapping[b] \in {"NONE", "CREATED"} /\ mapping'[b] \in {"CREATED", "FAILED"}
            /\ notified'[b] = notified[b]
         \/ /\ mapping[b] = "CREATED" /\ mapping'[b] = "WAITING_ACTIVATION"
            /\ notified'[b] = notified[b] /\ Delivered(b)
<1>1. ASSUME NEW w \in Workers, UpdateMapping(w)
      PROVE  Goal
  <2> DEFINE e == worker[w].e
  <2>1. /\ e \in DOMAIN events /\ Handoff(e) /\ Waiting(e)
        /\ worker[w].st = "MAP_WAITING" => e \in received /\ events[e].status = "COMPLETED"
    BY <1>1 DEF UpdateMapping, IInv, JobsSound, JobSound
  <2>2. mapping' = [mapping EXCEPT ![events[e].of] = MappingAfter(worker[w].st)]
        /\ UNCHANGED notified
    BY <1>1 DEF UpdateMapping
  <2>3. CASE events[e].of = b
    <3>1. mapping[b] = "CREATED" /\ mapping'[b] = MappingAfter(worker[w].st)
      BY <2>1, <2>2, <2>3 DEF Waiting, IInv, TypeOK
    <3>2. worker[w].st = "MAP_WAITING" => Delivered(b)
      BY <2>1, <2>3 DEF Delivered, Handoff
    <3> QED
      BY <2>2, <3>1, <3>2 DEF MappingAfter
  <2>4. CASE events[e].of # b
    BY <2>2, <2>4 DEF IInv, TypeOK
  <2> QED
    BY <2>3, <2>4
<1>2. ASSUME NEW w \in Workers, WorkerStep(w) \/ WorkerError(w), ~UpdateMapping(w)
      PROVE  Goal
  BY <1>2, LoopStep DEF WorkerStep, Moved
<1>3. ASSUME NEW c \in Callers, Activate(c)
      PROVE  Goal
  BY <1>3 DEF Activate, MayActivate, IInv, TypeOK
<1>4. ASSUME NEW x \in BookingIds, EmitHandoff(x)
      PROVE  Goal
  BY <1>4 DEF EmitHandoff, Emit, IInv, TypeOK
<1> HIDE DEF Goal
<1>5. mapping' = mapping /\ notified' = notified => Goal
  BY DEF Goal
<1>6. Goal
  BY <1>1, <1>2, <1>3, <1>4, <1>5 DEF Next, vars, EmitPayment, EmitStatus, Emit,
     ReadMapping, PaymentSynced, CallbackFailed, Crash
<1> QED
  BY <1>6 DEF Goal

LEMMA ActivationStep ==
  ASSUME IInv, ActivatedOnce, [Next]_vars
  PROVE  ActivatedOnce'
<1>1. \A b \in BookingIds :
        /\ notified[b] = IF mapping[b] = "ACTIVE" THEN 1 ELSE 0
        /\ mapping[b] \in {"WAITING_ACTIVATION", "ACTIVE"} => Delivered(b)
  BY DEF ActivatedOnce, Delivered
<1>2. ASSUME NEW b \in BookingIds
      PROVE  /\ notified'[b] = IF mapping'[b] = "ACTIVE" THEN 1 ELSE 0
             /\ mapping'[b] \in {"WAITING_ACTIVATION", "ACTIVE"} => Delivered(b)'
  BY <1>1, MappingSteps, DeliveredStays
<1> QED
  BY <1>2 DEF ActivatedOnce, Delivered

\* However many callbacks arrive together, and however late, a customer is told of the
\* activation exactly once, and only of a handoff recorded as delivered.
THEOREM ActivationCorrect == Spec => []ActivatedOnce
<1>1. Init => ActivatedOnce
  BY DEF Init, ActivatedOnce
<1> QED
  BY <1>1, ActivationStep, AlwaysSound, PTL DEF Spec

\* Neither two loops deliver one event at once nor two callbacks announce one activation.
THEOREM OnceCorrect == Spec => []ClaimedAndToldOnce
  BY ClaimsCorrect, ActivationCorrect, PTL DEF ClaimedAndToldOnce
-----------------------------------------------------------------------------
(* One loop without faults: deliveries in turn and within their retries.    *)

\* The deployment the delivery order is stated for: a single server process whose
\* loop is not stopped between two of its calls.
OneLoop == MaxFaults = 0 /\ \A v, w \in Workers : v = w

Delivering == {"CLAIMED", "DELIVERED", "RETRY", "REFUSED"}

\* The event the loop works on is the next in turn, and the attempt it counts is the
\* one the row counts.
InTurn(j) ==
    /\ j.st = "FOUND" => /\ events[j.e].status = "CREATED"
                         /\ j.attempt = events[j.e].tries + 1
    /\ j.st \in Delivering => j.attempt = events[j.e].tries
    /\ j.st \in Delivering \cup {"FOUND"} => \A d \in DOMAIN events : d < j.e => Settled(d)
    /\ j.st = "REFUSED" => j.e \notin received \ unreadable

\* Nothing is left half delivered.
NoneAbandoned ==
    \A e \in DOMAIN events : events[e].status = "PROCESSING" =>
        \E w \in Workers : worker[w].st \in Delivering /\ worker[w].e = e

TriesLeft(e) ==
    /\ events[e].tries <= MaxRetries
    /\ events[e].status = "CREATED" => events[e].tries < MaxRetries
    /\ events[e].status = "FAILED" /\ e \in received \ unreadable => events[e].tries = MaxRetries

LoopInv ==
    /\ \A w \in Workers : InTurn(worker[w])
    /\ NoneAbandoned
    /\ \A e \in DOMAIN events : TriesLeft(e)

\* The loop rewrites the row of the event it holds.
Rewritten(e, s, n) ==
    /\ DOMAIN events' = DOMAIN events
    /\ \A d \in DOMAIN events : d # e => events'[d] = events[d]
    /\ events'[e].status = s /\ events'[e].tries = n

\* A step of the loop keeps the invariant if its own event and job are right: no
\* other loop holds anything.
LEMMA LoopMoves ==
  ASSUME IInv, OneLoop, LoopInv, NEW w \in Workers, NEW j, worker' = [worker EXCEPT ![w] = j],
         InTurn(j)',
         \A e \in DOMAIN events' : TriesLeft(e)',
         \A e \in DOMAIN events' : events'[e].status = "PROCESSING" =>
            j.st \in Delivering /\ j.e = e
  PROVE  LoopInv'
<1>1. \A v \in Workers : worker'[v] = j
  BY DEF OneLoop, IInv, TypeOK
<1>2. \A v \in Workers : InTurn(worker[v])'
  BY <1>1 DEF InTurn
<1>3. NoneAbandoned'
  BY <1>1 DEF NoneAbandoned
<1> QED
  BY <1>2, <1>3 DEF LoopInv

LEMMA LoopRewrites ==
  ASSUME IInv, OneLoop, LoopInv, NEW w \in Workers, worker[w].st \in Delivering \cup {"FOUND"},
         NEW s \in EventStatus, NEW n \in Nat, Rewritten(worker[w].e, s, n),
         NEW j, worker' = [worker EXCEPT ![w] = j],
         UNCHANGED <<received, unreadable>>,
         n <= MaxRetries,
         s = "CREATED" => n < MaxRetries,
         s = "FAILED" /\ worker[w].e \in received \ unreadable => n = MaxRetries,
         IF s = "PROCESSING"
         THEN j.st = "CLAIMED" /\ j.e = worker[w].e /\ j.attempt = n
         ELSE j.st \in {"IDLE", "MAP_WAITING", "MAP_FAILED"}
  PROVE  LoopInv'
<1>1. PICK e : e = worker[w].e
  OBVIOUS
<1>2. e \in DOMAIN events /\ \A d \in DOMAIN events : d < e => Settled(d)
  BY <1>1 DEF LoopInv, InTurn, IInv, JobsSound, JobSound, Delivering
<1>3. \A d \in DOMAIN events : events[d].status = "PROCESSING" => d = e
  BY <1>1 DEF LoopInv, NoneAbandoned, OneLoop
<1>4. ASSUME NEW d \in DOMAIN events'
      PROVE  TriesLeft(d)'
  BY <1>1, <1>2, <1>4 DEF Rewritten, LoopInv, TriesLeft
<1>5. \A d \in DOMAIN events' : events'[d].status = "PROCESSING" =>
         j.st \in Delivering /\ j.e = d
  BY <1>1, <1>2, <1>3 DEF Rewritten, Delivering
<1>6. InTurn(j)'
  <2>1. CASE s = "PROCESSING"
    <3>1. \A d \in DOMAIN events : d < e => d # e
      BY <1>2 DEF IInv, TypeOK
    <3>2. \A d \in DOMAIN events' : d < j.e => Settled(d)'
      BY <1>1, <1>2, <2>1, <3>1 DEF Rewritten, Settled
    <3> QED
      BY <1>1, <2>1, <3>2 DEF InTurn, Rewritten, Delivering
  <2>2. CASE s # "PROCESSING"
    BY <2>2 DEF InTurn, Delivering
  <2> QED
    BY <2>1, <2>2
<1> QED
  BY <1>4, <1>5, <1>6, LoopMoves

\* A step of the loop that writes no event.
LEMMA LoopAdvances ==
  ASSUME IInv, OneLoop, LoopInv, NEW w \in Workers,
         NEW j, worker' = [worker EXCEPT ![w] = j], UNCHANGED events,
         received' \in {received, received \cup {worker[w].e}},
         received' = received \/ worker[w].st = "CLAIMED",
         unreadable \subseteq unreadable',
         InTurn(j)',
         \A e \in DOMAIN events : events[e].status = "PROCESSING" =>
            j.st \in Delivering /\ j.e = e
  PROVE  LoopInv'
<1>1. worker[w].st = "CLAIMED" => events[worker[w].e].status = "PROCESSING"
  BY DEF IInv, JobsSound, JobSound
<1>2. ASSUME NEW e \in DOMAIN events'
      PROVE  TriesLeft(e)'
  BY <1>1, <1>2 DEF LoopInv, TriesLeft
<1> QED
  BY <1>2, LoopMoves
LEMMA StatusRewritten ==
  ASSUME TypeOK, NEW e \in DOMAIN events, NEW s \in EventStatus,
         events' = [events EXCEPT ![e].status = s]
  PROVE  Rewritten(e, s, events[e].tries)
<1>1. events \in Seq(Event) /\ events[e] \in Event
  BY DEF TypeOK
<1>2. events' = [events EXCEPT ![e] = [events[e] EXCEPT !.status = s]]
  OBVIOUS
<1> QED
  BY <1>1, <1>2 DEF Rewritten, Event

LEMMA ClaimRewritten ==
  ASSUME TypeOK, NEW e \in DOMAIN events,
         events' = [events EXCEPT ![e] = Claimed(@)]
  PROVE  Rewritten(e, "PROCESSING", events[e].tries + 1)
<1>1. events \in Seq(Event) /\ events[e] \in Event
  BY DEF TypeOK
<1> QED
  BY <1>1 DEF Rewritten, Claimed

LEMMA LoopInvStep ==
  ASSUME IInv, OneLoop, LoopInv, NEW w \in Workers, WorkerStep(w)
  PROVE  LoopInv'
<1> DEFINE e == worker[w].e
<1>0. /\ TypeOK /\ worker[w] \in Job /\ JobSound(worker[w]) /\ InTurn(worker[w])
      /\ \A d \in DOMAIN events : events[d] \in Event /\ TriesLeft(d)
      /\ MaxRetries \in Nat \ {0}
  BY OutboxAssumption DEF IInv, TypeOK, JobsSound, LoopInv
<1>1. \A d \in DOMAIN events : events[d].status = "PROCESSING" =>
         worker[w].st \in Delivering /\ d = e
  BY DEF LoopInv, NoneAbandoned, OneLoop
<1>2. ASSUME NEW st \in Stage, Goto(w, st)
      PROVE  \E j : /\ worker' = [worker EXCEPT ![w] = j]
                    /\ j.st = st /\ j.e = e /\ j.attempt = worker[w].attempt
  <2> DEFINE j == [worker[w] EXCEPT !.st = st]
  <2>1. j.st = st /\ j.e = e /\ j.attempt = worker[w].attempt
    BY <1>0 DEF Job
  <2>2. worker' = [worker EXCEPT ![w] = j]
    BY <1>2 DEF Goto
  <2> HIDE DEF j
  <2> QED
    BY <2>1, <2>2
<1>3. Resting.st = "IDLE"
  BY DEF Resting
<1>4. CASE Find(w)
  <2>1. PICK d \in DOMAIN events :
           /\ IsOldest(d)
           /\ SetWorker(w, [st |-> "FOUND", e |-> d, attempt |-> events[d].tries + 1])
    BY <1>4 DEF Find
  <2>2. PICK j : j = [st |-> "FOUND", e |-> d, attempt |-> events[d].tries + 1]
    OBVIOUS
  <2>3. UNCHANGED <<events, received, unreadable>> /\ worker' = [worker EXCEPT ![w] = j]
    BY <1>4, <2>1, <2>2 DEF Find, SetWorker
  <2>4. \A c \in DOMAIN events : events[c].status # "PROCESSING"
    BY <1>1, <1>4 DEF Find, Delivering
  <2>5. \A c \in DOMAIN events : c < d => Settled(c)
    BY <1>0, <2>1, <2>4 DEF IsOldest, Settled, Event, EventStatus
  <2>6. InTurn(j)'
    BY <2>1, <2>2, <2>3, <2>5 DEF InTurn, IsOldest, Settled, Delivering
  <2> QED
    BY <2>3, <2>4, <2>6, LoopAdvances
<1>5. CASE Claim(w)
  <2>1. e \in DOMAIN events /\ Claimable(e)
    BY <1>0, <1>5 DEF Claim, JobSound, InTurn, Claimable
  <2>2. Goto(w, "CLAIMED") /\ events' = [events EXCEPT ![e] = Claimed(@)] /\ UNCHANGED <<received, unreadable>>
    BY <1>5, <2>1 DEF Claim
  <2>3. PICK j : /\ worker' = [worker EXCEPT ![w] = j]
                 /\ j.st = "CLAIMED" /\ j.e = e /\ j.attempt = worker[w].attempt
    BY <1>2, <2>2 DEF Stage
  <2>4. Rewritten(e, "PROCESSING", events[e].tries + 1)
    BY <1>0, <2>1, <2>2, ClaimRewritten
  <2>5. /\ j.attempt = events[e].tries + 1
        /\ events[e].tries + 1 \in Nat /\ events[e].tries + 1 <= MaxRetries
    BY <1>0, <1>5, <2>1, <2>3 DEF Claim, InTurn, TriesLeft, Claimable, Event
  <2>6. worker[w].st = "FOUND" /\ "PROCESSING" \in EventStatus
    BY <1>5 DEF Claim, EventStatus
  <2> QED
    BY <2>2, <2>3, <2>4, <2>5, <2>6, LoopRewrites
<1>6. CASE Send(w)
  <2>1. PICK st \in {"DELIVERED", "REFUSED", "RETRY"} :
          /\ Goto(w, st) /\ received' \in {received, received \cup {e}}
          /\ st = "REFUSED" => e \notin received' \ unreadable'
          /\ unreadable \subseteq unreadable'
    BY <1>6 DEF Send
  <2>2. PICK j : /\ worker' = [worker EXCEPT ![w] = j]
                 /\ j.st = st /\ j.e = e /\ j.attempt = worker[w].attempt
    BY <1>2, <2>1 DEF Stage
  <2>3. UNCHANGED events /\ worker[w].st = "CLAIMED"
    BY <1>6 DEF Send
  <2>4. InTurn(j)'
    BY <1>0, <2>1, <2>2, <2>3 DEF InTurn, Settled, Delivering
  <2>5. j.st \in Delivering
    BY <2>2 DEF Delivering
  <2> QED
    BY <1>1, <2>1, <2>2, <2>3, <2>4, <2>5, LoopAdvances
<1>7. ASSUME NEW s \in {"COMPLETED", "FAILED"}, SetStatus(e, s),
             NEW st \in {"IDLE", "MAP_WAITING", "MAP_FAILED"}, Goto(w, st),
             worker[w].st \in {"DELIVERED", "RETRY", "REFUSED"},
             s = "FAILED" /\ e \in received \ unreadable => events[e].tries = MaxRetries,
             UNCHANGED <<received, unreadable>>
      PROVE  LoopInv'
  <2>1. e \in DOMAIN events
    BY <1>0, <1>7 DEF JobSound
  <2>2. Rewritten(e, s, events[e].tries)
    BY <1>0, <1>7, <2>1, StatusRewritten DEF SetStatus, EventStatus
  <2>3. PICK j : worker' = [worker EXCEPT ![w] = j] /\ j.st = st
    BY <1>2, <1>7 DEF Stage
  <2>4. events[e].tries \in Nat /\ events[e].tries <= MaxRetries /\ s \in EventStatus
    BY <1>0, <2>1 DEF TriesLeft, Event, EventStatus
  <2>5. worker[w].st \in Delivering
    BY <1>7 DEF Delivering
  <2> QED
    BY <1>7, <2>2, <2>3, <2>4, <2>5, LoopRewrites
<1>8. CASE Complete(w)
  BY <1>7, <1>8 DEF Complete, CompletedNext
<1>9. CASE Refuse(w)
  <2>1. e \notin received \ unreadable /\ SetStatus(e, "FAILED") /\ UNCHANGED <<received, unreadable>>
    BY <1>0, <1>9 DEF Refuse, Terminal, InTurn
  <2> QED
    BY <1>7, <1>9, <2>1 DEF Refuse, Terminal
<1>10. CASE RetryOrGiveUp(w)
  <2>0. e \in DOMAIN events /\ worker[w].attempt = events[e].tries /\ events[e].tries \in Nat
    BY <1>0, <1>10 DEF RetryOrGiveUp, JobSound, InTurn, Delivering, Event
  <2>1. CASE LastAttempt(worker[w])
    <3>1. events[e].tries = MaxRetries
      BY <1>0, <2>0, <2>1 DEF LastAttempt, TriesLeft
    <3> QED
      BY <1>7, <1>10, <2>1, <3>1 DEF RetryOrGiveUp, Terminal
  <2>2. CASE ~LastAttempt(worker[w])
    <3>1. /\ events' = [events EXCEPT ![e].status = "CREATED"]
          /\ worker' = [worker EXCEPT ![w] = Resting]
          /\ UNCHANGED <<received, unreadable>>
      BY <1>10, <2>2 DEF RetryOrGiveUp, Requeued, SetWorker
    <3>2. Rewritten(e, "CREATED", events[e].tries)
      BY <1>0, <2>0, <3>1, StatusRewritten DEF EventStatus
    <3>3. events[e].tries < MaxRetries /\ events[e].tries <= MaxRetries
      BY <1>0, <2>0, <2>2 DEF LastAttempt
    <3>4. worker[w].st \in Delivering /\ "CREATED" \in EventStatus
      BY <1>10 DEF RetryOrGiveUp, Delivering, EventStatus
    <3> QED
      BY <1>3, <2>0, <3>1, <3>2, <3>3, <3>4, LoopRewrites
  <2> QED
    BY <2>1, <2>2
<1>11. CASE UpdateMapping(w)
  <2>1. PICK j : worker' = [worker EXCEPT ![w] = j] /\ j.st = "IDLE"
    BY <1>2, <1>11 DEF UpdateMapping, Stage
  <2>2. UNCHANGED <<events, received, unreadable>> /\ worker[w].st \notin Delivering
    BY <1>11 DEF UpdateMapping, Delivering
  <2>3. InTurn(j)'
    BY <2>1 DEF InTurn, Delivering
  <2> QED
    BY <1>1, <2>1, <2>2, <2>3, LoopAdvances
<1> QED
  BY <1>4, <1>5, <1>6, <1>8, <1>9, <1>10, <1>11 DEF WorkerStep

\* A new event is the last in line, with all its retries.
LEMMA EmitLeavesTurn ==
  ASSUME IInv, LoopInv, NEW kind \in {"HANDOFF", "PAYMENT", "STATUS"},
         NEW of \in BookingIds \cup PaymentIds \cup {None}, Emit(kind, of)
  PROVE  LoopInv'
<1> DEFINE n == Len(events) + 1
<1>1. TypeOK
  BY DEF IInv
<1>2. /\ DOMAIN events' = DOMAIN events \cup {n}
      /\ \A e \in DOMAIN events : events'[e] = events[e]
      /\ events'[n].status = "CREATED" /\ events'[n].tries = 0
      /\ n \notin DOMAIN events /\ \A e \in DOMAIN events : e < n
  <2>1. /\ DOMAIN events' = DOMAIN events \cup {n}
        /\ \A e \in DOMAIN events : events'[e] = events[e]
        /\ events'[n] = [kind |-> kind, of |-> of, status |-> "CREATED", tries |-> 0]
        /\ n \notin DOMAIN events
    BY <1>1, EmitAppends
  <2>2. \A e \in DOMAIN events : e < n
    BY <1>1 DEF TypeOK
  <2> QED
    BY <2>1, <2>2
<1>3. UNCHANGED <<received, unreadable, worker>>
  BY DEF Emit
<1>4. \A w \in Workers : worker[w].st # "IDLE" => worker[w].e \in DOMAIN events
  BY DEF IInv, JobsSound, JobSound
<1>5. received \subseteq DOMAIN events /\ \A e \in DOMAIN events : e \in Nat
  BY <1>1 DEF TypeOK
<1>n. n \in Nat
  BY <1>1 DEF TypeOK
<1> HIDE DEF n
<1>6. ASSUME NEW w \in Workers
      PROVE  InTurn(worker[w])'
  <2>1. PICK j : j = worker[w]
    OBVIOUS
  <2>2. InTurn(j) /\ (j.st # "IDLE" => j.e \in DOMAIN events)
    BY <1>4, <2>1 DEF LoopInv
  <2>3. j.st \in Delivering \cup {"FOUND"} => \A d \in DOMAIN events' : d < j.e => d \in DOMAIN events
    BY <1>2, <1>5, <1>n, <2>2 DEF Delivering
  <2>4. InTurn(j)'
    BY <1>2, <1>3, <2>2, <2>3 DEF InTurn, Settled, Delivering
  <2> QED
    BY <1>3, <2>1, <2>4
<1>7. NoneAbandoned'
  BY <1>2, <1>3 DEF LoopInv, NoneAbandoned
<1>8. \A e \in DOMAIN events' : TriesLeft(e)'
  BY <1>2, <1>3, <1>5, OutboxAssumption DEF LoopInv, TriesLeft
<1> QED
  BY <1>6, <1>7, <1>8 DEF LoopInv

LEMMA LoopInvKept ==
  ASSUME IInv, OneLoop, LoopInv, [Next]_vars
  PROVE  LoopInv'
<1>1. CASE UNCHANGED <<events, received, unreadable, worker>>
  BY <1>1 DEF LoopInv, InTurn, NoneAbandoned, TriesLeft, Settled
<1>2. ASSUME NEW kind \in {"HANDOFF", "PAYMENT", "STATUS"},
             NEW of \in BookingIds \cup PaymentIds \cup {None}, Emit(kind, of)
      PROVE  LoopInv'
  BY <1>2, EmitLeavesTurn
<1>3. \A w \in Workers : ~WorkerError(w)
  BY DEF WorkerError, OneLoop, IInv, TypeOK
<1>4. ~Crash
  BY DEF Crash, OneLoop, IInv, TypeOK
<1>5. CASE UNCHANGED vars
  BY <1>1, <1>5 DEF vars
<1>6. CASE Next
  BY <1>1, <1>2, <1>3, <1>4, <1>6, LoopInvStep
  DEF Next, EmitHandoff, EmitPayment, EmitStatus, Activate, ReadMapping, PaymentSynced,
      CallbackFailed
<1> QED
  BY <1>5, <1>6

\* A single loop that is not stopped in the middle delivers every event after all older
\* ones are settled, sends none more often than its retries allow, and gives up one that
\* the portal has only after all of them or on an answer nobody could read.
THEOREM DeliveriesCorrect ==
  ASSUME OneLoop
  PROVE  Spec => []DeliveriesSound
<1>1. Init => LoopInv
  BY DEF Init, LoopInv, InTurn, NoneAbandoned, Resting, Delivering
<1>2. IInv /\ LoopInv /\ [Next]_vars => LoopInv'
  BY LoopInvKept
<1>3. IInv /\ LoopInv => DeliveriesSound
  <2>1. ASSUME IInv, LoopInv, NEW w \in Workers, Busy(w)
        PROVE  \A d \in DOMAIN events : d < worker[w].e => Settled(d)
    <3>1. worker[w].st \in Delivering
      BY <2>1 DEF Busy, IInv, TypeOK, Job, Stage, Delivering
    <3> QED
      BY <2>1, <3>1 DEF LoopInv, InTurn
  <2> QED
    BY <2>1 DEF LoopInv, TriesLeft, DeliveriesSound, DeliveredInOrder, RetriesBounded
<1> QED
  BY <1>1, <1>2, <1>3, AlwaysSound, PTL DEF Spec

=============================================================================
