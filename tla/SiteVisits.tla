----------------------------- MODULE SiteVisits -----------------------------
(***************************************************************************)
(* The visits of one lead to one project: src/services/siteVisit/, their   *)
(* routes, the escalation job, the customer's feedback and the attendance  *)
(* mark a completed visit earns.  Every handler reads the visit, checks it *)
(* and later writes by id; `call' holds what a running handler has read,   *)
(* so that two handlers may interleave.  The two reads some handlers make  *)
(* one after the other (permission, then transition) are one read here.    *)
(*                                                                         *)
(* Abstracted: hours (a visit has a day), codes, notes, notifications; the *)
(* opportunity the lead needs for NEGOTIATION, which updateLeadStatus      *)
(* creates with the lead's budget when there is none (see Opportunities).  *)
(***************************************************************************)
EXTENDS LeadWorkflow, Naturals, Sequences

CONSTANTS
    VisitIds,      \* rows of the visit table
    Items,         \* properties and units that can be shown
    ProjectPMs,    \* project managers and agents
    Telecallers,
    Directors,     \* the MD: management in every policy
    Permitted,     \* <<employee, permission>>, from the role tables
    StartRows,     \* the visit there may be at the start
    Days,          \* bound: the days that pass
    Calls,         \* handlers running at once
    MaxRequests    \* bound: handlers started

Employees == ProjectPMs \cup Telecallers \cup Directors

ASSUME SiteVisitsAssumption ==
    /\ Permitted \subseteq Employees \X {"CREATE", "VERIFY", "ACCEPT", "ASSIGN", "COMPLETE"}
    /\ None \notin Employees \cup VisitIds
    /\ \A marked \in SUBSET {"MD", "MARKETING"} : marked # None
    /\ Days \in Nat \ {0} /\ MaxRequests \in Nat

VARIABLES
    visit,        \* SiteVisitBooking rows with their SiteVisitProperty rows
    lead,         \* the lead's status
    routedAway,   \* SiteVisitReassignment rows: <<visit, who gave it up>>
    escalation,   \* SiteVisitEscalation rows: None, or the directors marked as told
    feedback,     \* SiteVisitFeedback rows
    present,      \* who has an attendance log today
    call,         \* what the running handlers are doing
    today, requests,
    told,         \* history: directors told of a visit
    completions,  \* history: the completions of a visit, those that asked for feedback ASKED
    marks         \* history: attendance logs made from visits, per person today

vars == <<visit, lead, routedAway, escalation, feedback, present, call, today, requests,
          told, completions, marks>>
side == <<routedAway, escalation, feedback, present, told, completions, marks>>

-----------------------------------------------------------------------------
(* The visit's workflow.                                                    *)

Finished == {"COMPLETED", "CANCELLED"}

\* validTransitions: <<from, action, to>>.
Reschedulable == {"REQUESTED", "PENDING_ACCEPTANCE", "REASSIGNED", "ESCALATED", "ACCEPTED",
                  "RECONFIRMING", "ON_HOLD", "CANCELLATION_PENDING", "CONFIRMED", "ACTIVE"}
Cancellable == (Reschedulable \ {"CANCELLATION_PENDING"})
                  \cup {"RESCHEDULE_REQUESTED", "PENDING_PM_RECONFIRMATION"}

validTransitions ==
    (Cancellable \X {"CANCEL"} \X {"CANCELLED"}) \cup
    (Reschedulable \X {"RESCHEDULE"} \X {"RESCHEDULE_REQUESTED"}) \cup
    ({"REQUESTED", "REASSIGNED", "ESCALATED"} \X {"ROUTE"} \X {"PENDING_ACCEPTANCE"}) \cup
    ({"ACCEPTED", "RECONFIRMING", "CONFIRMED"} \X {"START"} \X {"ACTIVE"}) \cup
    {<<"PENDING_ACCEPTANCE", "ACCEPT", "ACCEPTED">>,
     <<"PENDING_ACCEPTANCE", "REASSIGN", "REASSIGNED">>,
     <<"PENDING_ACCEPTANCE", "ESCALATE", "ESCALATED">>,
     <<"ACCEPTED", "RECONFIRM_CUSTOMER", "RECONFIRMING">>,
     <<"RECONFIRMING", "HOLD", "ON_HOLD">>, <<"RECONFIRMING", "CONFIRM", "CONFIRMED">>,
     <<"ON_HOLD", "INITIATE_CANCEL", "CANCELLATION_PENDING">>,
     <<"CANCELLATION_PENDING", "CONFIRM_CANCEL", "CANCELLED">>,
     <<"CANCELLATION_PENDING", "PM_CANCEL_REJECT", "RECONFIRMING">>,
     <<"RESCHEDULE_REQUESTED", "PM_CONFIRM", "PENDING_PM_RECONFIRMATION">>,
     <<"PENDING_PM_RECONFIRMATION", "PM_CONFIRM", "ACCEPTED">>,
     <<"PENDING_PM_RECONFIRMATION", "PM_RELEASE", "PENDING_ACCEPTANCE">>,
     <<"ACTIVE", "COMPLETE", "COMPLETED">>}

VisitStatus == Reschedulable \cup Cancellable \cup Finished

\* The states the action leads to from `from': none when it is refused.
After(from, action) == {t[3] : t \in {u \in validTransitions : u[1] = from /\ u[2] = action}}

-----------------------------------------------------------------------------
(* liked and refused: the items with an outcome, both among the linked ones; *)
(* no: rated NOT_INTERESTED; photo: a proof photo is stored.                *)
Row == [status : VisitStatus \cup {"ABSENT"}, type : {"STANDARD", "DIRECT", "WALK_IN"},
        pm : ProjectPMs \cup Directors \cup {None}, agent : ProjectPMs \cup {None},
        tc : Employees \cup {None}, day : 0 .. Days, items : SUBSET Items,
        liked : SUBSET Items, refused : SUBSET Items, no : BOOLEAN, photo : BOOLEAN]

NoVisit == [status |-> "ABSENT", type |-> "STANDARD", pm |-> None, agent |-> None, tc |-> None,
            day |-> 0, items |-> {}, liked |-> {}, refused |-> {}, no |-> FALSE, photo |-> FALSE]

\* op: what the handler does next; `set': the columns it will write, from what it has read;
\* `who': the person it read, or the lead's status; `todo': the statuses the lead is still to
\* be given, or the directors still to be told.
Idle == [op |-> "IDLE", v |-> None, set |-> <<>>, who |-> None, todo |-> <<>>]

TypeOK ==
    /\ \A v \in VisitIds : visit[v] \in Row
    /\ lead \in LeadStatus
    /\ routedAway \subseteq VisitIds \X Employees
    /\ \A v \in VisitIds : escalation[v] = None \/ escalation[v] \subseteq {"MD", "MARKETING"}
    /\ feedback \in [VisitIds -> {"NONE", "SENT", "SUBMITTED"}]
    /\ present \subseteq Employees
    /\ \A c \in Calls : call[c].v \in VisitIds \cup {None}
    /\ today \in 1 .. Days /\ requests \in 0 .. MaxRequests

\* A visit that is still open, and that somebody has, or that is direct.
ASSUME StartRowsAssumption ==
    \A r \in StartRows :
        /\ r \in Row /\ r.status \notin Finished \cup {"ABSENT"}
        /\ r.type # "WALK_IN" /\ (r.type = "STANDARD" => r.pm # None)

Init ==
    /\ visit \in [VisitIds -> StartRows \cup {NoVisit}]
    /\ Cardinality({v \in VisitIds : visit[v] # NoVisit}) <= 1
    /\ lead \in {"QUALIFIED", "SITE_VISIT_SCHEDULED"}
    /\ lead = "QUALIFIED" <=> \A v \in VisitIds : visit[v] = NoVisit
    /\ routedAway = {}
    /\ escalation = [v \in VisitIds |-> None]
    /\ feedback = [v \in VisitIds |-> "NONE"]
    /\ present = {}
    /\ call = [c \in Calls |-> Idle]
    /\ today = 1 /\ requests = 0
    /\ told = [v \in VisitIds |-> <<>>]
    /\ completions = [v \in VisitIds |-> <<>>]
    /\ marks = [e \in ProjectPMs \cup Directors |-> 0]

-----------------------------------------------------------------------------
(* Who may do what: src/policies/siteVisit.policy.ts.                       *)

Holds(e, permission) == <<e, permission>> \in Permitted
isManagement(e) == e \in Directors

canComplete(e, row) == Holds(e, "COMPLETE") /\ (isManagement(e) \/ e \in {row.agent, row.pm})
canAssignAgentToVisit(e, row) == isManagement(e) \/ row.pm = e
canAccept(e, row) == Holds(e, "ACCEPT") /\ (isManagement(e) \/ row.pm = e)
canReassignTarget(target) == target \in ProjectPMs
canHoldOrInitiateCancel(e, row) == row.tc = e
canConfirmCancel(e, row) == isManagement(e) \/ row.pm = e

\* direct.ts: the one who booked it, or management (the lead's owner booked it here).
MayChangeDirect(e, row) == row.tc = e \/ isManagement(e)

(* The routes, each with the permission it asks for: src/routes/siteVisits.ts. *)
PostBook(e) == Holds(e, "CREATE")
PostWalkIn(e) == Holds(e, "CREATE")
PostMakeDirect(e) == Holds(e, "CREATE")
PostDirectReschedule(e) == Holds(e, "CREATE")
PostDirectOutcome(e) == Holds(e, "CREATE")
PostAccept(e) == Holds(e, "ACCEPT")
PostReassign(e) == Holds(e, "ASSIGN")
PostAssignAgent(e) == Holds(e, "ASSIGN")
PostEscalate(e) == Holds(e, "ASSIGN")
PostReconfirm(e) == Holds(e, "VERIFY")
PostReschedule(e) == Holds(e, "VERIFY")
PostPmReconfirm(e) == Holds(e, "ASSIGN")
PostConfirm(e) == Holds(e, "VERIFY")
PostStart(e) == Holds(e, "COMPLETE")
PostComplete(e) == Holds(e, "COMPLETE")
PostCancel(e) == Holds(e, "COMPLETE")
PostHold(e) == Holds(e, "VERIFY")
PostInitiateCancel(e) == Holds(e, "VERIFY")
PostRejectCancel(e) == Holds(e, "ASSIGN")
PostConfirmCancel(e) == Holds(e, "ASSIGN")

-----------------------------------------------------------------------------
(* Handlers in two steps.                                                   *)

\* The read half: op and set describe the write.
Begin(c, op, v, set, who) ==
    /\ requests' = requests + 1
    /\ call' = [call EXCEPT ![c] = [op |-> op, v |-> v, set |-> set, who |-> who,
                                    todo |-> <<>>]]
    /\ UNCHANGED <<lead, today, side>>

\* ... of a handler that leaves the visit alone until its transaction.
Ask(c, op, v, set, who) ==
    visit[v].status # "ABSENT" /\ Begin(c, op, v, set, who) /\ UNCHANGED visit

Columns(set, row) == [f \in DOMAIN row |-> IF f \in DOMAIN set THEN set[f] ELSE row[f]]

Finish(c) == call' = [call EXCEPT ![c] = Idle] /\ UNCHANGED <<today, requests>>

Moved(to, set) ==
    [f \in {"status"} \cup DOMAIN set |-> IF f = "status" THEN to ELSE set[f]]

\* A transition checked on the row as read ...
Transition(c, v, action, set) ==
    \E to \in After(visit[v].status, action) :
        Ask(c, "write", v, Moved(to, set), None)

\* ... and written by id.
applyTransition(c) ==
    LET v == call[c].v IN
    /\ call[c].op = "write"
    /\ visit' = [visit EXCEPT ![v] = Columns(call[c].set, @)]
    /\ Finish(c)
    /\ UNCHANGED <<lead, side>>

-----------------------------------------------------------------------------
(* Booking a visit.                                                         *)

\* A visit goes to the project's PM, or to nobody and the Marketing Director is told.
Routed(e, day, items, pm) ==
    [NoVisit EXCEPT !.status = "PENDING_ACCEPTANCE", !.pm = pm, !.tc = e, !.day = day,
                    !.items = items]
DirectRow(e, day, items) ==
    [NoVisit EXCEPT !.status = "CONFIRMED", !.type = "DIRECT", !.tc = e, !.day = day,
                    !.items = items]

\* The row is written at once; the lead moves in a step of its own.
FollowUp(c, v, todo) ==
    /\ requests' = requests + 1
    /\ call' = [call EXCEPT ![c] = IF todo = <<>> THEN Idle
                    ELSE [Idle EXCEPT !.op = "lead", !.v = v, !.todo = todo]]

\* A visit nobody was found for goes to the marketing directors at once.
escalateUnrouted(v, row) ==
    IF row.type = "STANDARD" /\ row.pm = None
    THEN /\ escalation' = [escalation EXCEPT ![v] = {"MARKETING"}]
         /\ told' = [told EXCEPT ![v] = Append(@, "MARKETING")]
    ELSE UNCHANGED <<escalation, told>>

bookVisit_Silent(c, e, v, row) ==
    /\ visit[v] = NoVisit /\ PostBook(e)
    /\ visit' = [visit EXCEPT ![v] = row]
    /\ FollowUp(c, v, IF lead \in {"QUALIFIED", "DEMO_COMPLETED"}
                         THEN <<"SITE_VISIT_SCHEDULED">> ELSE <<>>)
    /\ UNCHANGED <<lead, today, side>>

bookVisit(c, e, v, row) ==
    /\ visit[v] = NoVisit /\ PostBook(e)
    /\ visit' = [visit EXCEPT ![v] = row]
    /\ escalateUnrouted(v, row)
    /\ FollowUp(c, v, IF lead \in {"QUALIFIED", "DEMO_COMPLETED"}
                         THEN <<"SITE_VISIT_SCHEDULED">> ELSE <<>>)
    /\ UNCHANGED <<lead, today, routedAway, feedback, present, completions, marks>>

-----------------------------------------------------------------------------
(* From acceptance to the day of the visit.                                 *)

acceptVisit(c, e, v) ==
    PostAccept(e) /\ canAccept(e, visit[v]) /\ Transition(c, v, "ACCEPT", [pm |-> e])

\* The chain is open, but never back to somebody who gave the visit up.
reassignVisit(c, e, v, to) ==
    /\ PostReassign(e) /\ canReassignTarget(to)
    /\ <<v, to>> \notin routedAway
    /\ After(visit[v].status, "REASSIGN") # {}
    /\ Ask(c, "reassign", v, [status |-> "PENDING_ACCEPTANCE", pm |-> to],
           IF visit[v].pm = None THEN e ELSE visit[v].pm)

reassignVisitTx(c) ==
    LET v == call[c].v IN
    /\ call[c].op = "reassign"
    /\ visit' = [visit EXCEPT ![v] = Columns(call[c].set, @)]
    /\ routedAway' = routedAway \cup {<<v, call[c].who>>}
    /\ Finish(c)
    /\ UNCHANGED <<lead, escalation, feedback, present, told, completions, marks>>

escalateVisit(c, e, v) == PostEscalate(e) /\ Transition(c, v, "ESCALATE", <<>>)

reconfirmCustomer(c, e, v) ==
    PostReconfirm(e) /\ Transition(c, v, "RECONFIRM_CUSTOMER", <<>>)

\* New items replace the rows before the transition is checked: a refusal keeps them swapped,
\* and the fresh rows have no outcome.
rescheduleVisit(c, e, v, day, items) ==
    LET swapped == IF items = {} THEN visit[v]
                   ELSE [visit[v] EXCEPT !.items = items, !.liked = {}, !.refused = {}] IN
    /\ visit[v].status # "ABSENT" /\ PostReschedule(e)
    /\ visit' = [visit EXCEPT ![v] = swapped]
    /\ IF After(visit[v].status, "RESCHEDULE") = {}
       THEN FollowUp(c, v, <<>>) /\ UNCHANGED <<lead, today, side>>
       ELSE Begin(c, "write", v, [status |-> "RESCHEDULE_REQUESTED", day |-> day], None)

\* The PM confirms the new date, or releases the visit to the project's PM, when there is one.
pmReconfirm(c, e, v, authoritativePm) ==
    /\ PostPmReconfirm(e) /\ canAccept(e, visit[v])
    /\ \/ Transition(c, v, "PM_CONFIRM", <<>>)
       \/ Transition(c, v, "PM_RELEASE",
                     IF authoritativePm = None THEN <<>> ELSE [pm |-> authoritativePm])

confirmVisit(c, e, v) == PostConfirm(e) /\ Transition(c, v, "CONFIRM", <<>>)

assignAgent(c, e, v, agent) ==
    /\ PostAssignAgent(e) /\ canAssignAgentToVisit(e, visit[v]) /\ canReassignTarget(agent)
    /\ visit[v].status \in {"ACCEPTED", "RECONFIRMING", "CONFIRMED"}
    /\ Ask(c, "write", v, [agent |-> agent], None)

\* Not before the day, except that a director may start a CONFIRMED visit early.
startVisit(c, e, v) ==
    /\ PostStart(e) /\ canComplete(e, visit[v])
    /\ visit[v].day <= today \/ (visit[v].status = "CONFIRMED" /\ isManagement(e))
    /\ Transition(c, v, "START", <<>>)

uploadProof(c, e, v) ==
    /\ canComplete(e, visit[v]) /\ visit[v].status \in {"ACTIVE", "COMPLETED"}
    /\ Ask(c, "write", v, [photo |-> TRUE], None)

-----------------------------------------------------------------------------
(* Cancelling.                                                              *)

cancelVisit(c, e, v) ==
    /\ PostCancel(e) /\ (canComplete(e, visit[v]) \/ canHoldOrInitiateCancel(e, visit[v]))
    /\ Transition(c, v, "CANCEL", <<>>)

holdVisit(c, e, v) ==
    /\ PostHold(e) /\ canHoldOrInitiateCancel(e, visit[v])
    /\ Transition(c, v, "HOLD", <<>>)

\* From an hour before the visit: on its day.
initiateCancellation(c, e, v) ==
    /\ PostInitiateCancel(e) /\ canHoldOrInitiateCancel(e, visit[v]) /\ today >= visit[v].day
    /\ Transition(c, v, "INITIATE_CANCEL", <<>>)

rejectCancellation(c, e, v) ==
    /\ PostRejectCancel(e) /\ canConfirmCancel(e, visit[v])
    /\ Transition(c, v, "PM_CANCEL_REJECT", <<>>)

confirmCancellation(c, e, v) ==
    /\ PostConfirmCancel(e) /\ canConfirmCancel(e, visit[v])
    /\ Transition(c, v, "CONFIRM_CANCEL", <<>>)

-----------------------------------------------------------------------------
(* Completing a visit.                                                      *)

Runner(row) == IF row.agent # None THEN row.agent ELSE row.pm

\* Every linked item needs an outcome; other items of the project may be added.
completeVisit(c, e, v, liked, refused, no) ==
    /\ PostComplete(e) /\ canComplete(e, visit[v])
    /\ visit[v].items \subseteq liked \cup refused /\ liked \cap refused = {}
    /\ After(visit[v].status, "COMPLETE") # {}
    /\ Ask(c, "complete", v, [status |-> "COMPLETED", liked |-> liked, refused |-> refused,
                                 no |-> no, photo |-> visit[v].photo], Runner(visit[v]))

\* One feedback request per visit: the unique key makes a second insert fail.
createFeedbackRequest_Again(v) == feedback' = [feedback EXCEPT ![v] = "SENT"]
createFeedbackRequest(v) ==
    feedback[v] = "NONE" /\ feedback' = [feedback EXCEPT ![v] = "SENT"]

\* Outcomes, status and the request for feedback commit together, or not at all; the photo
\* written is the one read.
completeVisitTx(c) ==
    LET v == call[c].v  set == call[c].set IN
    /\ call[c].op = "complete"
    /\ IF call[c].who # None THEN createFeedbackRequest(v) ELSE UNCHANGED feedback
    /\ visit' = [visit EXCEPT ![v] =
         [Columns(set, visit[v]) EXCEPT !.items = visit[v].items \cup set.liked \cup set.refused]]
    /\ completions' = [completions EXCEPT ![v] = Append(@, IF call[c].who # None THEN "ASKED" ELSE "SILENT")]
    /\ call' = [call EXCEPT ![c].op = "mark"]
    /\ UNCHANGED <<lead, today, requests, routedAway, escalation, present, told, marks>>

\* markPresentFromVisit: a photo, somebody who ran it, and no log of the day yet ...
markPresentFromVisit(c) ==
    LET row == visit[call[c].v]  runner == Runner(row) IN
    /\ call[c].op = "mark"
    /\ call' = [call EXCEPT
         ![c].op = IF /\ row.status = "COMPLETED" /\ row.type = "STANDARD" /\ row.photo
                      /\ runner # None /\ runner \notin present
                   THEN "log" ELSE "route",
         ![c].who = runner]
    /\ UNCHANGED <<visit, lead, today, requests, side>>

\* ... then the log is created.
createVisitLog(c) ==
    /\ call[c].op = "log"
    /\ present' = present \cup {call[c].who}
    /\ marks' = [marks EXCEPT ![call[c].who] = @ + 1]
    /\ call' = [call EXCEPT ![c].op = "route"]
    /\ UNCHANGED <<visit, lead, today, requests, routedAway, escalation, feedback, told, completions>>

OpenSiblings(v) == {w \in VisitIds \ {v} : visit[w].status \notin Finished \cup {"ABSENT"}}

Branch(no) == IF no THEN "DROPPED" ELSE "NEGOTIATION"

\* The route of /:id/complete: the lead moves on after its last open visit.
completeRoute(c) ==
    LET set == call[c].set
        no == IF set.liked \cup set.refused = {} THEN set.no ELSE set.liked = {}
        todo == IF OpenSiblings(call[c].v) # {} THEN <<>>
                ELSE (IF lead \in {"QUALIFIED", "DEMO_COMPLETED"} THEN <<"SITE_VISIT_SCHEDULED">>
                      ELSE <<>>) \o <<"SITE_VISIT_COMPLETED", Branch(no)>> IN
    /\ call[c].op = "route"
    /\ call' = [call EXCEPT ![c] = IF todo = <<>> THEN Idle
                    ELSE [Idle EXCEPT !.op = "lead", !.v = call[c].v, !.todo = todo]]
    /\ UNCHANGED <<visit, lead, today, requests, side>>

-----------------------------------------------------------------------------
(* Direct visits and walk-ins: nobody is routed or assigned.                *)

Convertible == {"REQUESTED", "PENDING_ACCEPTANCE", "REASSIGNED", "ESCALATED", "ACCEPTED",
                "RECONFIRMING", "RESCHEDULE_REQUESTED", "PENDING_PM_RECONFIRMATION", "CONFIRMED",
                "ON_HOLD"}
DirectOpen == {"CONFIRMED", "RECONFIRMING", "ON_HOLD"}

makeVisitDirect(c, e, v) ==
    /\ PostMakeDirect(e) /\ MayChangeDirect(e, visit[v])
    /\ visit[v].type = "STANDARD" /\ visit[v].status \in Convertible
    /\ Ask(c, "write", v, [type |-> "DIRECT", status |-> "CONFIRMED", pm |-> None,
                              agent |-> None], None)

rescheduleDirectVisit(c, e, v, day) ==
    /\ PostDirectReschedule(e) /\ MayChangeDirect(e, visit[v])
    /\ visit[v].type = "DIRECT" /\ visit[v].status \in DirectOpen /\ day >= today
    /\ Ask(c, "write", v, [day |-> day, status |-> "CONFIRMED"], None)

recordDirectVisitOutcome(c, e, v, visited, no) ==
    /\ PostDirectOutcome(e) /\ MayChangeDirect(e, visit[v])
    /\ visit[v].type = "DIRECT" /\ visit[v].status \in DirectOpen
    /\ IF visited THEN /\ visit[v].day <= today
                       /\ Ask(c, "direct", v, [status |-> "COMPLETED", no |-> no], None)
       ELSE Ask(c, "write", v, [status |-> "CANCELLED"], None)

\* The steps a lead takes after a visit nobody ran.
Chain(from, no) ==
    CASE from \in {"QUALIFIED", "DEMO_COMPLETED"} ->
            <<"SITE_VISIT_SCHEDULED", "SITE_VISIT_COMPLETED", Branch(no)>>
      [] from = "SITE_VISIT_SCHEDULED" -> <<"SITE_VISIT_COMPLETED", Branch(no)>>
      [] from = "SITE_VISIT_COMPLETED" -> <<Branch(no)>>
      [] OTHER -> <<>>

directOutcomeTx(c) ==
    LET v == call[c].v IN
    /\ call[c].op = "direct"
    /\ createFeedbackRequest(v)
    /\ visit' = [visit EXCEPT ![v] = Columns(call[c].set, @)]
    /\ completions' = [completions EXCEPT ![v] = Append(@, "ASKED")]
    /\ call' = [call EXCEPT ![c].op = "advance"]
    /\ UNCHANGED <<lead, today, requests, routedAway, escalation, present, told, marks>>

advanceLead(c) ==
    LET todo == IF OpenSiblings(call[c].v) # {} THEN <<>> ELSE Chain(lead, call[c].set.no) IN
    /\ call[c].op = "advance"
    /\ call' = [call EXCEPT ![c] = IF todo = <<>> THEN Idle
                    ELSE [Idle EXCEPT !.op = "lead", !.v = call[c].v, !.todo = todo]]
    /\ UNCHANGED <<visit, lead, today, requests, side>>

\* recordWalkIn: the lead is read first; the day is looked up under the lead's row lock.
recordWalkIn(c, e, v, day, no) ==
    /\ visit[v] = NoVisit /\ PostWalkIn(e)
    /\ day <= today /\ lead \notin {"BOOKED", "DROPPED"}
    /\ Begin(c, "walkIn", v, [NoVisit EXCEPT !.status = "COMPLETED", !.type = "WALK_IN",
                                                !.tc = e, !.day = day, !.no = no], lead)
    /\ UNCHANGED visit

SameDay_Unlocked(c, day) == {}
SameDay(c, day) ==
    {w \in VisitIds : visit[w].status \notin {"ABSENT", "CANCELLED"} /\ visit[w].day = day}

recordWalkInTx(c) ==
    LET row == call[c].set IN
    /\ call[c].op = "walkIn" /\ SameDay(c, row.day) = {}
    /\ \E v \in VisitIds :
         /\ visit[v] = NoVisit
         /\ visit' = [visit EXCEPT ![v] = row]
         /\ createFeedbackRequest(v)
         /\ completions' = [completions EXCEPT ![v] = Append(@, "ASKED")]
         /\ call' = [call EXCEPT ![c] = IF Chain(call[c].who, row.no) = <<>> THEN Idle
                         ELSE [Idle EXCEPT !.op = "lead", !.v = v,
                                           !.todo = Chain(call[c].who, row.no)]]
    /\ UNCHANGED <<lead, today, requests, routedAway, escalation, present, told, marks>>

-----------------------------------------------------------------------------
(* The lead follows its visits: updateLeadStatus, one step at a time.       *)

Context ==
    LET there == {v \in VisitIds : visit[v].status # "ABSENT"}
        shown == {p \in there \X Items : p[2] \in visit[p[1]].items} IN
    [exit |-> "OTHER", qualified |-> TRUE, demo |-> TRUE, value |-> TRUE, target |-> FALSE,
     bookingCancelled |-> FALSE,
     visits |-> {[status |-> visit[v].status, saidNo |-> visit[v].no] : v \in there},
     outcomes |-> {[interested |-> p[2] \notin visit[p[1]].refused, reason |-> TRUE] : p \in shown}]

\* The engine is shown the lead and its visits as they are read ...
updateLeadStatus(c) ==
    LET to == Head(call[c].todo) IN
    /\ call[c].op = "lead"
    /\ call' = [call EXCEPT ![c] = IF canTransition(lead, to, Context)
                                   THEN [@ EXCEPT !.op = "leadTx"] ELSE Idle]
    /\ UNCHANGED <<visit, lead, today, requests, side>>

\* ... and the status is written by id.
updateLeadStatusTx(c) ==
    LET rest == Tail(call[c].todo) IN
    /\ call[c].op = "leadTx"
    /\ lead' = Head(call[c].todo)
    /\ call' = [call EXCEPT ![c] = IF rest = <<>> THEN Idle
                                   ELSE [@ EXCEPT !.op = "lead", !.todo = rest]]
    /\ UNCHANGED <<visit, today, requests, side>>

\* The owner may also move the lead by hand.
moveLead(c, e, to) ==
    /\ e \in Telecallers \cup Directors
    /\ FollowUp(c, CHOOSE v \in VisitIds : TRUE, <<to>>)
    /\ UNCHANGED <<visit, lead, today, side>>

-----------------------------------------------------------------------------
(* The customer's answer, the escalation job, and time.                     *)

submitFeedback(v) ==
    /\ feedback[v] = "SENT"
    /\ feedback' = [feedback EXCEPT ![v] = "SUBMITTED"]
    /\ UNCHANGED <<visit, lead, call, today, requests, routedAway, escalation, present, told,
                   completions, marks>>

\* Waiting for a PM on the eve of the visit, on its day, or after it.
Waiting == {"REQUESTED", "PENDING_ACCEPTANCE", "RESCHEDULE_REQUESTED", "PENDING_PM_RECONFIRMATION"}
needsMD(row) == row.day <= today
needsMarketing(row) == row.day <= today + 1

\* siteVisitEscalationJob reads the visits and what was already told; two runs may overlap.
siteVisitEscalationJob(c, v) ==
    LET known == IF escalation[v] = None THEN {} ELSE escalation[v]
        needed == (IF needsMD(visit[v]) /\ "MD" \notin known THEN <<"MD">> ELSE <<>>)
                   \o (IF needsMarketing(visit[v]) /\ "MARKETING" \notin known
                       THEN <<"MARKETING">> ELSE <<>>) IN
    /\ visit[v].status \in Waiting
    /\ requests' = requests + 1
    /\ call' = [call EXCEPT ![c] = [Idle EXCEPT
         !.op = IF escalation[v] = None THEN "openEscalation" ELSE "tell", !.v = v,
         !.todo = needed]]
    /\ UNCHANGED <<visit, lead, today, side>>

\* The row is created once: a second run fails on the unique key.
openEscalation(c) ==
    LET v == call[c].v IN
    /\ call[c].op = "openEscalation"
    /\ IF escalation[v] = None
       THEN /\ escalation' = [escalation EXCEPT ![v] = {}]
            /\ call' = [call EXCEPT ![c].op = "tell"]
       ELSE call' = [call EXCEPT ![c] = Idle] /\ UNCHANGED escalation
    /\ UNCHANGED <<visit, lead, today, requests, routedAway, feedback, present, told, completions,
                   marks>>

\* A director is told only by the run whose conditional update set the mark.
NotYetTold_Read(v, d) == TRUE
NotYetTold(v, d) == d \notin escalation[v]

tellDirector(c) ==
    LET v == call[c].v  d == Head(call[c].todo) IN
    /\ call[c].op = "tell"
    /\ IF call[c].todo = <<>>
       THEN Finish(c) /\ UNCHANGED <<escalation, told>>
       ELSE /\ escalation' = [escalation EXCEPT ![v] = @ \cup {d}]
            /\ told' = [told EXCEPT ![v] = IF NotYetTold(v, d) THEN Append(@, d) ELSE @]
            /\ call' = [call EXCEPT ![c].todo = Tail(@)]
            /\ UNCHANGED <<today, requests>>
    /\ UNCHANGED <<visit, lead, routedAway, feedback, present, completions, marks>>

\* moveOpenVisitsToNewPm: when a project changes hands, or a PM leaves.
moveOpenVisitsToNewPm(old, new) ==
    LET moved == {v \in VisitIds : visit[v].pm = old /\ visit[v].status \in
                     (Reschedulable \ {"ESCALATED", "ACTIVE"})
                        \cup {"RESCHEDULE_REQUESTED", "PENDING_PM_RECONFIRMATION"}} IN
    /\ old # new /\ moved # {}
    /\ visit' = [v \in VisitIds |-> IF v \in moved THEN [visit[v] EXCEPT !.pm = new] ELSE visit[v]]
    /\ requests' = requests + 1
    /\ UNCHANGED <<lead, call, today, side>>

\* A handler that fails between its read and its write.
Abandon(c) ==
    /\ call[c].op \in {"write", "reassign", "complete", "direct", "walkIn", "lead", "leadTx",
                       "log", "tell"}
    /\ Finish(c)
    /\ UNCHANGED <<visit, lead, side>>

NextDay ==
    /\ today < Days
    /\ today' = today + 1
    /\ present' = {} /\ marks' = [e \in DOMAIN marks |-> 0]
    /\ UNCHANGED <<visit, lead, call, requests, routedAway, escalation, feedback, told, completions>>

-----------------------------------------------------------------------------
Commits(c) ==
    \/ applyTransition(c) \/ reassignVisitTx(c) \/ completeVisitTx(c) \/ markPresentFromVisit(c)
    \/ createVisitLog(c) \/ completeRoute(c) \/ directOutcomeTx(c) \/ advanceLead(c)
    \/ recordWalkInTx(c) \/ updateLeadStatus(c) \/ updateLeadStatusTx(c)
    \/ openEscalation(c) \/ tellDirector(c) \/ Abandon(c)

Requests(c, e, v) ==
    \/ \E day \in 1 .. Days, items \in SUBSET Items, pm \in ProjectPMs \cup {None} :
         bookVisit(c, e, v, Routed(e, day, items, pm))
    \/ \E day \in 1 .. Days, items \in SUBSET Items : bookVisit(c, e, v, DirectRow(e, day, items))
    \/ acceptVisit(c, e, v)
    \/ \E to \in ProjectPMs : reassignVisit(c, e, v, to) \/ assignAgent(c, e, v, to)
    \/ escalateVisit(c, e, v) \/ reconfirmCustomer(c, e, v) \/ confirmVisit(c, e, v)
    \/ \E day \in 1 .. Days, items \in SUBSET Items : rescheduleVisit(c, e, v, day, items)
    \/ \E pm \in ProjectPMs \cup {None} : pmReconfirm(c, e, v, pm)
    \/ startVisit(c, e, v) \/ uploadProof(c, e, v)
    \/ cancelVisit(c, e, v) \/ holdVisit(c, e, v) \/ initiateCancellation(c, e, v)
    \/ rejectCancellation(c, e, v) \/ confirmCancellation(c, e, v)
    \/ \E liked, refused \in SUBSET Items, no \in BOOLEAN : completeVisit(c, e, v, liked, refused, no)
    \/ makeVisitDirect(c, e, v)
    \/ \E day \in 1 .. Days : rescheduleDirectVisit(c, e, v, day)
    \/ \E visited, no \in BOOLEAN : recordDirectVisitOutcome(c, e, v, visited, no)
    \/ \E day \in 1 .. Days, no \in BOOLEAN : recordWalkIn(c, e, v, day, no)

Idling == {c \in Calls : call[c] = Idle}

Next ==
    \/ \E c \in Calls : Commits(c)
    \/ /\ requests < MaxRequests
       /\ \/ \E c \in Idling, e \in Employees, v \in VisitIds : Requests(c, e, v)
          \/ \E c \in Idling, v \in VisitIds : siteVisitEscalationJob(c, v)
          \/ \E c \in Idling, e \in Employees,
               to \in {"SITE_VISIT_SCHEDULED", "SITE_VISIT_COMPLETED", "NEGOTIATION"} :
               moveLead(c, e, to)
          \/ \E old, new \in ProjectPMs : moveOpenVisitsToNewPm(old, new)
    \/ \E v \in VisitIds : submitFeedback(v)
    \/ NextDay

Spec == Init /\ [][Next]_vars

-----------------------------------------------------------------------------
(* Properties.                                                              *)

\* Two people may both be shown an ACTIVE visit and complete it; only one completion that asks
\* the customer for feedback is committed, because the feedback row is inserted in the same
\* transaction and is unique.  A completion that found nobody to rate asks for none, and nothing
\* stops it from being repeated, or followed by one that asks.
CompletedOnce ==
    \A v \in VisitIds : \A i, j \in DOMAIN completions[v] :
        completions[v][i] = "ASKED" /\ completions[v][j] = "ASKED" => i = j

\* Two walk-ins of the customer to the project on one day are never both recorded, however
\* their submissions interleave: the lead's row is locked while the day is looked up.
WalkInOnce ==
    \A v, w \in VisitIds :
        /\ visit[v].type = "WALK_IN" /\ visit[w].type = "WALK_IN"
        /\ visit[v].status # "ABSENT" /\ visit[w].status # "ABSENT"
        /\ visit[v].day = visit[w].day
        => v = w

VisitsHappenOnce == CompletedOnce /\ WalkInOnce

\* The lead reaches the stages after the visits only if some visit really took place, whatever
\* cascade brought it there and however its steps failed or interleaved.
NoDealWithoutVisit ==
    lead \in {"SITE_VISIT_COMPLETED", "NEGOTIATION"} => \E v \in VisitIds : completions[v] # <<>>

\* A visit the company should take the customer to, and that waits with nobody to run it, is on
\* the directors' list, however it lost its PM.
UnroutedIsEscalated ==
    \A v \in VisitIds :
        /\ visit[v].type = "STANDARD" /\ visit[v].status = "PENDING_ACCEPTANCE" /\ visit[v].pm = None
        => escalation[v] # None

\* Overlapping runs of the escalation job tell each director of a visit once.
DirectorToldOnce ==
    \A v \in VisitIds, i, j \in 1 .. 4 :
        {i, j} \subseteq DOMAIN told[v] /\ told[v][i] = told[v][j] => i = j

DirectorsTold == UnroutedIsEscalated /\ DirectorToldOnce

\* "One outcome row per linked property or project unit" of a completed visit: violated, since a
\* reschedule that is refused has already replaced the rows.
OutcomePerItem ==
    \A v \in VisitIds :
        visit[v].status = "COMPLETED" => visit[v].items \subseteq visit[v].liked \cup visit[v].refused
=============================================================================
