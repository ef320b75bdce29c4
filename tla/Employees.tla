------------------------------ MODULE Employees ------------------------------
(***************************************************************************)
(* Employees who leave (employeeOffboard.service.ts, routes/employees):    *)
(* a resignation is recorded, changed or withdrawn; on the last day the    *)
(* person is locked out, their leads, tasks and customers move to the      *)
(* colleague HR chose, and management is told of what stayed behind.  HR   *)
(* also changes statuses and roles.  What this does to the person's        *)
(* sign-ins is in SignIns.                                                 *)
(*                                                                         *)
(* Abstracted: names, pay, titles, the company (there is one), dates but   *)
(* for the last day being ahead or over, the lead's status.                *)
(***************************************************************************)
EXTENDS Handlers

CONSTANTS
    Workers,       \* employees
    Leads,         \* open leads
    Rest,          \* open tasks and customers of the company, as one item
    Foreign,       \* customers of another company, as one item
    Heir0,         \* handover_to_id of nobody
    StartPeople    \* what a behaviour begins with: [people, owner]

VARIABLES
    person,        \* Employee rows
    owner,         \* whose the open work is
    told,          \* leavers management was told about
    stranded,      \* history: work left with its leaver by an offboarding nobody was told of
    promised       \* history: leavers HR was answered "marked as resigned" about

people == <<person, owner, told, stranded, promised>>

Work == Leads \cup {Rest, Foreign}
WorkOf(e) == {w \in Work : owner[w] = e}
InService == [status |-> "ACTIVE", resigned |-> FALSE, lastDay |-> "NONE", heir |-> Heir0,
            offboarded |-> FALSE, sells |-> TRUE]

Employee == [status : {"ACTIVE", "INACTIVE", "SUSPENDED", "RESIGNED"}, resigned : BOOLEAN,
             lastDay : {"NONE", "AHEAD", "OVER"}, heir : Workers \cup {Heir0},
             offboarded : BOOLEAN, sells : BOOLEAN]

ASSUME StartPeopleAssumption ==
    \A s \in StartPeople : s.people \in [Workers -> Employee] /\ s.owner \in [Work -> Workers]

PeopleTypeOK ==
    /\ person \in [Workers -> Employee]
    /\ owner \in [Work -> Workers]
    /\ told \subseteq Workers /\ stranded \subseteq Workers \X Work /\ promised \subseteq Workers

PeopleInit ==
    /\ \E s \in StartPeople : person = s.people /\ owner = s.owner
    /\ told = {} /\ stranded = {} /\ promised = {}

\* `on' is the leaver, `heir' the colleague, `last' the last day as given; `kept' the leads
\* that could not be moved.  `by' is what asked for it: a RESIGNation, HR's HANDOVER, or neither.
PeopleJob(op, e, heir, last) ==
    [op |-> op, on |-> e, heir |-> heir, last |-> last, kept |-> {}, by |-> "OTHER"]

Opens(c, job) == Begin(c, job) /\ UNCHANGED people
Goes(c, op) == Continue(c, [call[c] EXCEPT !.op = op])
Others == UNCHANGED <<owner, told, stranded, promised>>

findHandoverTarget(to, e) == to # e /\ person[to].status = "ACTIVE" /\ person[to].sells
servingNotice(e) == person[e].resigned /\ ~person[e].offboarded /\ person[e].status = "ACTIVE"
HeirOf(e) == {Heir0} \cup {to \in Workers : findHandoverTarget(to, e)}

-----------------------------------------------------------------------------
(* Resignations: routes/employees/lifecycle.ts.                             *)

PostResign(e, heir) == person[e].status # "RESIGNED" /\ heir \in HeirOf(e)
PatchResignation(e, heir) == servingNotice(e) /\ heir \in HeirOf(e) \cup {person[e].heir}
DeleteResignation(e) == servingNotice(e)
PostHandover(e) == ~(person[e].status = "ACTIVE" /\ ~person[e].resigned)
GetHandoverSummary(e) == WorkOf(e) # {}

resign(c, e, heir, last) ==
    /\ PostResign(e, heir)
    /\ Opens(c, [PeopleJob("record", e, heir, last) EXCEPT !.by = "RESIGN"])
changeResignation(c, e, heir, last) ==
    /\ PatchResignation(e, heir)
    /\ Opens(c, PeopleJob("change", e, heir, last))
withdraw(c, e) == DeleteResignation(e) /\ Opens(c, PeopleJob("withdraw", e, Heir0, "NONE"))

\* A last day that is not ahead means the person leaves now.
recordResignation(c) ==
    LET job == call[c] IN
    /\ job.op = "record"
    /\ person' = [person EXCEPT ![job.on].resigned = TRUE, ![job.on].lastDay = job.last,
                                ![job.on].heir = job.heir]
    /\ IF job.last = "AHEAD" THEN Finish(c) ELSE Goes(c, "offboard")
    /\ Others

changeTx(c) ==
    LET job == call[c] IN
    /\ job.op = "change"
    /\ person' = [person EXCEPT ![job.on].heir = job.heir,
                                ![job.on].lastDay = IF job.last = "NONE" THEN @ ELSE job.last]
    /\ IF job.last = "OVER" THEN Goes(c, "offboard") ELSE Finish(c)
    /\ Others

withdrawTx(c) ==
    /\ call[c].op = "withdraw"
    /\ person' = [person EXCEPT ![call[c].on].resigned = FALSE, ![call[c].on].lastDay = "NONE",
                                ![call[c].on].heir = Heir0]
    /\ Finish(c)
    /\ Others

-----------------------------------------------------------------------------
(* The last-day step: services/employeeOffboard.service.ts.                 *)

\* Who asked is answered when the offboarding is done, whatever it did.
Answered(c) ==
    promised' = IF call[c].by = "RESIGN" THEN promised \cup {call[c].on} ELSE promised

\* offboardDueLeavers, hourly and on start: whom it lists it offboards.
offboardDueLeavers(c, e) ==
    /\ servingNotice(e) /\ person[e].lastDay = "OVER"
    /\ Opens(c, PeopleJob("offboard", e, Heir0, "NONE"))

\* offboardEmployee reads the row: the colleague, and whether it was done before.
offboardEmployee(c) ==
    LET e == call[c].on IN
    /\ call[c].op = "offboard"
    /\ IF person[e].offboarded
       THEN Finish(c) /\ Answered(c)
       ELSE Continue(c, [call[c] EXCEPT !.op = "lockout", !.heir = person[e].heir])
            /\ UNCHANGED promised
    /\ UNCHANGED <<person, owner, told, stranded>>

lockOut(c) ==
    LET e == call[c].on IN
    /\ call[c].op = "lockout"
    /\ person' = [person EXCEPT ![e].status = "RESIGNED", ![e].offboarded = TRUE]
    /\ Goes(c, "target")
    /\ Others

\* POST /employees/:id/handover does the same for somebody who has already left.
handOver(c, e, to) ==
    /\ PostHandover(e)
    /\ Opens(c, [PeopleJob("target", e, to, "NONE") EXCEPT !.by = "HANDOVER"])

\* handOverWork: the colleague may have stopped being one who can take it.
chooseTarget(c) ==
    LET job == call[c] IN
    /\ job.op = "target"
    /\ IF job.heir \in Workers /\ findHandoverTarget(job.heir, job.on)
       THEN Goes(c, "move")
       ELSE IF job.by = "HANDOVER" THEN Finish(c) ELSE Goes(c, "summary")
    /\ UNCHANGED people

\* One chunk of leads: those the workflow refuses stay and are counted.
moveLeadOwnership(c) ==
    LET job == call[c]
        chunk == WorkOf(job.on) \cap Leads IN
    /\ job.op = "move"
    /\ \E refused \in SUBSET chunk :
         /\ owner' = [w \in Work |-> IF w \in chunk \ refused THEN job.heir ELSE owner[w]]
         /\ Continue(c, [job EXCEPT !.op = "rest", !.kept = refused])
    /\ UNCHANGED <<person, told, stranded, promised>>

\* Management is told of leads left behind; HR's own hand-over answers with their number.
AfterMove_Quiet(job) == "done"
AfterMove(job) == IF job.kept = {} \/ job.by = "HANDOVER" THEN "done" ELSE "tell"

\* The tasks, and the customers of the colleague's company: those of another one stay.
moveRest(c) ==
    LET job == call[c] IN
    /\ job.op = "rest"
    /\ owner' = [owner EXCEPT ![Rest] = IF @ = job.on THEN job.heir ELSE @]
    /\ Goes(c, AfterMove(job))
    /\ UNCHANGED <<person, told, stranded, promised>>

\* A query of the hand-over fails: the offboarding counts what is left, HR gets an error.
handOverFails(c) ==
    /\ call[c].op \in {"move", "rest"}
    /\ IF call[c].by = "HANDOVER" THEN Finish(c) ELSE Goes(c, "summary")
    /\ UNCHANGED people

\* getHandoverSummary, when nobody took the work over, counts customers of any company.
summary(c) ==
    /\ call[c].op = "summary"
    /\ Goes(c, IF GetHandoverSummary(call[c].on) THEN "tell" ELSE "done")
    /\ UNCHANGED people

\* Management: the MD and HR who are active; the notice is best effort and taken as made.
notifyManagement(c) ==
    /\ call[c].op = "tell"
    /\ told' = told \cup {call[c].on}
    /\ Goes(c, "done")
    /\ UNCHANGED <<person, owner, stranded, promised>>

offboarded(c) ==
    LET e == call[c].on IN
    /\ call[c].op = "done"
    /\ stranded' = IF e \notin told /\ call[c].by # "HANDOVER"
                   THEN stranded \cup ({e} \X WorkOf(e)) ELSE stranded
    /\ Answered(c)
    /\ Finish(c)
    /\ UNCHANGED <<person, owner, told>>

-----------------------------------------------------------------------------
(* HR's other changes.                                                      *)

PatchEmployee(e, status) == status # person[e].status
PostPromote(e, sells) == sells # person[e].sells
PutRoles(e, sells) == sells # person[e].sells

\* PATCH /employees/:id; offboarded_at is left as it is.
updateEmployee(c, e, status) ==
    /\ PatchEmployee(e, status)
    /\ person' = [person EXCEPT ![e].status = status]
    /\ Serve(c) /\ Others

\* applyRoleChange: a role may work leads or not.
changeRole(c, e, sells) ==
    /\ PostPromote(e, sells) \/ PutRoles(e, sells)
    /\ person' = [person EXCEPT ![e].sells = sells]
    /\ Serve(c) /\ Others

\* Midnight: last days ahead may be over.
lastDayPasses(e) ==
    /\ person[e].lastDay = "AHEAD"
    /\ person' = [person EXCEPT ![e].lastDay = "OVER"]
    /\ UNCHANGED running /\ Others

PeopleRequests(c) ==
    \E e \in Workers :
        \/ \E heir \in Workers \cup {Heir0}, last \in {"NONE", "AHEAD", "OVER"} :
             resign(c, e, heir, last) \/ changeResignation(c, e, heir, last)
        \/ withdraw(c, e) \/ offboardDueLeavers(c, e)
        \/ \E to \in Workers : handOver(c, e, to)
        \/ \E status \in {"ACTIVE", "INACTIVE", "SUSPENDED", "RESIGNED"} : updateEmployee(c, e, status)
        \/ \E sells \in BOOLEAN : changeRole(c, e, sells)

PeopleCommits(c) ==
    \/ recordResignation(c) \/ changeTx(c) \/ withdrawTx(c)
    \/ offboardEmployee(c) \/ lockOut(c) \/ chooseTarget(c) \/ moveLeadOwnership(c) \/ moveRest(c)
    \/ handOverFails(c) \/ summary(c) \/ notifyManagement(c) \/ offboarded(c)

-----------------------------------------------------------------------------
(* Properties.                                                              *)

\* One request at a time, whoever was chosen, whatever could be moved and whichever query of
\* the hand-over failed: no offboarding ends with a lead, a task or a customer of the company
\* left with the leaver and management not told of it.
WorkHandedOnOrTold == ~disturbed => stranded \subseteq Workers \X {Foreign}

\* "Everything a person still owns ... `moves` is what a handover moves to one person"
\* (employeeOffboard.service.ts:53-57) counts the customers of any company; those of another
\* company stay, and nobody is told.
MovesHandedOnOrTold == ~disturbed => stranded = {}

\* "Otherwise both happen now" (lifecycle.ts:55-58): when HR is answered that the person
\* is marked as resigned, they have left.  Even one request at a time this fails for
\* somebody who had left before and was taken back, whose offboarded_at is still set.
ResignedHasLeft ==
    [][~disturbed' => \A e \in promised' \ promised : person'[e].status = "RESIGNED"]_<<people, disturbed>>
=============================================================================
