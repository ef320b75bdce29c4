------------------------------ MODULE Projects ------------------------------
(***************************************************************************)
(* A project, its units and its price rules: project.service.ts,           *)
(* projectUnit.service.ts, amenity.service.ts, pricing/rules.service.ts,   *)
(* projectUpdate.service.ts, projectChangeLog.ts and routes/projects/.     *)
(* Handlers check the rows they read and write them later by id.           *)
(*                                                                         *)
(* Abstracted: descriptive columns, codes and slugs; notifications to      *)
(* staff.  The project's files are in ProjectFiles.  Rules have one        *)
(* version; what they make of a unit's price is arithmetic.                *)
(***************************************************************************)
EXTENDS Pricing

CONSTANTS
    Units,         \* unit rows of the project
    Numbers,       \* unit numbers
    Buyers,        \* customers with a booking in the project, some with several
    Updates,       \* ProjectUpdate rows
    ProjectPMs,    \* PROJECT_MANAGER
    ProjectMDs, ProjectAdmins,
    ProjectHeads,  \* DIGITAL_MARKETING_HEAD
    ProjectClerks, \* INVENTORY_EXECUTIVE, DATA_ENTRY_OPERATOR
    Nobody,
    StartProjects  \* projects a behaviour begins with: <<project, units>>

ProjectStaff == ProjectPMs \cup ProjectMDs \cup ProjectAdmins \cup ProjectHeads \cup ProjectClerks

VARIABLES
    project,       \* [status, review, pub, pm, creator]
    unit,          \* the ProjectUnit rows
    unrecorded,    \* changes of the approved project whose history row is not written
    selected,      \* units that take the chargeable amenity
    wanted,        \* LeadPropertyInterest: units some lead is interested in
    notices,       \* CustomerNotification rows: <<update, buyer>>, undismissed
    posted         \* ProjectUpdate rows there are

projects == <<project, unit, unrecorded, selected, wanted, notices, posted>>

NoUnit == [number |-> Nobody, sales |-> "ABSENT", pub |-> FALSE]

ProjectRow ==
    [status : {"PLANNING", "UNDER_CONSTRUCTION", "ON_HOLD", "COMPLETED", "CANCELLED"},
     review : {"DRAFT", "PENDING_DM_POLISH", "PENDING_MD_APPROVAL", "VERIFIED", "REJECTED"},
     pub : BOOLEAN, pm : ProjectPMs \cup {Nobody}, creator : ProjectStaff]
UnitRow == [number : Numbers \cup {Nobody}, pub : BOOLEAN,
            sales : {"ABSENT", "AVAILABLE", "HOLD", "BLOCKED", "UNAVAILABLE", "RESERVED"}]

\* What a behaviour begins with has come about as the code would have it.
ASSUME StartProjectsAssumption ==
    \A start \in StartProjects :
        /\ start[1] \in ProjectRow /\ start[2] \in [Units -> UnitRow]
        /\ start[1].review = "VERIFIED" /\ start[1].pub =>
             \A u \in Units : start[2][u] # NoUnit => start[2][u].pub

ProjectsTypeOK ==
    /\ project \in ProjectRow
    /\ unit \in [Units -> UnitRow]
    /\ unrecorded \in Nat
    /\ selected \subseteq Units /\ wanted \subseteq Units
    /\ notices \subseteq Updates \X Buyers /\ posted \subseteq Updates

\* createProject: a PM who enters one takes it on, any other names a PM or nobody.
NewProjects ==
    {[status |-> "PLANNING", review |-> "DRAFT", pub |-> FALSE, pm |-> pm, creator |-> e] :
        pm \in ProjectPMs \cup {Nobody}, e \in ProjectStaff}

ProjectsInit ==
    /\ \E start \in StartProjects : project = start[1] /\ unit = start[2]
    /\ unrecorded = 0 /\ selected = {} /\ wanted = {} /\ notices = {} /\ posted = {}

-----------------------------------------------------------------------------
(* Who may do what: policies/project.policy.ts and authz/dataScope.ts.      *)

isOwningProjectPm(e) == project.pm = e \/ (project.pm = Nobody /\ project.creator = e)

\* Permissions.PROJECTS_UPDATE on the row, after the scope the route loads it in.
canUpdateProject(e) ==
    e \in ProjectStaff \ ProjectPMs \/ (e \in ProjectPMs /\ isOwningProjectPm(e))
canDeleteProject(e) == e \in ProjectAdmins
canChangeProjectPm(e) == e \in ProjectMDs \cup ProjectAdmins
canPolishProject(e) == e \in ProjectHeads \cup ProjectAdmins
canApproveProject(e) == e \in ProjectMDs \cup ProjectAdmins

isApproved == project.review = "VERIFIED"

\* A project that is not approved yet is for the MD, the Admin and those who work on it.
buildProjectScope(e) ==
    \/ e \in ProjectMDs \cup ProjectAdmins
    \/ isApproved
    \/ e \notin ProjectHeads /\ project.creator = e
    \/ e \in ProjectHeads /\ project.review = "PENDING_DM_POLISH"
    \/ e \in ProjectPMs /\ project.pm = e

mayUpdate(e) == buildProjectScope(e) /\ canUpdateProject(e)

(* The routes: src/routes/projects/.                                        *)
PutProject(e) == mayUpdate(e)
DeleteProject(e) == buildProjectScope(e) /\ canDeleteProject(e)
PostReassignProject(e) == mayUpdate(e)
PostSubmit(e) == buildProjectScope(e) /\ e \in ProjectPMs \cup ProjectMDs \cup ProjectAdmins
PostUnit(e) == mayUpdate(e)
PutUnit(e) == mayUpdate(e)
DeleteUnit(e) == mayUpdate(e)
PostUnits(e) == mayUpdate(e)
PostUnitStatus(e) == mayUpdate(e)
PostUnitPrice(e) == mayUpdate(e)
PostPricingRule(e) == mayUpdate(e)
PutPricingRule(e) == mayUpdate(e)
DeletePricingRule(e) == mayUpdate(e)
PutAmenity(e) == mayUpdate(e)
DeleteAmenity(e) == mayUpdate(e)
PostProjectRecalculate(e) == mayUpdate(e)
PostUpdate(e) == mayUpdate(e)
DeleteUpdate(e) == mayUpdate(e)

\* Price changes on an approved project need a reason.
requireReason(reason) == isApproved => reason

-----------------------------------------------------------------------------
\* A job remembers whether the project was approved when it was read, and what it changes.
Nothing == [to |-> Nobody]
Job2(op, u, set, then) ==
    [op |-> op, on |-> u, set |-> set, was |-> <<>>, then |-> then, approved |-> isApproved]

AskProject(c, job) == Begin(c, job) /\ UNCHANGED <<projects, prices>>

\* The history row of a change: only an approved project has a history.
Owed(c) == unrecorded' = unrecorded + (IF call[c].approved THEN 1 ELSE 0)
recordChanges(c) ==
    /\ call[c].op = "record"
    /\ unrecorded' = unrecorded - (IF call[c].approved THEN 1 ELSE 0)
    /\ Done(c)
    /\ UNCHANGED <<project, unit, selected, wanted, notices, posted, prices>>

-----------------------------------------------------------------------------
(* Review: submit, polish or pass as it is, approve.                        *)

Review(c, from, to) ==
    project.review \in from /\ AskProject(c, Job2("review", Nobody, [to |-> to], <<>>))

submitForReview(c, e) == PostSubmit(e) /\ Review(c, {"DRAFT", "REJECTED"}, "PENDING_DM_POLISH")
dmPolish(c, e) == buildProjectScope(e) /\ canPolishProject(e) /\ Review(c, {"PENDING_DM_POLISH"}, "PENDING_MD_APPROVAL")
dmVerifyAsIs(c, e) == buildProjectScope(e) /\ canPolishProject(e) /\ Review(c, {"PENDING_DM_POLISH"}, "PENDING_MD_APPROVAL")

review(c) ==
    /\ call[c].op = "review"
    /\ project' = [project EXCEPT !.review = call[c].set.to]
    /\ Done(c)
    /\ UNCHANGED <<unit, unrecorded, selected, wanted, notices, posted, prices>>

mdApprove(c, e, approved) ==
    /\ buildProjectScope(e) /\ canApproveProject(e) /\ project.review = "PENDING_MD_APPROVAL"
    /\ AskProject(c, Job2("mdReview", Nobody, [ok |-> approved], <<>>))

\* The project and its units go on, or come off, the websites in one transaction.
mdApproveTx(c) ==
    LET ok == call[c].set.ok IN
    /\ call[c].op = "mdReview"
    /\ project' = [project EXCEPT !.review = IF ok THEN "VERIFIED" ELSE "REJECTED", !.pub = ok]
    /\ unit' = [u \in Units |-> IF unit[u] = NoUnit THEN NoUnit ELSE [unit[u] EXCEPT !.pub = ok]]
    /\ Done(c)
    /\ UNCHANGED <<unrecorded, selected, wanted, notices, posted, prices>>

-----------------------------------------------------------------------------
(* The project's own row.                                                   *)

validProjectTransitions ==
    ({"PLANNING"} \X {"UNDER_CONSTRUCTION", "CANCELLED", "ON_HOLD"}) \cup
    ({"UNDER_CONSTRUCTION"} \X {"COMPLETED", "CANCELLED", "ON_HOLD"}) \cup
    ({"ON_HOLD"} \X {"UNDER_CONSTRUCTION", "CANCELLED"})

\* In review the core fields are locked, for all but the MD and Admin.
coreLocked(e) == project.review \in {"PENDING_DM_POLISH", "PENDING_MD_APPROVAL"} /\ e \notin ProjectMDs \cup ProjectAdmins

updateProject(c, e, status, pm) ==
    /\ PutProject(e) /\ ~coreLocked(e)
    /\ pm # project.pm /\ project.pm # Nobody => canChangeProjectPm(e)
    /\ status # project.status => <<project.status, status>> \in validProjectTransitions
    /\ AskProject(c, Job2("editProject", Nobody, [status |-> status, pm |-> pm], <<>>))

\* The row and its history rows are one transaction.
updateProjectTx(c) ==
    LET set == call[c].set IN
    /\ call[c].op = "editProject"
    /\ project' = [project EXCEPT !.status = set.status, !.pm = set.pm]
    /\ Done(c)
    /\ UNCHANGED <<unit, unrecorded, selected, wanted, notices, posted, prices>>

reassignProject(c, e, pm) ==
    /\ PostReassignProject(e) /\ canChangeProjectPm(e) /\ pm # project.pm
    /\ AskProject(c, Job2("editProject", Nobody, [status |-> project.status, pm |-> pm], <<>>))

ActiveInventory == {"AVAILABLE", "HOLD", "RESERVED"}

\* Not while something is for sale or sold.
deleteProject(c, e) ==
    /\ DeleteProject(e)
    /\ <<project.status, "CANCELLED">> \in validProjectTransitions
    /\ \A u \in Units : unit[u].sales \notin ActiveInventory
    /\ AskProject(c, Job2("cancelProject", Nobody, Nothing, <<>>))

deleteProjectTx(c) ==
    /\ call[c].op = "cancelProject"
    /\ project' = [project EXCEPT !.status = "CANCELLED", !.pub = FALSE]
    /\ Done(c)
    /\ UNCHANGED <<unit, unrecorded, selected, wanted, notices, posted, prices>>

-----------------------------------------------------------------------------
(* Units.                                                                   *)

Free(number) == \A u \in Units : unit[u].number # number

createUnit(c, e, u, number, withLines) ==
    /\ PostUnit(e) /\ Free(number)
    /\ AskProject(c, Job2("createUnit", u, [number |-> number, pub |-> project.pub /\ isApproved],
                          (IF withLines THEN <<"manual">> ELSE <<>>) \o <<"price", "record">>))

\* The number is unique in the database as well: a second one fails there.
newUnit_Hidden(job) == [number |-> job.set.number, sales |-> "AVAILABLE", pub |-> FALSE]
newUnit(job) == [number |-> job.set.number, sales |-> "AVAILABLE", pub |-> job.set.pub]

createUnitRow(c) ==
    LET job == call[c] IN
    /\ job.op = "createUnit" /\ unit[job.on] = NoUnit /\ Free(job.set.number)
    /\ unit' = [unit EXCEPT ![job.on] = newUnit(job)]
    /\ Edit(job.on) /\ Owed(c)
    /\ Done(c)
    /\ UNCHANGED <<project, selected, wanted, notices, posted, priced, manual, lines>>

\* Units generated together are created and priced in one transaction, those that fail left out.
bulkCreateUnits(c, e, us) ==
    /\ PostUnits(e)
    /\ AskProject(c, Job2("bulk", Nobody, [us |-> us, pub |-> project.pub /\ isApproved],
                          <<"record">>))

bulkCreateUnitsTx(c) ==
    LET job == call[c]
        us == {u \in job.set.us : unit[u] = NoUnit} IN
    /\ job.op = "bulk"
    /\ \E numbering \in [us -> Numbers \cup {Nobody}] :
         LET made == {u \in us : numbering[u] # Nobody} IN
         /\ \A u \in made : Free(numbering[u])
         /\ \A u, v \in made : numbering[u] = numbering[v] => u = v
         /\ unit' = [u \in Units |-> IF u \in made
                       THEN newUnit([set |-> [number |-> numbering[u], pub |-> job.set.pub]])
                       ELSE unit[u]]
         /\ edited' = [i \in PricedItems |-> IF i \in made THEN edited[i] + 1 ELSE edited[i]]
         /\ priced' = [i \in PricedItems |-> IF i \in made THEN edited[i] + 1 ELSE priced[i]]
         /\ IF made = {} THEN Finish(c) /\ UNCHANGED unrecorded ELSE Done(c) /\ Owed(c)
    /\ UNCHANGED <<project, selected, wanted, notices, posted, manual, lines>>

\* The manual status, and anything the price does not come from, stay as they are.
updateUnit_Unpriced(c, e, u, number, withLines) ==
    /\ PutUnit(e) /\ unit[u] # NoUnit
    /\ number # unit[u].number => Free(number)
    /\ AskProject(c, Job2("editUnit", u, [number |-> number], <<"record">>))
updateUnit(c, e, u, number, withLines) ==
    /\ PutUnit(e) /\ unit[u] # NoUnit
    /\ number # unit[u].number => Free(number)
    /\ AskProject(c, Job2("editUnit", u, [number |-> number],
                          (IF withLines THEN <<"manual">> ELSE <<>>) \o <<"price", "record">>))

editUnitRow(c) ==
    LET job == call[c] IN
    /\ job.op = "editUnit" /\ unit[job.on] # NoUnit
    /\ \A v \in Units \ {job.on} : unit[v].number # job.set.number
    /\ unit' = [unit EXCEPT ![job.on].number = job.set.number]
    /\ Edit(job.on) /\ Owed(c)
    /\ Done(c)
    /\ UNCHANGED <<project, selected, wanted, notices, posted, priced, manual, lines>>

\* RESERVED, BOOKED and SOLD belong to the booking workflow.
changeStatus(c, e, u, status) ==
    /\ PostUnitStatus(e) /\ unit[u].sales \notin {"ABSENT", "RESERVED"}
    /\ AskProject(c, Job2("unitStatus", u, [sales |-> status], <<>>))

changeStatusTx(c) ==
    LET job == call[c] IN
    /\ job.op = "unitStatus" /\ unit[job.on] # NoUnit
    /\ unit' = [unit EXCEPT ![job.on].sales = job.set.sales]
    /\ Done(c)
    /\ UNCHANGED <<project, unrecorded, selected, wanted, notices, posted, prices>>

overrideUnitPrice(c, e, u, reason) ==
    /\ PostUnitPrice(e) /\ unit[u] # NoUnit /\ requireReason(reason)
    /\ AskProject(c, Job2("override", u, Nothing, <<"price", "record">>))

overrideUnitPriceRow(c) ==
    LET job == call[c] IN
    /\ job.op = "override" /\ unit[job.on] # NoUnit
    /\ Edit(job.on) /\ Owed(c)
    /\ Done(c)
    /\ UNCHANGED <<project, unit, selected, wanted, notices, posted, priced, manual, lines>>

\* Neither booked nor wanted by a lead.
deleteUnit_Unlogged(c, e, u) ==
    /\ DeleteUnit(e) /\ unit[u].sales \notin {"ABSENT", "RESERVED"} /\ u \notin wanted
    /\ AskProject(c, Job2("deleteUnit", u, Nothing, <<>>))
deleteUnit(c, e, u) ==
    /\ DeleteUnit(e) /\ unit[u].sales \notin {"ABSENT", "RESERVED"} /\ u \notin wanted
    /\ AskProject(c, Job2("deleteUnit", u, Nothing, <<"record">>))

\* The price and the lines go with the row.
deleteUnitRow(c) ==
    LET u == call[c].on IN
    /\ call[c].op = "deleteUnit" /\ unit[u] # NoUnit
    /\ unit' = [unit EXCEPT ![u] = NoUnit]
    /\ selected' = selected \ {u}
    /\ priced' = [priced EXCEPT ![u] = edited[u]] /\ lines' = [lines EXCEPT ![u] = manual[u]]
    /\ Owed(c)
    /\ Done(c)
    /\ UNCHANGED <<project, wanted, notices, posted, edited, manual>>

-----------------------------------------------------------------------------
(* Rules and amenities reach the stored prices with the next recalculation. *)

\* createRule, updateRule, deleteRule: the rule's row, then its history row.
ChangeRule(c, reason) ==
    requireReason(reason) /\ AskProject(c, Job2("rule", Nobody, Nothing, <<"record">>))
createRule(c, e, reason) == PostPricingRule(e) /\ ChangeRule(c, reason)
updateRule(c, e, reason) == PutPricingRule(e) /\ ChangeRule(c, reason)
deleteRule(c, e, reason) == DeletePricingRule(e) /\ ChangeRule(c, reason)

ruleRow(c) ==
    /\ call[c].op = "rule"
    /\ Owed(c) /\ Done(c)
    /\ UNCHANGED <<project, unit, selected, wanted, notices, posted, prices>>

\* An amenity's charge asks for no reason and leaves no history; the units that take it get its
\* mark one by one.
setProjectAmenity(c, e, us) ==
    /\ PutAmenity(e)
    /\ selected' = {u \in us : unit[u] # NoUnit}
    /\ Serve(c)
    /\ UNCHANGED <<project, unit, unrecorded, wanted, notices, posted, prices>>

removeProjectAmenity(c, e) == DeleteAmenity(e) /\ setProjectAmenity(c, e, {})

\* Unit by unit, each in its own transaction (and one history row of the whole).
applyRecalculateProject(c, e) ==
    /\ PostProjectRecalculate(e)
    /\ AskProject(c, Job2("each", Nobody, [us |-> {u \in Units : unit[u] # NoUnit}], <<>>))

recalculateEach(c) ==
    /\ call[c].op = "each"
    /\ IF call[c].set.us = {} THEN Done(c)
       ELSE \E u \in call[c].set.us :
              Continue(c, [call[c] EXCEPT !.op = "price", !.on = u, !.set.us = @ \ {u},
                                          !.then = <<"each">>])
    /\ UNCHANGED <<projects, prices>>

-----------------------------------------------------------------------------
(* News to the buyers.                                                      *)

\* One notice a customer, however many bookings; the update and its notices are one transaction.
postUpdate(c, e, n) ==
    /\ PostUpdate(e) /\ n \notin posted
    /\ posted' = posted \cup {n}
    /\ notices' = notices \cup ({n} \X Buyers)
    /\ Serve(c)
    /\ UNCHANGED <<project, unit, unrecorded, selected, wanted, prices>>

\* Taken back, with the notices it sent.
removeUpdate_Kept(c, e, n) ==
    /\ DeleteUpdate(e) /\ n \in posted
    /\ posted' = posted \ {n}
    /\ Serve(c)
    /\ UNCHANGED <<project, unit, unrecorded, selected, wanted, notices, prices>>
removeUpdate(c, e, n) ==
    /\ DeleteUpdate(e) /\ n \in posted
    /\ posted' = posted \ {n}
    /\ notices' = {x \in notices : x[1] # n}
    /\ Serve(c)
    /\ UNCHANGED <<project, unit, unrecorded, selected, wanted, prices>>

-----------------------------------------------------------------------------
(* Around it: a booking takes a unit, a lead wants one.                     *)

\* A booking claims it: the project is approved and its sales go on (assertClaimable).
bookingReserves(u) ==
    /\ unit[u].sales = "AVAILABLE" /\ isApproved
    /\ project.status \notin {"ON_HOLD", "CANCELLED"}
    /\ unit' = [unit EXCEPT ![u].sales = "RESERVED"]
    /\ UNCHANGED <<project, unrecorded, selected, wanted, notices, posted, prices, running>>

\* addPropertyInterest
leadWants(u) ==
    /\ unit[u] # NoUnit /\ u \notin wanted
    /\ wanted' = wanted \cup {u}
    /\ UNCHANGED <<project, unit, unrecorded, selected, notices, posted, prices, running>>

-----------------------------------------------------------------------------
ProjectRequests(c, e) ==
    \/ submitForReview(c, e) \/ dmPolish(c, e) \/ dmVerifyAsIs(c, e)
    \/ \E approved \in BOOLEAN : mdApprove(c, e, approved)
    \/ \E status \in {project.status, "UNDER_CONSTRUCTION"}, pm \in ProjectPMs \cup {Nobody} :
         updateProject(c, e, status, pm)
    \/ \E pm \in ProjectPMs : reassignProject(c, e, pm)
    \/ deleteProject(c, e)
    \/ \E u \in Units, number \in Numbers, withLines \in BOOLEAN :
         createUnit(c, e, u, number, withLines) \/ updateUnit(c, e, u, number, withLines)
    \/ \E us \in SUBSET Units : bulkCreateUnits(c, e, us)
    \/ \E u \in Units : \/ \E status \in {"AVAILABLE", "HOLD", "BLOCKED"} : changeStatus(c, e, u, status)
                        \/ \E reason \in BOOLEAN : overrideUnitPrice(c, e, u, reason)
                        \/ deleteUnit(c, e, u)
    \/ \E reason \in BOOLEAN : createRule(c, e, reason) \/ updateRule(c, e, reason) \/ deleteRule(c, e, reason)
    \/ \E us \in SUBSET Units : setProjectAmenity(c, e, us)
    \/ removeProjectAmenity(c, e)
    \/ applyRecalculateProject(c, e)
    \/ \E n \in Updates : postUpdate(c, e, n) \/ removeUpdate(c, e, n)

ProjectCommits(c) ==
    \/ recordChanges(c) \/ review(c) \/ mdApproveTx(c) \/ updateProjectTx(c) \/ deleteProjectTx(c)
    \/ createUnitRow(c) \/ bulkCreateUnitsTx(c) \/ editUnitRow(c) \/ changeStatusTx(c)
    \/ overrideUnitPriceRow(c) \/ recalculateEach(c) \/ deleteUnitRow(c) \/ ruleRow(c)

ProjectsAround(u) == bookingReserves(u) \/ leadWants(u)

-----------------------------------------------------------------------------
\* The units of an approved project go on the websites with it, those added later too, as long
\* as the handlers do not overlap.
UnitsShownWithProject ==
    Undisturbed /\ isApproved /\ project.pub =>
        \A u \in Units : unit[u] # NoUnit => unit[u].pub

\* "A VERIFIED project's details, prices, pricing rules and units can change without another
\* review, but every change leaves one AuditEvent row": nothing stays unrecorded.
HistoryComplete == Undisturbed => unrecorded = 0

\* A customer's notices are those of the updates there are: no news twice, none of what was
\* taken back.
NoticesMatchUpdates == notices \subseteq posted \X Buyers

\* "Hard block cancellation while any unit underneath is still active inventory": violated, the
\* units of a cancelled project may be put on sale again.
CancelledSellsNothing ==
    project.status = "CANCELLED" => \A u \in Units : unit[u].sales \notin ActiveInventory
=============================================================================
