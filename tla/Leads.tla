-------------------------------- MODULE Leads --------------------------------
(***************************************************************************)
(* Who has a lead and where it stands: src/services/lead/.  Handlers read  *)
(* the lead, decide, and then write it in a transaction; `call' keeps what *)
(* each running handler has read, so that two of them may interleave       *)
(* between the read and the write.  A handler that fails after its read    *)
(* (a refused transition, a database error, two leads given one code) is   *)
(* Abandon.                                                                *)
(*                                                                         *)
(* Abstracted: names, sources, notes, activities other than the days with  *)
(* a logged call, the notifications, and the tables other components own   *)
(* (visits, demos, opportunities), which a status change reads: one of     *)
(* Contexts, see LeadWorkflow.  Nothing in src/ calls                      *)
(* distributeUnassignedPoolLeads, so it is no action here.                 *)
(***************************************************************************)
EXTENDS LeadWorkflow, Naturals, FiniteSetsExt

CONSTANTS
    Phones,          \* the customers
    LeadIds,         \* rows of the lead table
    Employees,
    Management,      \* LeadPolicy.isManagement
    Transferrers,    \* transfer.ts, isManagement: MD, ADMIN, HR_MANAGER, MARKETING_DIRECTOR
    Restorers,       \* recovery.ts, assertMayRecover: MD, ADMIN, MARKETING_DIRECTOR
    Permitted,       \* <<employee, permission>>: what the roles allow
    Telecallers,     \* active telecallers, who take part in the distribution
    Contexts,        \* what the engine may be shown of the other tables
    Calls,           \* handlers running at once
    UnreachableDays, \* days of calls before a lead may be dropped as unresponsive: 5
    MaxRequests      \* bound: handlers started

ASSUME LeadsAssumption ==
    /\ Restorers \subseteq Transferrers /\ Transferrers \subseteq Management
    /\ Management \subseteq Employees
    /\ Telecallers \subseteq Employees
    /\ Permitted \subseteq Employees \X {"CREATE", "UPDATE", "ASSIGN", "BULK_UPLOAD"}
    /\ None \notin Employees \cup Phones \cup LeadIds
    /\ UnreachableDays \in Nat \ {0} /\ MaxRequests \in Nat

VARIABLES
    lead,       \* Lead rows
    callBacks,  \* open call-back tasks: <<lead, assignee>>
    callDays,   \* days on which a call was logged
    call,       \* what the running handlers are doing
    requests,   \* handlers started
    claims,     \* claims granted since the lead last had no owner
    inventory   \* [drops, recoveries]: for want of matching inventory, and back

vars == <<lead, callBacks, callDays, call, requests, claims, inventory>>

ExitReason == {"NO_MATCHING_INVENTORY", "DO_NOT_CALL", "UNRESPONSIVE", "OTHER"}

ASSUME NullAssumption == None \notin ExitReason

Row == [phone : Phones \cup {None}, status : LeadStatus \cup {"ABSENT"},
        owner : Employees \cup {None}, exit : ExitReason \cup {None}]

Absent == [phone |-> None, status |-> "ABSENT", owner |-> None, exit |-> None]

Op == {"IDLE", "claim", "reassign", "status", "transfer", "batch", "create", "enquiry",
       "uploadRecover", "inventory", "recover", "log", "next"}

\* op: the write that comes next; `seen': the lead as read; `goal': the status, or the
\* person, asked for; `todo': the status changes a logged call still has to make.
Call == [op : Op, by : Employees \cup {None}, lead : LeadIds \cup {None}, seen : Row,
         goal : LeadStatus \cup Employees \cup Phones \cup {None},
         exit : ExitReason \cup {None}, met : BOOLEAN,
         todo : SUBSET {"CONTACTED", "DROPPED"}]

Idle == [op |-> "IDLE", by |-> None, lead |-> None, seen |-> Absent, goal |-> None,
         exit |-> None, met |-> FALSE, todo |-> {}]

TypeOK ==
    /\ lead \in [LeadIds -> Row]
    /\ callBacks \subseteq LeadIds \X Employees
    /\ callDays \in [LeadIds -> 0 .. UnreachableDays]
    /\ call \in [Calls -> Call]
    /\ requests \in 0 .. MaxRequests
    /\ claims \in [LeadIds -> Nat]
    /\ inventory \in [LeadIds -> [drops : Nat, recoveries : Nat]]

Init ==
    /\ lead = [l \in LeadIds |-> Absent]
    /\ callBacks = {}
    /\ callDays = [l \in LeadIds |-> 0]
    /\ call = [c \in Calls |-> Idle]
    /\ requests = 0
    /\ claims = [l \in LeadIds |-> 0]
    /\ inventory = [l \in LeadIds |-> [drops |-> 0, recoveries |-> 0]]

-----------------------------------------------------------------------------
(* Helpers.  Operators named X_Y are mutants of X.                          *)

Exists(l) == lead[l].status # "ABSENT"

IsDoNotCall(row) == row.exit = "DO_NOT_CALL"

\* LeadPolicy.canMutate and canReassign.
CanMutate(e, row) == e \in Management \/ row.owner = e
canReassign(e) == e \in Management

(* The routes, each with the permission it asks for: src/routes/leads.ts.   *)
Holds(e, permission) == <<e, permission>> \in Permitted

PostLead(e) == Holds(e, "CREATE")
PostBulkUpload(e) == Holds(e, "BULK_UPLOAD")
PostClaim(e) == Holds(e, "UPDATE")
PostAssign(e) == Holds(e, "ASSIGN")
PostTransfer(e) == Holds(e, "UPDATE")
PostMoveBatch(e) == Holds(e, "ASSIGN")
PatchStatus(e) == Holds(e, "UPDATE")
PostCall(e) == Holds(e, "UPDATE")
PostRecoverManual(e) == Holds(e, "UPDATE")
PostRecoverFresh(e) == Holds(e, "UPDATE")

ReadOnly == UNCHANGED <<lead, callBacks, callDays, claims, inventory>>

\* The read half of a handler.
Begin(c, op, e, l, goal, exit, met) ==
    /\ requests' = requests + 1
    /\ call' = [call EXCEPT ![c] = [op |-> op, by |-> e, lead |-> l, seen |-> lead[l],
                                    goal |-> goal, exit |-> exit, met |-> met, todo |-> {}]]
    /\ ReadOnly

Done(c) == call' = [call EXCEPT ![c] = Idle] /\ UNCHANGED requests

\* A lead that was dropped because nothing matched.
WantsInventory(row) == row.status = "DROPPED" /\ row.exit = "NO_MATCHING_INVENTORY"

\* Writes the row, and the histories of a drop for want of inventory and of having no owner.
Write(l, row) ==
    /\ lead' = [lead EXCEPT ![l] = row]
    /\ claims' = [claims EXCEPT ![l] = IF row.owner = None THEN 0 ELSE @]
    /\ inventory' = [inventory EXCEPT ![l].drops =
         IF WantsInventory(row) /\ ~WantsInventory(lead[l]) THEN @ + 1 ELSE @]

closeCallBackTasks(l, assignees, open) == open \ ({l} \X assignees)

\* transitionLead: the status is checked on the row as read and written by id; open
\* call-backs close for everyone when the lead ends, for the previous owner when it moves.
transitionLead_KeepTasks(l, seen, row, open) ==
    /\ Write(l, row)
    /\ callBacks' = IF row.status \in {"DROPPED", "BOOKED"}
                    THEN closeCallBackTasks(l, Employees, open) ELSE open

transitionLead(l, seen, row, open) ==
    /\ Write(l, row)
    /\ callBacks' = IF row.status \in {"DROPPED", "BOOKED"}
                    THEN closeCallBackTasks(l, Employees, open)
                    ELSE IF row.owner # seen.owner
                    THEN closeCallBackTasks(l, {seen.owner}, open)
                    ELSE open

\* findBestAssigneeForLead: an active telecaller with the fewest active leads, or nobody.
ActiveLeads(e) ==
    Cardinality({l \in LeadIds : /\ lead[l].owner = e
                                 /\ lead[l].status \in {"NEW", "ASSIGNED", "CONTACTED", "QUALIFIED",
                                                        "SITE_VISIT_SCHEDULED"}})

BestAssignees ==
    IF Telecallers = {} THEN {None}
    ELSE {e \in Telecallers : \A d \in Telecallers : ActiveLeads(e) <= ActiveLeads(d)}

-----------------------------------------------------------------------------
(* Handing a lead to somebody.                                              *)

\* claimLead: the lead looks free ...
claimLead(c, e, l) ==
    /\ PostClaim(e) /\ lead[l].status = "NEW" /\ lead[l].owner = None
    /\ Begin(c, "claim", e, l, None, None, FALSE)

\* ... and the conditional update decides who gets it.
StillFree_Seen(c, l) == call[c].seen.owner = None

StillFree(c, l) == lead[l].owner = None /\ lead[l].status = "NEW"

claimLeadTx(c) ==
    LET l == call[c].lead IN
    /\ call[c].op = "claim" /\ StillFree(c, l)
    /\ lead' = [lead EXCEPT ![l] = [phone |-> @.phone, status |-> "ASSIGNED", owner |-> call[c].by,
                                    exit |-> @.exit]]
    /\ claims' = [claims EXCEPT ![l] = @ + 1]
    /\ Done(c)
    /\ UNCHANGED <<callBacks, callDays, inventory>>

\* reassignLead: management names a new owner; the status written is the one read.
reassignLead(c, e, l, to) ==
    /\ Exists(l) /\ PostAssign(e) /\ canReassign(e)
    /\ Begin(c, "reassign", e, l, to, None, FALSE)

\* The row a move writes: over the row as it is now, the status as it was read.
Moved(l, seen, to) ==
    [phone |-> lead[l].phone, owner |-> to, exit |-> lead[l].exit,
     status |-> IF seen.status = "NEW" THEN "ASSIGNED" ELSE seen.status]

reassignLeadTx(c) ==
    LET l == call[c].lead IN
    /\ call[c].op = "reassign"
    /\ transitionLead(l, call[c].seen, Moved(l, call[c].seen, call[c].goal), callBacks)
    /\ Done(c)
    /\ UNCHANGED callDays

\* transferLead: the owner or management gives the lead, and its call-backs, to a colleague.
transferLead(c, e, l, to) ==
    /\ PostTransfer(e) /\ Exists(l) /\ lead[l].status \notin {"BOOKED", "DROPPED"}
    /\ lead[l].owner = e \/ e \in Transferrers
    /\ lead[l].status = "BOOKING_INITIATED" => e \in Transferrers
    /\ to # lead[l].owner
    /\ Begin(c, "transfer", e, l, to, None, FALSE)

moveLeadOwnership(c) ==
    LET l == call[c].lead
        previous == call[c].seen.owner
        moved == IF <<l, previous>> \in callBacks
                 THEN (callBacks \ {<<l, previous>>}) \cup {<<l, call[c].goal>>} ELSE callBacks IN
    /\ call[c].op = "transfer"
    /\ transitionLead(l, call[c].seen, Moved(l, call[c].seen, call[c].goal), moved)
    /\ Done(c)
    /\ UNCHANGED callDays

\* moveUploadBatch: leads nobody called move to another person, by id.
moveUploadBatch(c, e, l, to) ==
    /\ lead[l].status \in {"NEW", "ASSIGNED"} /\ callDays[l] = 0 /\ lead[l].owner # to
    /\ PostMoveBatch(e)
    /\ Begin(c, "batch", e, l, to, None, FALSE)

moveUploadBatchTx(c) ==
    LET l == call[c].lead IN
    /\ call[c].op = "batch"
    /\ Write(l, [phone |-> lead[l].phone, status |-> "ASSIGNED", owner |-> call[c].goal,
                 exit |-> lead[l].exit])
    /\ Done(c)
    /\ UNCHANGED <<callBacks, callDays>>

-----------------------------------------------------------------------------
(* Moving a lead along.                                                     *)

\* A lead that was never reached may not be given up before enough days of calls.
UnreachableCap(l, to, exit) ==
    to = "DROPPED" /\ lead[l].status \in {"ASSIGNED", "CONTACTED"} /\ exit = "UNRESPONSIVE"
       => callDays[l] = UnreachableDays

\* updateLeadStatus up to its transaction: everything the engine will be shown is read.
StatusChange(l, to, exit, ctx) ==
    /\ Exists(l)
    /\ UnreachableCap(l, to, exit)
    /\ canTransition(lead[l].status, to,
                     [ctx EXCEPT !.exit = IF exit = None THEN lead[l].exit ELSE exit])

updateLeadStatus(c, e, l, to, exit) ==
    /\ PatchStatus(e) /\ CanMutate(e, lead[l])
    /\ \E ctx \in Contexts : StatusChange(l, to, exit, ctx)
    /\ Begin(c, "status", e, l, to, exit, TRUE)

Updated_Reason(l, to, exit, next) ==
    [phone |-> lead[l].phone, status |-> to, owner |-> lead[l].owner,
     exit |-> IF to = "DROPPED" THEN to ELSE lead[l].exit]

\* The row a status change writes; a recovered lead goes straight to the next telecaller.
Updated(l, to, exit, next) ==
    [phone |-> lead[l].phone,
     status |-> IF to = "RECOVERED_TO_POOL" /\ next # None THEN "ASSIGNED" ELSE to,
     owner |-> IF to = "RECOVERED_TO_POOL" /\ next # None THEN next ELSE lead[l].owner,
     exit |-> IF to = "DROPPED" THEN exit ELSE lead[l].exit]

\* A logged call goes on to its next status change, anything else is done.
Continue(c) ==
    /\ call' = [call EXCEPT ![c] = IF @.todo = {} THEN Idle ELSE [@ EXCEPT !.op = "next"]]
    /\ UNCHANGED requests

updateLeadStatusTx(c) ==
    LET l == call[c].lead IN
    /\ call[c].op = "status"
    /\ \E next \in BestAssignees :
         transitionLead(l, call[c].seen, Updated(l, call[c].goal, call[c].exit, next), callBacks)
    /\ Continue(c)
    /\ UNCHANGED callDays

\* logCall: anyone who sees the lead records a call ...
logCall(c, e, l, connected, drop) ==
    /\ Exists(l) /\ PostCall(e)
    /\ Begin(c, "log", e, l, None, drop, connected)

\* ... which closes the caller's call-backs and may open the next one; a number not to be
\* called again loses everyone's.  What follows is done after this transaction.
logCallTx(c, followUp) ==
    LET l == call[c].lead
        e == call[c].by
        owns == CanMutate(e, call[c].seen)
        dnc == call[c].exit = "DO_NOT_CALL"
        todo == (IF owns /\ call[c].met /\ call[c].seen.status = "ASSIGNED" THEN {"CONTACTED"} ELSE {})
                \cup (IF owns /\ call[c].exit # None THEN {"DROPPED"} ELSE {}) IN
    /\ call[c].op = "log"
    /\ dnc => ~followUp
    /\ callBacks' = closeCallBackTasks(l, IF dnc /\ owns THEN Employees ELSE {e}, callBacks)
                    \cup (IF followUp THEN {<<l, e>>} ELSE {})
    /\ \/ callDays' = [callDays EXCEPT ![l] = IF @ < UnreachableDays THEN @ + 1 ELSE @]
       \/ callDays[l] > 0 /\ UNCHANGED callDays   \* a second call on the same day
    /\ call' = [call EXCEPT ![c] = IF todo = {} THEN Idle ELSE [@ EXCEPT !.op = "next", !.todo = todo]]
    /\ UNCHANGED <<lead, requests, claims, inventory>>

\* The status changes of a logged call are requests of their own, first CONTACTED.
logCallStatus(c) ==
    LET l == call[c].lead
        to == IF "CONTACTED" \in call[c].todo THEN "CONTACTED" ELSE "DROPPED"
        exit == IF to = "DROPPED" THEN call[c].exit ELSE None IN
    /\ call[c].op = "next"
    /\ CanMutate(call[c].by, lead[l])
    /\ \E ctx \in Contexts : StatusChange(l, to, exit, ctx)
    /\ call' = [call EXCEPT ![c] = [@ EXCEPT !.op = "status", !.seen = lead[l], !.goal = to,
                                             !.todo = call[c].todo \ {to}]]
    /\ UNCHANGED requests /\ ReadOnly

-----------------------------------------------------------------------------
(* A customer comes in, or comes back.                                      *)

FirstFree == CHOOSE l \in LeadIds : ~Exists(l)

SamePhone(p) == {l \in LeadIds : lead[l].phone = p}

\* createLead finds no lead with the number ...
createLead(c, e, p) ==
    /\ PostLead(e) /\ SamePhone(p) = {}
    /\ \E l \in LeadIds : ~Exists(l) /\ Begin(c, "create", e, l, p, None, FALSE)

\* Whoever keeps a new lead may add it at the stage it has reached; the call that got it there
\* has a date if the stage means that there was one.
InitialStages ==
    {"ASSIGNED", "CONTACTED", "QUALIFIED", "DEMO_SCHEDULED", "DEMO_COMPLETED",
     "SITE_VISIT_SCHEDULED", "SITE_VISIT_COMPLETED", "NEGOTIATION"}

resolveInitialStage(stage, called) ==
    /\ stage = "ASSIGNED" => ~called
    /\ stage \in {"CONTACTED", "QUALIFIED"} => called

\* The call is on record with the lead (its visit, demo and deal are other components' rows).
applyInitialStage(l, called) ==
    callDays' = IF called THEN [callDays EXCEPT ![l] = 1] ELSE callDays

Added(p, owner, status) == Write(FirstFree, [phone |-> p, owner |-> owner, exit |-> None, status |-> status])

Distributed(owner) == IF owner = None THEN "NEW" ELSE "ASSIGNED"

\* ... and adds one: kept by its creator, given to a colleague, or distributed.
createLeadTx(c) ==
    /\ call[c].op = "create"
    /\ \E l \in LeadIds : ~Exists(l)
    /\ \/ \E stage \in InitialStages, called \in BOOLEAN :
            /\ resolveInitialStage(stage, called)
            /\ Added(call[c].goal, call[c].by, stage)
            /\ applyInitialStage(FirstFree, called)
       \/ \E owner \in BestAssignees \cup Employees :
            /\ Added(call[c].goal, owner, Distributed(owner))
            /\ UNCHANGED callDays
    /\ Done(c)
    /\ UNCHANGED callBacks

\* createLead finds a dropped lead of the number: an automated channel puts it back in the
\* pool, unless the number is not to be called.
MayReturn(row) == ~IsDoNotCall(row)

newEnquiry(c, e, l) ==
    /\ lead[l].status = "DROPPED" /\ MayReturn(lead[l])
    /\ Begin(c, "enquiry", e, l, None, None, FALSE)

newEnquiryTx(c) ==
    LET l == call[c].lead IN
    /\ call[c].op = "enquiry"
    /\ Write(l, [phone |-> lead[l].phone, status |-> "NEW", owner |-> None, exit |-> None])
    /\ Done(c)
    /\ UNCHANGED <<callBacks, callDays>>

\* bulkUploadLeads: the file's numbers are looked up first; one that was dropped is then
\* recovered by updateLeadStatus (its own read and write are one step here).
bulkUploadExisting(c, e, l) ==
    /\ lead[l].status = "DROPPED" /\ MayReturn(lead[l]) /\ PostBulkUpload(e)
    /\ Begin(c, "uploadRecover", e, l, "RECOVERED_TO_POOL", None, FALSE)

bulkUploadRecover(c) ==
    LET l == call[c].lead IN
    /\ call[c].op = "uploadRecover"
    /\ \E ctx \in Contexts : canTransition(lead[l].status, "RECOVERED_TO_POOL", ctx)
    /\ \E next \in BestAssignees :
         transitionLead(l, lead[l], Updated(l, "RECOVERED_TO_POOL", None, next), callBacks)
    /\ Done(c)
    /\ UNCHANGED callDays

\* A number the upload does not know becomes a lead, kept or distributed.
bulkUploadCreate(e, p) ==
    /\ PostBulkUpload(e)
    /\ SamePhone(p) = {} /\ \E l \in LeadIds : ~Exists(l)
    /\ \E owner \in BestAssignees \cup {e} : Added(p, owner, Distributed(owner))
    /\ requests' = requests + 1
    /\ UNCHANGED <<callBacks, callDays, call>>

\* recoverMatchedDroppedLeads: the nightly job, or a property going live, finds a lead that
\* was dropped for want of inventory ...
recoverMatchedDroppedLeads(c, l) ==
    /\ WantsInventory(lead[l])
    /\ \E next \in IF lead[l].owner = None THEN BestAssignees ELSE {lead[l].owner} :
         Begin(c, "inventory", None, l, next, None, FALSE)

\* ... and the conditional update brings it back.
StillWants_Seen(c, l) == WantsInventory(call[c].seen)

StillWants(c, l) == WantsInventory(lead[l])

recoverMatchedUpdate(c) ==
    LET l == call[c].lead
        owner == IF call[c].seen.owner = None THEN call[c].goal ELSE lead[l].owner IN
    /\ call[c].op = "inventory" /\ StillWants(c, l)
    /\ lead' = [lead EXCEPT ![l] = [phone |-> @.phone, owner |-> owner, exit |-> None,
                                    status |-> IF call[c].goal = None THEN "NEW" ELSE "ASSIGNED"]]
    /\ inventory' = [inventory EXCEPT ![l].recoveries = @ + 1]
    /\ claims' = [claims EXCEPT ![l] = IF owner = None THEN 0 ELSE @]
    /\ Done(c)
    /\ UNCHANGED <<callBacks, callDays>>

\* recoverManualLead: whoever calls again takes the lead; management only, if it is not to
\* be called.
recoverManualLead(c, e, l) ==
    /\ PostRecoverManual(e) /\ lead[l].status = "DROPPED"
    /\ IsDoNotCall(lead[l]) => e \in Restorers
    /\ Begin(c, "recover", e, l, None, None, FALSE)

recoverManualLeadTx(c) ==
    LET l == call[c].lead IN
    /\ call[c].op = "recover"
    /\ Write(l, [phone |-> lead[l].phone, status |-> "CONTACTED", owner |-> call[c].by, exit |-> None])
    /\ callDays' = [callDays EXCEPT ![l] = IF @ < UnreachableDays THEN @ + 1 ELSE @]
    /\ Done(c)
    /\ UNCHANGED callBacks

\* recoverFreshLead: a new lead of the same customer; the old one stays as it is.
recoverFreshLead(e, l) ==
    /\ PostRecoverFresh(e)
    /\ lead[l].status = "DROPPED" /\ (IsDoNotCall(lead[l]) => e \in Restorers)
    /\ \E k \in LeadIds : ~Exists(k)
    /\ Write(FirstFree, [phone |-> lead[l].phone, status |-> "CONTACTED", owner |-> e, exit |-> None])
    /\ callDays' = [callDays EXCEPT ![FirstFree] = 1]
    /\ requests' = requests + 1
    /\ UNCHANGED <<callBacks, call>>

Abandon(c) ==
    /\ call[c] # Idle
    /\ Done(c) /\ ReadOnly

-----------------------------------------------------------------------------
Hand(c) ==
    \/ \E e \in Employees, l \in LeadIds : claimLead(c, e, l)
    \/ \E e, to \in Employees, l \in LeadIds :
          reassignLead(c, e, l, to) \/ transferLead(c, e, l, to) \/ moveUploadBatch(c, e, l, to)

Work(c) ==
    \/ \E e \in Employees, l \in LeadIds, to \in LeadStatus :
         \E exit \in IF to = "DROPPED" THEN ExitReason ELSE {None} : updateLeadStatus(c, e, l, to, exit)
    \/ \E e \in Employees, l \in LeadIds, met \in BOOLEAN :
         \E drop \in IF met THEN {None, "DO_NOT_CALL", "OTHER"} ELSE {None} : logCall(c, e, l, met, drop)

Return(c) ==
    \/ \E e \in Employees, p \in Phones : createLead(c, e, p)
    \/ \E e \in Employees, l \in LeadIds :
          newEnquiry(c, e, l) \/ bulkUploadExisting(c, e, l) \/ recoverManualLead(c, e, l)
    \/ \E l \in LeadIds : recoverMatchedDroppedLeads(c, l)

Commit(c) ==
    \/ claimLeadTx(c) \/ reassignLeadTx(c) \/ moveLeadOwnership(c) \/ moveUploadBatchTx(c)
    \/ \E f \in BOOLEAN : logCallTx(c, f)
    \/ updateLeadStatusTx(c) \/ logCallStatus(c)
    \/ createLeadTx(c) \/ newEnquiryTx(c) \/ bulkUploadRecover(c)
    \/ recoverMatchedUpdate(c) \/ recoverManualLeadTx(c) \/ Abandon(c)

Idling == {c \in Calls : call[c] = Idle}

Next ==
    \/ \E c \in Calls : Commit(c)
    \/ /\ requests < MaxRequests
       /\ \/ \E c \in Idling : Hand(c) \/ Work(c) \/ Return(c)
          \/ \E e \in Employees : \/ \E p \in Phones : bulkUploadCreate(e, p)
                                  \/ \E l \in LeadIds : recoverFreshLead(e, l)

Spec == Init /\ [][Next]_vars

-----------------------------------------------------------------------------
\* Two employees who claim a free lead at once: the conditional update of claimLead gives it
\* to one of them.
ClaimedOnce == \A l \in LeadIds : claims[l] <= 1

\* A lead dropped for want of inventory is brought back at most once for each drop, whichever
\* of the nightly job and the property's going live comes first.
RecoveredOnce == \A l \in LeadIds : inventory[l].recoveries <= inventory[l].drops

\* A lead that changes hands by a transfer, a reassignment or a recovery leaves no open
\* call-back with the owner the handler saw.
HandedOver ==
    [][\A c \in Calls, l \in LeadIds :
         /\ call[c].lead = l /\ call'[c] # call[c]
         /\ call[c].op \in {"reassign", "transfer", "status", "uploadRecover"}
         /\ lead'[l].owner # lead[l].owner /\ lead[l].owner = call[c].seen.owner
         => <<l, lead[l].owner>> \notin callBacks']_vars

(* Statements of the repository that the handlers do not keep: README, section 8.            *)

\* A dropped lead says why (lead.workflow.ts: a drop requires an exit reason).
DroppedHasReason == \A l \in LeadIds : lead[l].status = "DROPPED" => lead[l].exit # None

\* "A do not call lead may be brought back only by management" (recovery.ts:10).
BroughtBackByManagement ==
    [][\A c \in Calls, l \in LeadIds :
         /\ call[c].lead = l /\ call'[c] # call[c]
         /\ lead[l].status = "DROPPED" /\ IsDoNotCall(lead[l]) /\ lead'[l].status # "DROPPED"
         => call[c].by \in Restorers]_vars
=============================================================================
