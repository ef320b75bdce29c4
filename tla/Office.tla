------------------------------- MODULE Office -------------------------------
(***************************************************************************)
(* The back office: the deals of a lead, expense refunds, complaints,      *)
(* tasks, leavers, sign-ins, and the master data the telecallers work on.  *)
(* These share the way handlers run and no row, so a behaviour is about    *)
(* one of them and the others stay as they began.                          *)
(***************************************************************************)
EXTENDS Deals, Expenses, Complaints, WorkTasks, Employees, SignIns, MasterLeads

CONSTANT Share   \* bound: how many of the MaxRequests handlers a part may start

VARIABLE part    \* which of them this behaviour is about

vars == <<running, deals, expenses, complaints, worktasks, people, signins, masterdata, part>>

Parts == {"DEALS", "EXPENSES", "COMPLAINTS", "TASKS", "PEOPLE", "SIGNINS", "MASTER"}

\* The parts a behaviour is not about have the type they began with.
TypeOK ==
    CASE part = "DEALS" -> DealsTypeOK
      [] part = "EXPENSES" -> ExpensesTypeOK
      [] part = "COMPLAINTS" -> ComplaintsTypeOK
      [] part = "TASKS" -> TasksTypeOK
      [] part = "PEOPLE" -> PeopleTypeOK
      [] part = "SIGNINS" -> SignInsTypeOK
      [] part = "MASTER" -> MasterTypeOK

Init ==
    /\ HandlersInit
    /\ DealsInit /\ ExpensesInit /\ ComplaintsInit /\ TasksInit /\ PeopleInit /\ SignInsInit /\ MasterInit
    /\ part \in Parts
    /\ part # "DEALS" => LET s == CHOOSE s \in StartDeals : TRUE IN lead = s.lead /\ opportunity = s.opps
    /\ part # "PEOPLE" => \A e \in Workers : person[e] = InService

\* A handler may be started, goes on, or stops half-way.
Accepting == {c \in Idling : requests < MaxRequests /\ requests < Share[part]}

DealsNext ==
    /\ part = "DEALS"
    /\ \/ \E c \in Accepting : DealRequests(c)
       \/ \E c \in Calls : DealCommits(c) \/ (Abandon(c) /\ UNCHANGED deals)
       \/ DealsAround
    /\ UNCHANGED <<expenses, complaints, worktasks, people, signins, masterdata, part>>

ExpensesNext ==
    /\ part = "EXPENSES"
    /\ \/ \E c \in Accepting : ExpenseRequests(c)
       \/ \E c \in Calls : decide(c) \/ (Abandon(c) /\ UNCHANGED expenses)
    /\ UNCHANGED <<deals, complaints, worktasks, people, signins, masterdata, part>>

ComplaintsNext ==
    /\ part = "COMPLAINTS"
    /\ \/ \E c \in Accepting : ComplaintRequests(c)
       \/ \E c \in Calls : ComplaintCommits(c) \/ (Abandon(c) /\ UNCHANGED complaints)
    /\ UNCHANGED <<deals, expenses, worktasks, people, signins, masterdata, part>>

TasksNext ==
    /\ part = "TASKS"
    /\ \/ \E c \in Accepting : TaskRequests(c)
       \/ \E c \in Calls : TaskCommits(c) \/ (Abandon(c) /\ UNCHANGED worktasks)
       \/ \E t \in Tasks : sweepOverdueTasks(t)
    /\ UNCHANGED <<deals, expenses, complaints, people, signins, masterdata, part>>

PeopleNext ==
    /\ part = "PEOPLE"
    /\ \/ \E c \in Accepting : PeopleRequests(c)
       \/ \E c \in Calls : PeopleCommits(c) \/ (Abandon(c) /\ UNCHANGED people)
       \/ \E e \in Workers : lastDayPasses(e)
    /\ UNCHANGED <<deals, expenses, complaints, worktasks, signins, masterdata, part>>

SignInsNext ==
    /\ part = "SIGNINS"
    /\ \/ \E c \in Accepting : KeyRequests(c)
       \/ \E c \in Calls : KeyCommits(c) \/ (Abandon(c) /\ UNCHANGED signins)
       \/ KeysAround
    /\ UNCHANGED <<deals, expenses, complaints, worktasks, people, masterdata, part>>

MasterDataNext ==
    /\ part = "MASTER"
    /\ MasterNext
    /\ UNCHANGED <<running, deals, expenses, complaints, worktasks, people, signins, part>>

Next == DealsNext \/ ExpensesNext \/ ComplaintsNext \/ TasksNext \/ PeopleNext \/ SignInsNext
        \/ MasterDataNext

Spec == Init /\ [][Next]_vars

-----------------------------------------------------------------------------
\* However often a piece of work is opened again, each closing earns what it should: a task
\* one point in all, a complaint a resolution of its own.
ReopeningsSound == PointOnceInTurn /\ ClosedWasResolved
=============================================================================
