------------------------------ MODULE WorkTasks ------------------------------
(***************************************************************************)
(* Tasks (routes/tasks.ts, task.service.ts, taskOverdue.ts): given to an   *)
(* employee, finished with an outcome, reported as not done and reviewed,  *)
(* flipped to OVERDUE by a sweep, awarded once.                            *)
(*                                                                         *)
(* Abstracted: titles, leads and opportunities they belong to, target      *)
(* times (the sweep may find any open task late), notifications.           *)
(***************************************************************************)
EXTENDS Handlers

CONSTANTS
    Doers,         \* employees
    Chiefs,        \* MD and ADMIN (a manager of the assignee may act on a task as they do)
    Tasks

VARIABLES
    task,          \* the rows
    awards         \* TASK_COMPLETED audit rows of a task: points given

worktasks == <<task, awards>>

NoTask == [status |-> "ABSENT", by |-> {}, for |-> {}, reviewed |-> FALSE]
REVIEWABLE_TASK_STATUSES == {"NOT_COMPLETED", "BLOCKED"}
OPEN_TASK_STATUSES == {"PENDING", "IN_PROGRESS"}

TasksTypeOK ==
    /\ task \in [Tasks -> [status : {"ABSENT", "OVERDUE", "COMPLETED", "CANCELLED"} \cup OPEN_TASK_STATUSES
                                      \cup REVIEWABLE_TASK_STATUSES,
                           by : SUBSET Doers, for : SUBSET Doers, reviewed : BOOLEAN]]
    /\ awards \in [Tasks -> Nat]

TasksInit == task = [t \in Tasks |-> NoTask] /\ awards = [t \in Tasks |-> 0]

\* policies/task.policy.ts
canMutateSync(e, t) == e \in Chiefs \/ e \in task[t].by \cup task[t].for
loadTaskForUpdate(e, t) == task[t] # NoTask /\ canMutateSync(e, t)
SelfAssigned(row) == row.by = row.for

(* The routes.                                                              *)
PatchTaskStatus(e, t) == loadTaskForUpdate(e, t) /\ task[t].status \notin REVIEWABLE_TASK_STATUSES
PostFinish(e, t) ==
    loadTaskForUpdate(e, t) /\ task[t].status \notin {"COMPLETED", "CANCELLED"} \cup REVIEWABLE_TASK_STATUSES
PostReview(e, t) ==
    /\ task[t].status \in REVIEWABLE_TASK_STATUSES /\ ~task[t].reviewed
    /\ e \in task[t].by \cup Chiefs

\* `row' is what the update by id will leave, as far as it says; `keep' what it does not.
TaskJob(op, t, status, reviewed, then) ==
    [op |-> op, on |-> t, status |-> status, reviewed |-> reviewed, then |-> then]

Look(c, job) == Begin(c, job) /\ UNCHANGED worktasks

\* POST /tasks
createTask(c, e, to, t) ==
    /\ task[t] = NoTask
    /\ task' = [task EXCEPT ![t] = [status |-> "PENDING", by |-> {e}, for |-> {to}, reviewed |-> FALSE]]
    /\ Serve(c)
    /\ UNCHANGED awards

\* A completion is followed by its award.
Awarded(row, to) == IF to = "COMPLETED" /\ row.status # "COMPLETED" THEN <<"award">> ELSE <<>>

\* PATCH /tasks/:id/status leaves the review as it is.
patchStatus(c, e, t, to) ==
    /\ PatchTaskStatus(e, t)
    /\ Look(c, TaskJob("status", t, to, FALSE, Awarded(task[t], to)))

\* finishTask: an employee's own report needs nobody's review.
finishTask(c, e, t, outcome) ==
    /\ PostFinish(e, t)
    /\ LET to == IF outcome = "NEED_MORE_TIME" THEN "PENDING" ELSE outcome IN
       Look(c, TaskJob("finish", t, to, outcome \in REVIEWABLE_TASK_STATUSES /\ SelfAssigned(task[t]),
                       Awarded(task[t], to)))

\* reviewTask: accepted, or sent back.
reviewTask(c, e, t) ==
    /\ PostReview(e, t)
    /\ \E to \in {"PENDING", "AS_REPORTED"} : Look(c, TaskJob("review", t, to, TRUE, <<>>))

writeTask(c) ==
    LET job == call[c]
        row == task[job.on] IN
    /\ job.op \in {"status", "finish", "review"}
    /\ task' = [task EXCEPT ![job.on] =
                  [row EXCEPT !.status = IF job.status = "AS_REPORTED" THEN row.status ELSE job.status,
                              !.reviewed = IF job.op = "status" THEN row.reviewed ELSE job.reviewed]]
    /\ Done(c)
    /\ UNCHANGED awards

\* awardTaskCompletion: no point for a task of one's own, nor for one that had it; the
\* count and the row that follows are two statements.
AlreadyAwarded_Never(t) == FALSE
AlreadyAwarded(t) == awards[t] > 0

awardTaskCompletion(c) ==
    LET t == call[c].on IN
    /\ call[c].op = "award"
    /\ IF SelfAssigned(task[t]) \/ AlreadyAwarded(t)
       THEN Finish(c)
       ELSE Continue(c, TaskJob("point", t, "COMPLETED", FALSE, <<>>))
    /\ UNCHANGED worktasks

givePoint(c) ==
    /\ call[c].op = "point"
    /\ awards' = [awards EXCEPT ![call[c].on] = awards[call[c].on] + 1]
    /\ Done(c)
    /\ UNCHANGED task

\* sweepOverdueTasks: one conditional statement.
sweepOverdueTasks(t) ==
    /\ task[t].status \in OPEN_TASK_STATUSES
    /\ task' = [task EXCEPT ![t].status = "OVERDUE"]
    /\ UNCHANGED <<running, awards>>

TaskRequests(c) ==
    \E e \in Doers, t \in Tasks :
        \/ \E to \in Doers : createTask(c, e, to, t)
        \/ \E to \in {"PENDING", "IN_PROGRESS", "COMPLETED", "OVERDUE"} : patchStatus(c, e, t, to)
        \/ \E outcome \in {"COMPLETED", "NEED_MORE_TIME"} \cup REVIEWABLE_TASK_STATUSES :
             finishTask(c, e, t, outcome)
        \/ reviewTask(c, e, t)

TaskCommits(c) == writeTask(c) \/ awardTaskCompletion(c) \/ givePoint(c)

-----------------------------------------------------------------------------
(* Properties.                                                              *)

\* "+1.0 performance point ... once per task" (task.service.ts:27-28): however often a
\* task is completed and reopened, as long as the requests do not overlap.
PointOnceInTurn == ~disturbed => \A t \in Tasks : awards[t] <= 1

\* The same without that condition: the count is read before the row is written.
PointOnce == \A t \in Tasks : awards[t] <= 1
=============================================================================
