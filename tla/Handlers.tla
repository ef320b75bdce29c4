------------------------------ MODULE Handlers ------------------------------
(***************************************************************************)
(* The handlers of the HTTP routes, as the component modules share them: a *)
(* handler checks its request on rows it reads, then writes, one statement *)
(* or transaction after another; every await between them lets the other   *)
(* handlers run.  A handler that does all it does in one statement or one  *)
(* transaction is one step (Serve).                                        *)
(***************************************************************************)
EXTENDS Naturals, FiniteSets, Sequences

CONSTANTS
    Calls,         \* handlers running at once
    MaxRequests    \* bound: handlers started

VARIABLES
    call,          \* what the running handlers still have to do
    requests,      \* handlers started
    disturbed      \* history: two handlers overlapped, or one stopped half-way

running == <<call, requests, disturbed>>

Idle == [op |-> "IDLE"]
Idling == {c \in Calls : call[c] = Idle}
AtRest == Idling = Calls

HandlersInit ==
    /\ call = [c \in Calls |-> Idle]
    /\ requests = 0
    /\ disturbed = FALSE

\* A request has been read and checked; `job' is what its handler will do.
Begin(c, job) ==
    /\ requests' = requests + 1
    /\ disturbed' = (disturbed \/ ~AtRest)
    /\ call' = [call EXCEPT ![c] = job]

\* The handler goes on with another part of its work ...
Continue(c, job) == call' = [call EXCEPT ![c] = job] /\ UNCHANGED <<requests, disturbed>>

\* ... or is done.
Finish(c) == Continue(c, Idle)

Serve(c) == Begin(c, Idle)

\* A job is a record with the step it is at, `op', and the steps after it, `then'.
Done(c) ==
    LET job == call[c] IN
    Continue(c, IF job.then = <<>> THEN Idle
                ELSE [job EXCEPT !.op = Head(job.then), !.then = Tail(job.then)])

\* A statement fails, or the process stops, before the next step.
Abandon(c) ==
    /\ call[c] # Idle
    /\ call' = [call EXCEPT ![c] = Idle]
    /\ disturbed' = TRUE
    /\ UNCHANGED requests

\* No handler has ever been disturbed, and none is running.
Undisturbed == AtRest /\ ~disturbed
=============================================================================
