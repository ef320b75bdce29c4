----------------------------- MODULE Complaints -----------------------------
(***************************************************************************)
(* Customer complaints (complaint.service.ts): one map of transitions, and *)
(* handlers that check the row they read and write by id.                  *)
(*                                                                         *)
(* Abstracted: the text, the priority and the linked rows, the complaint's *)
(* code (a clash is retried inside create), the audit rows.                *)
(***************************************************************************)
EXTENDS Handlers

CONSTANTS
    Complaint,     \* complaints
    Helpers,       \* employees who may be assigned
    Nobody

VARIABLES
    complaint,     \* the rows: [status, helper, answered (resolved_by)]
    settled,       \* history: resolved since it was last opened
    answers        \* customerNotification rows of a complaint

complaints == <<complaint, settled, answers>>

NoComplaint == [status |-> "ABSENT", helper |-> Nobody, answered |-> FALSE, closed |-> FALSE]
Open == {"OPEN", "IN_PROGRESS", "REOPENED"}

ComplaintsTypeOK ==
    /\ complaint \in [Complaint -> [status : Open \cup {"ABSENT", "RESOLVED", "CLOSED"},
                                    helper : Helpers \cup {Nobody}, answered : BOOLEAN,
                                    closed : BOOLEAN]]
    /\ settled \subseteq Complaint
    /\ answers \in [Complaint -> Nat]

ComplaintsInit ==
    /\ complaint = [k \in Complaint |-> NoComplaint]
    /\ settled = {}
    /\ answers = [k \in Complaint |-> 0]

TRANSITIONS_Shortcut ==
    {<<"OPEN", "IN_PROGRESS">>, <<"OPEN", "RESOLVED">>, <<"IN_PROGRESS", "RESOLVED">>, <<"OPEN", "CLOSED">>,
     <<"RESOLVED", "CLOSED">>, <<"CLOSED", "REOPENED">>, <<"REOPENED", "IN_PROGRESS">>, <<"REOPENED", "RESOLVED">>}
TRANSITIONS ==
    {<<"OPEN", "IN_PROGRESS">>, <<"OPEN", "RESOLVED">>, <<"IN_PROGRESS", "RESOLVED">>,
     <<"RESOLVED", "CLOSED">>, <<"CLOSED", "REOPENED">>, <<"REOPENED", "IN_PROGRESS">>,
     <<"REOPENED", "RESOLVED">>}

(* The routes each hand the request to the service.                         *)
PostComplaint(k) == complaint[k] = NoComplaint
PatchComplaintStatus(k, to) == <<complaint[k].status, to>> \in TRANSITIONS
PatchComplaintAssign(k) == complaint[k].status \in Open
PatchComplaintResolve(k) == complaint[k].status \in Open
PatchComplaintClose(k) == complaint[k].status = "RESOLVED"

ComplaintJob(op, k, to, e) == [op |-> op, on |-> k, to |-> to, who |-> e, then |-> <<>>]
Asked(c, job) == Begin(c, job) /\ UNCHANGED complaints

\* create
createComplaint(c, k, e) ==
    /\ PostComplaint(k)
    /\ complaint' = [complaint EXCEPT ![k] = [NoComplaint EXCEPT !.status = "OPEN", !.helper = e]]
    /\ Serve(c)
    /\ UNCHANGED <<settled, answers>>

assign(c, k, e) == PatchComplaintAssign(k) /\ Asked(c, ComplaintJob("assign", k, "OPEN", e))
changeStatus(c, k, to) == PatchComplaintStatus(k, to) /\ Asked(c, ComplaintJob("status", k, to, Nobody))
resolve(c, k) == PatchComplaintResolve(k) /\ Asked(c, ComplaintJob("resolve", k, "RESOLVED", Nobody))
close(c, k) == PatchComplaintClose(k) /\ Asked(c, ComplaintJob("close", k, "CLOSED", Nobody))

assignTx(c) ==
    /\ call[c].op = "assign"
    /\ complaint' = [complaint EXCEPT ![call[c].on].helper = call[c].who]
    /\ Done(c)
    /\ UNCHANGED <<settled, answers>>

\* What a new status means for the history.
Settled(k, to) ==
    IF to = "RESOLVED" THEN settled \cup {k} ELSE IF to = "REOPENED" THEN settled \ {k} ELSE settled

statusTx(c) ==
    LET k == call[c].on IN
    /\ call[c].op = "status"
    /\ complaint' = [complaint EXCEPT ![k].status = call[c].to]
    /\ settled' = Settled(k, call[c].to)
    /\ Done(c)
    /\ UNCHANGED answers

\* The answer and the customer's notification are written together.
resolveTx(c) ==
    LET k == call[c].on IN
    /\ call[c].op = "resolve"
    /\ complaint' = [complaint EXCEPT ![k].status = "RESOLVED", ![k].answered = TRUE]
    /\ settled' = Settled(k, "RESOLVED")
    /\ answers' = [answers EXCEPT ![k] = answers[k] + 1]
    /\ Done(c)

closeTx(c) ==
    LET k == call[c].on IN
    /\ call[c].op = "close"
    /\ complaint' = [complaint EXCEPT ![k].status = "CLOSED", ![k].closed = TRUE]
    /\ Done(c)
    /\ UNCHANGED <<settled, answers>>

ComplaintRequests(c) ==
    \E k \in Complaint :
        \/ \E e \in Helpers \cup {Nobody} : createComplaint(c, k, e)
        \/ \E e \in Helpers : assign(c, k, e)
        \/ \E to \in {pair[2] : pair \in TRANSITIONS} : changeStatus(c, k, to)
        \/ resolve(c, k) \/ close(c, k)

ComplaintCommits(c) == assignTx(c) \/ statusTx(c) \/ resolveTx(c) \/ closeTx(c)

-----------------------------------------------------------------------------
(* Properties.                                                              *)

\* Handled one request at a time, a complaint is closed only if it was resolved since
\* it was last opened, through however many closings and reopenings.
ClosedWasResolved ==
    ~disturbed => \A k \in Complaint : complaint[k].status = "CLOSED" => k \in settled
=============================================================================
