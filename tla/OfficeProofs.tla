---------------------------- MODULE OfficeProofs ----------------------------
(***************************************************************************)
(* What is proved of the back office, for any people, rows and handlers:   *)
(* expense refunds, complaints and tasks, leavers, conversions, sign-ins,  *)
(* master data, and the types of all of them.                              *)
(***************************************************************************)
EXTENDS Office, FiniteSetTheorems, SequenceTheorems, TLAPS

\* Only its own part moves.
LEMMA PartOnly ==
  ASSUME [Next]_vars
  PROVE  /\ part' = part
         /\ part # "EXPENSES" => UNCHANGED expenses
         /\ part = "EXPENSES" => ExpensesNext \/ UNCHANGED <<running, expenses>>
         /\ part # "COMPLAINTS" => UNCHANGED complaints
         /\ part = "COMPLAINTS" => ComplaintsNext \/ UNCHANGED <<running, complaints>>
         /\ part # "TASKS" => UNCHANGED worktasks
         /\ part = "TASKS" => TasksNext \/ UNCHANGED <<running, worktasks>>
         /\ part # "PEOPLE" => UNCHANGED people
         /\ part = "PEOPLE" => PeopleNext \/ UNCHANGED <<running, people>>
         /\ part # "DEALS" => UNCHANGED deals
         /\ part = "DEALS" => DealsNext \/ UNCHANGED <<running, deals>>
<1>1. CASE UNCHANGED vars
  BY <1>1 DEF vars
<1>2. CASE Next
  BY <1>2 DEF Next, DealsNext, ExpensesNext, ComplaintsNext, TasksNext, PeopleNext, SignInsNext,
              MasterDataNext
<1> QED
  BY <1>1, <1>2

LEMMA AcceptingAreCalls == \A c \in Accepting : c \in Calls /\ call[c] = Idle
  BY DEF Accepting, Idling

-----------------------------------------------------------------------------
(* One handler at a time, as long as nothing was disturbed.                 *)

CallsAre(J) == call \in [Calls -> J \cup {Idle}]
InTurn == ~disturbed => \A c, d \in Calls : call[c] # Idle /\ call[d] # Idle => c = d

LEMMA BeginsInTurn ==
  ASSUME NEW J, CallsAre(J), InTurn, NEW c \in Accepting, NEW job \in J \cup {Idle}, Begin(c, job)
  PROVE  /\ CallsAre(J)' /\ InTurn'
         /\ ~disturbed' => ~disturbed /\ \A d \in Calls : call[d] = Idle
         /\ c \in Calls /\ call'[c] = job
         /\ \A d \in Calls \ {c} : call'[d] = call[d]
<1>1. /\ c \in Calls /\ call[c] = Idle
      /\ call' = [call EXCEPT ![c] = job]
  BY AcceptingAreCalls DEF Begin
<1>2. CallsAre(J)' /\ call'[c] = job /\ \A d \in Calls \ {c} : call'[d] = call[d]
  BY <1>1 DEF CallsAre
<1>3. ~disturbed' => ~disturbed /\ \A d \in Calls : call[d] = Idle
  BY DEF Begin, AtRest, Idling
<1>4. InTurn'
  BY <1>2, <1>3 DEF InTurn
<1> QED
  BY <1>1, <1>2, <1>3, <1>4

LEMMA ContinuesInTurn ==
  ASSUME NEW J, CallsAre(J), InTurn, NEW c \in Calls, call[c] # Idle, NEW job \in J \cup {Idle},
         Continue(c, job)
  PROVE  /\ CallsAre(J)' /\ InTurn'
         /\ disturbed' = disturbed
         /\ call'[c] = job
         /\ \A d \in Calls \ {c} : call'[d] = call[d] /\ (~disturbed => call[d] = Idle)
<1>1. call' = [call EXCEPT ![c] = job] /\ disturbed' = disturbed
  BY DEF Continue
<1>2. CallsAre(J)' /\ call'[c] = job /\ \A d \in Calls \ {c} : call'[d] = call[d]
  BY <1>1 DEF CallsAre
<1>3. InTurn' /\ \A d \in Calls \ {c} : ~disturbed => call[d] = Idle
  BY <1>1, <1>2 DEF InTurn
<1> QED
  BY <1>1, <1>2, <1>3

LEMMA AbandonsInTurn ==
  ASSUME NEW J, CallsAre(J), NEW c \in Calls, Abandon(c)
  PROVE  CallsAre(J)' /\ InTurn' /\ disturbed' /\ \A d \in Calls : call'[d] = call[d] \/ call'[d] = Idle
  BY DEF CallsAre, InTurn, Abandon

LEMMA RestsInTurn ==
  ASSUME NEW J, CallsAre(J), InTurn, UNCHANGED running
  PROVE  CallsAre(J)' /\ InTurn'
  BY DEF CallsAre, InTurn, running

LEMMA StartsInTurn ==
  ASSUME NEW J, HandlersInit
  PROVE  CallsAre(J) /\ InTurn /\ ~disturbed /\ \A c \in Calls : call[c] = Idle
  BY DEF CallsAre, InTurn, HandlersInit

-----------------------------------------------------------------------------
(* Expense refunds.                                                         *)

\* The audit row of a decision that somebody else than the claimant took.
Has(r, action) ==
    \E row \in trail : row.on = r /\ row.action = action /\ row.who # refund[r].by

ExpenseJob == [op : {"decide"}, on : Refunds, who : Deciders, action : DecisionActions, then : {<<>>}]
ExpenseJobs == call \in [Calls -> ExpenseJob \cup {Idle}]

ExpenseRows == refund \in [Refunds ->
           [status : {"ABSENT", "PENDING", "ACCOUNTANT_APPROVED", "REJECTED_BY_ACCOUNTANT",
                      "MD_APPROVED", "REJECTED_BY_MD", "REFUNDED"},
            by : Claimants \cup {Absent}, accountant : Deciders \cup {Absent},
            md : Deciders \cup {Absent}, payer : Deciders \cup {Absent}]]

\* What a decision rests on was there when it was checked, and audit rows stay.
Founded(r, action) ==
    /\ action \in {"MD_APPROVE", "MD_REJECT", "MARK_REFUNDED"} => Has(r, "ACCOUNTANT_APPROVE")
    /\ action = "MARK_REFUNDED" => Has(r, "MD_APPROVE")

DecisionsFounded ==
    \A c \in Calls : call[c] # Idle =>
        /\ refund[call[c].on].status # "ABSENT"
        /\ call[c].who # refund[call[c].on].by
        /\ Founded(call[c].on, call[c].action)

StatusFounded ==
    \A r \in Refunds :
        /\ refund[r].status \in {"ACCOUNTANT_APPROVED", "MD_APPROVED", "REFUNDED"} =>
             Has(r, "ACCOUNTANT_APPROVE")
        /\ refund[r].status \in {"MD_APPROVED", "REFUNDED"} => Has(r, "MD_APPROVE")
        /\ refund[r].status = "REFUNDED" => refund[r].payer # refund[r].by

\* A behaviour about another part leaves the refunds as they began.
ExpensesInv ==
    /\ part # "EXPENSES" => refund = [r \in Refunds |-> NoRefund]
    /\ part = "EXPENSES" => ExpenseJobs /\ ExpenseRows /\ DecisionsFounded /\ StatusFounded

LEMMA ExpensesBegin ==
  ASSUME Init
  PROVE  ExpensesInv
<1>1. refund = [r \in Refunds |-> NoRefund] /\ call = [c \in Calls |-> Idle]
  BY DEF Init, HandlersInit, ExpensesInit
<1>2. ExpenseJobs /\ ExpenseRows /\ DecisionsFounded /\ StatusFounded
  BY <1>1 DEF ExpenseJobs, ExpenseRows, DecisionsFounded, StatusFounded, NoRefund, Refund
<1> QED
  BY <1>1, <1>2 DEF ExpensesInv

\* Nobody loses an audit row, and a claim keeps its claimant.
LEMMA HasStays ==
  ASSUME trail \subseteq trail', NEW r \in Refunds, refund'[r].by = refund[r].by, NEW action,
         Has(r, action)
  PROVE  Has(r, action)'
  BY DEF Has

\* A claim is entered.
LEMMA RefundCreated ==
  ASSUME ExpenseJobs, ExpenseRows, DecisionsFounded, StatusFounded,
         NEW c \in Calls, NEW e \in Claimants, NEW r \in Refunds, createRefund(c, e, r)
  PROVE  (ExpenseJobs /\ ExpenseRows /\ DecisionsFounded /\ StatusFounded)'
<1> DEFINE new == Refund("PENDING", e)
<1>1. /\ refund[r].status = "ABSENT" /\ trail' = trail
      /\ refund' = [refund EXCEPT ![r] = new]
      /\ call' = [call EXCEPT ![c] = Idle]
  BY DEF createRefund, Serve, Begin, NoRefund, Refund
<1>2. /\ new.status = "PENDING"
      /\ new \in [status : {"PENDING"}, by : Claimants, accountant : {Absent}, md : {Absent},
                  payer : {Absent}]
  BY DEF Refund
<1> HIDE DEF new
<1>3. ExpenseJobs' /\ ExpenseRows'
  BY <1>1, <1>2 DEF ExpenseJobs, ExpenseRows
<1>4. \A s \in Refunds \ {r} : refund'[s] = refund[s]
  BY <1>1 DEF ExpenseRows
<1>5. DecisionsFounded'
  <2> SUFFICES ASSUME NEW d \in Calls, call'[d] # Idle
               PROVE  /\ refund'[call'[d].on].status # "ABSENT"
                      /\ call'[d].who # refund'[call'[d].on].by
                      /\ Founded(call[d].on, call[d].action)'
    BY DEF DecisionsFounded
  <2>1. call'[d] = call[d] /\ call[d] # Idle
    BY <1>1 DEF ExpenseJobs
  <2>2. call[d].on \in Refunds \ {r}
    BY <2>1, <1>1 DEF ExpenseJobs, ExpenseJob, DecisionsFounded
  <2> QED
    BY <2>1, <2>2, <1>1, <1>4 DEF DecisionsFounded, Founded, Has
<1>6. StatusFounded'
  <2>1. refund'[r].status = "PENDING"
    BY <1>1, <1>2 DEF ExpenseRows
  <2> QED
    BY <2>1, <1>1, <1>4 DEF StatusFounded, Has
<1> QED
  BY <1>3, <1>5, <1>6

\* A decision has been checked.
LEMMA DecisionChecked ==
  ASSUME ExpenseJobs, ExpenseRows, DecisionsFounded, StatusFounded,
         NEW c \in Calls, NEW e \in Deciders, NEW r \in Refunds, NEW action \in DecisionActions,
         refund[r].by # e, Decide(c, e, r, action)
  PROVE  (ExpenseJobs /\ ExpenseRows /\ DecisionsFounded /\ StatusFounded)'
<1> DEFINE job == [op |-> "decide", on |-> r, who |-> e, action |-> action, then |-> <<>>]
<1>1. /\ <<refund[r].status, action>> \in validExpenseTransitions
      /\ call' = [call EXCEPT ![c] = job]
      /\ refund' = refund /\ trail' = trail
  BY DEF Decide, Begin, expenses
<1>2. job \in ExpenseJob /\ job.on = r /\ job.who = e /\ job.action = action
  BY DEF ExpenseJob
<1>3. refund[r].status # "ABSENT" /\ Founded(r, action)
  BY <1>1 DEF validExpenseTransitions, StatusFounded, Founded
<1> HIDE DEF job
<1>4. ExpenseJobs' /\ ExpenseRows' /\ StatusFounded'
  BY <1>1, <1>2 DEF ExpenseJobs, ExpenseRows, StatusFounded, Has
<1>5. DecisionsFounded'
  <2> SUFFICES ASSUME NEW d \in Calls, call'[d] # Idle
               PROVE  /\ refund[call'[d].on].status # "ABSENT"
                      /\ call'[d].who # refund[call'[d].on].by
                      /\ Founded(call'[d].on, call'[d].action)
    BY <1>1 DEF DecisionsFounded, Founded, Has
  <2>1. CASE d = c
    BY <2>1, <1>1, <1>2, <1>3 DEF ExpenseJobs
  <2>2. CASE d # c
    BY <2>2, <1>1 DEF ExpenseJobs, DecisionsFounded
  <2> QED
    BY <2>1, <2>2
<1> QED
  BY <1>4, <1>5

\* What a decision writes.
LEMMA RuledRow ==
  ASSUME ExpenseRows, NEW r \in Refunds, NEW action \in DecisionActions, NEW e \in Deciders
  PROVE  LET new == Ruled(refund[r], action, e)
         IN /\ new \in [status : {"ACCOUNTANT_APPROVED", "REJECTED_BY_ACCOUNTANT", "MD_APPROVED",
                                  "REJECTED_BY_MD", "REFUNDED"},
                        by : Claimants \cup {Absent}, accountant : Deciders \cup {Absent},
                        md : Deciders \cup {Absent}, payer : Deciders \cup {Absent}]
            /\ new.by = refund[r].by
            /\ new.status = "ACCOUNTANT_APPROVED" <=> action = "ACCOUNTANT_APPROVE"
            /\ new.status = "MD_APPROVED" <=> action = "MD_APPROVE"
            /\ new.status = "REFUNDED" <=> action = "MARK_REFUNDED"
            /\ action = "MARK_REFUNDED" => new.payer = e
<1>1. CASE action = "ACCOUNTANT_APPROVE"
  BY <1>1 DEF Ruled, Outcome, ExpenseRows
<1>2. CASE action = "ACCOUNTANT_REJECT"
  BY <1>2 DEF Ruled, Outcome, ExpenseRows
<1>3. CASE action = "MD_APPROVE"
  BY <1>3 DEF Ruled, Outcome, ExpenseRows
<1>4. CASE action = "MD_REJECT"
  BY <1>4 DEF Ruled, Outcome, ExpenseRows
<1>5. CASE action = "MARK_REFUNDED"
  BY <1>5 DEF Ruled, Outcome, ExpenseRows
<1> QED
  BY <1>1, <1>2, <1>3, <1>4, <1>5 DEF DecisionActions

\* A decision is written, whatever has become of the row since it was checked.
LEMMA DecisionWritten ==
  ASSUME ExpenseJobs, ExpenseRows, DecisionsFounded, StatusFounded, NEW c \in Calls, decide(c)
  PROVE  (ExpenseJobs /\ ExpenseRows /\ DecisionsFounded /\ StatusFounded)'
<1>1. call[c] \in ExpenseJob
  BY DEF decide, ExpenseJobs, Idle
<1>2. PICK r \in Refunds, e \in Deciders, action \in DecisionActions :
        call[c].on = r /\ call[c].who = e /\ call[c].action = action /\ call[c].then = <<>>
  BY <1>1 DEF ExpenseJob
<1> DEFINE new == Ruled(refund[r], action, e)
<1>3. /\ refund' = [refund EXCEPT ![r] = new]
      /\ trail' = trail \cup {[on |-> r, action |-> action, who |-> e]}
      /\ call' = [call EXCEPT ![c] = Idle]
  BY <1>2 DEF decide, Done, Continue
<1>4. e # refund[r].by /\ Founded(r, action) /\ refund[r].status # "ABSENT"
  BY <1>1, <1>2 DEF DecisionsFounded, ExpenseJob, Idle
<1>5. /\ new \in [status : {"ACCOUNTANT_APPROVED", "REJECTED_BY_ACCOUNTANT", "MD_APPROVED",
                            "REJECTED_BY_MD", "REFUNDED"},
                  by : Claimants \cup {Absent}, accountant : Deciders \cup {Absent},
                  md : Deciders \cup {Absent}, payer : Deciders \cup {Absent}]
      /\ new.by = refund[r].by
      /\ new.status = "ACCOUNTANT_APPROVED" <=> action = "ACCOUNTANT_APPROVE"
      /\ new.status = "MD_APPROVED" <=> action = "MD_APPROVE"
      /\ new.status = "REFUNDED" <=> action = "MARK_REFUNDED"
      /\ action = "MARK_REFUNDED" => new.payer = e
  BY <1>2, RuledRow
<1> HIDE DEF new
<1>6. refund'[r] = new /\ \A s \in Refunds \ {r} : refund'[s] = refund[s]
  BY <1>2, <1>3 DEF ExpenseRows
<1>7. \A s \in Refunds : refund'[s].by = refund[s].by
  BY <1>5, <1>6
<1>8. \A s \in Refunds : \A a : Has(s, a) => Has(s, a)'
  BY <1>3, <1>7, HasStays
<1>9. Has(r, action)'
  <2>1. [on |-> r, action |-> action, who |-> e] \in trail'
    BY <1>3
  <2> QED
    BY <2>1, <1>2, <1>4, <1>7 DEF Has
<1>10. ExpenseJobs' /\ ExpenseRows'
  BY <1>2, <1>3, <1>5 DEF ExpenseJobs, ExpenseRows
<1>11. DecisionsFounded'
  <2> SUFFICES ASSUME NEW d \in Calls, call'[d] # Idle
               PROVE  /\ refund'[call'[d].on].status # "ABSENT"
                      /\ call'[d].who # refund'[call'[d].on].by
                      /\ Founded(call[d].on, call[d].action)'
    BY DEF DecisionsFounded
  <2>1. call'[d] = call[d] /\ call[d] # Idle /\ call[d].on \in Refunds
    BY <1>3 DEF ExpenseJobs, ExpenseJob
  <2>2. refund'[call[d].on].status # "ABSENT"
    BY <2>1, <1>5, <1>6 DEF DecisionsFounded
  <2>3. Founded(call[d].on, call[d].action) => Founded(call[d].on, call[d].action)'
    BY <2>1, <1>8 DEF Founded
  <2> QED
    BY <2>1, <2>2, <2>3, <1>7 DEF DecisionsFounded
<1>12. StatusFounded'
  <2> SUFFICES ASSUME NEW s \in Refunds
               PROVE  /\ refund'[s].status \in {"ACCOUNTANT_APPROVED", "MD_APPROVED", "REFUNDED"} =>
                           Has(s, "ACCOUNTANT_APPROVE")'
                      /\ refund'[s].status \in {"MD_APPROVED", "REFUNDED"} => Has(s, "MD_APPROVE")'
                      /\ refund'[s].status = "REFUNDED" => refund'[s].payer # refund'[s].by
    BY DEF StatusFounded
  <2>1. CASE s # r
    BY <2>1, <1>6, <1>8 DEF StatusFounded
  <2>2. CASE s = r
    BY <2>2, <1>2, <1>4, <1>5, <1>6, <1>8, <1>9 DEF Founded
  <2> QED
    BY <2>1, <2>2
<1> QED
  BY <1>10, <1>11, <1>12

\* A handler stops before it has written.
LEMMA DecisionAbandoned ==
  ASSUME ExpenseJobs, ExpenseRows, DecisionsFounded, StatusFounded,
         NEW c \in Calls, Abandon(c), UNCHANGED expenses
  PROVE  (ExpenseJobs /\ ExpenseRows /\ DecisionsFounded /\ StatusFounded)'
<1>1. call' = [call EXCEPT ![c] = Idle] /\ refund' = refund /\ trail' = trail
  BY DEF Abandon, expenses
<1>2. ExpenseJobs' /\ ExpenseRows' /\ StatusFounded'
  BY <1>1 DEF ExpenseJobs, ExpenseRows, StatusFounded, Has
<1>3. DecisionsFounded'
  BY <1>1 DEF ExpenseJobs, DecisionsFounded, Founded, Has
<1> QED
  BY <1>2, <1>3

LEMMA ExpensesStep ==
  ASSUME ExpensesInv, [Next]_vars
  PROVE  ExpensesInv'
<1>1. CASE part # "EXPENSES"
  BY <1>1, PartOnly DEF ExpensesInv, expenses
<1>2. CASE part = "EXPENSES"
  <2> USE <1>2
  <2> SUFFICES (ExpenseJobs /\ ExpenseRows /\ DecisionsFounded /\ StatusFounded)'
    BY PartOnly DEF ExpensesInv
  <2>1. ExpenseJobs /\ ExpenseRows /\ DecisionsFounded /\ StatusFounded
    BY DEF ExpensesInv
  <2>2. CASE UNCHANGED <<running, expenses>>
    BY <2>1, <2>2 DEF running, expenses, ExpenseJobs, ExpenseRows, DecisionsFounded, StatusFounded, Founded, Has
  <2>3. ASSUME NEW c \in Calls, NEW r \in Refunds, NEW e \in Claimants, createRefund(c, e, r)
        PROVE  (ExpenseJobs /\ ExpenseRows /\ DecisionsFounded /\ StatusFounded)'
    BY <2>1, <2>3, RefundCreated
  <2>4. ASSUME NEW c \in Calls, NEW r \in Refunds, NEW e \in Accountants,
               accountantReview(c, e, r) \/ markRefunded(c, e, r)
        PROVE  (ExpenseJobs /\ ExpenseRows /\ DecisionsFounded /\ StatusFounded)'
    <3>1. refund[r].by # e /\ \E action \in DecisionActions : Decide(c, e, r, action)
      BY <2>4 DEF accountantReview, markRefunded, canAccountantReview, canMarkRefunded,
                  DecisionActions
    <3> QED
      BY <2>1, <3>1, DecisionChecked DEF Deciders
  <2>5. ASSUME NEW c \in Calls, NEW r \in Refunds, NEW e \in Approvers, mdReview(c, e, r)
        PROVE  (ExpenseJobs /\ ExpenseRows /\ DecisionsFounded /\ StatusFounded)'
    <3>1. refund[r].by # e /\ \E action \in DecisionActions : Decide(c, e, r, action)
      BY <2>5 DEF mdReview, canMdReview, DecisionActions
    <3> QED
      BY <2>1, <3>1, DecisionChecked DEF Deciders
  <2>6. ASSUME NEW c \in Calls, decide(c) \/ (Abandon(c) /\ UNCHANGED expenses)
        PROVE  (ExpenseJobs /\ ExpenseRows /\ DecisionsFounded /\ StatusFounded)'
    BY <2>1, <2>6, DecisionWritten, DecisionAbandoned
  <2>7. Accepting \subseteq Calls
    BY DEF Accepting, Idling
  <2> QED
    BY <2>2, <2>3, <2>4, <2>5, <2>6, <2>7, PartOnly DEF ExpensesNext, ExpenseRequests
<1> QED
  BY <1>1, <1>2

\* Whatever decisions overlap, and wherever a handler stops, a refund is paid out only after
\* an accountant and the MD each approved it, and never by or on the word of the claimant.
THEOREM PaymentCorrect == Spec => []PaidAfterBothApprovals
<1>1. ExpensesInv => PaidAfterBothApprovals
  BY DEF ExpensesInv, StatusFounded, Has, PaidAfterBothApprovals, NoRefund, Refund
<1> QED
  BY <1>1, ExpensesBegin, ExpensesStep, PTL DEF Spec

-----------------------------------------------------------------------------
(* Complaints.                                                              *)

ComplaintStatus == Open \cup {"ABSENT", "RESOLVED", "CLOSED"}
ComplaintRow == [status : ComplaintStatus, helper : Helpers \cup {Nobody}, answered : BOOLEAN,
                 closed : BOOLEAN]
ComplaintJobs == [op : {"assign", "status", "resolve", "close"}, on : Complaint,
                  to : ComplaintStatus, who : Helpers \cup {Nobody}, then : {<<>>}]

\* What a handler checked of its complaint still holds when it writes.
AsChecked(job) ==
    /\ job.op = "close" => complaint[job.on].status = "RESOLVED"
    /\ job.op = "status" => <<complaint[job.on].status, job.to>> \in TRANSITIONS

Answerable == \A k \in Complaint : complaint[k].status \in {"RESOLVED", "CLOSED"} => k \in settled

ComplaintsInv ==
    /\ complaint \in [Complaint -> ComplaintRow]
    /\ CallsAre(ComplaintJobs) /\ InTurn
    /\ ~disturbed => /\ Answerable
                     /\ \A c \in Calls : call[c] # Idle => AsChecked(call[c])

LEMMA ComplaintsBegin == ASSUME Init PROVE ComplaintsInv
<1>1. CallsAre(ComplaintJobs) /\ InTurn /\ \A c \in Calls : call[c] = Idle
  BY StartsInTurn DEF Init
<1>2. complaint = [k \in Complaint |-> NoComplaint]
  BY DEF Init, ComplaintsInit
<1> QED
  BY <1>1, <1>2 DEF ComplaintsInv, Answerable, NoComplaint, ComplaintRow, ComplaintStatus

\* A handler starts: it enters a complaint, or has checked one.
LEMMA ComplaintRequested ==
  ASSUME ComplaintsInv, NEW c \in Accepting, ComplaintRequests(c)
  PROVE  ComplaintsInv'
<1>1. ASSUME NEW k \in Complaint, NEW e \in Helpers \cup {Nobody}, createComplaint(c, k, e)
      PROVE  ComplaintsInv'
  <2> DEFINE new == [NoComplaint EXCEPT !.status = "OPEN", !.helper = e]
  <2>1. new \in ComplaintRow /\ new.status = "OPEN"
    BY DEF NoComplaint, ComplaintRow, ComplaintStatus, Open
  <2>2. complaint' = [complaint EXCEPT ![k] = new] /\ settled' = settled /\ Begin(c, Idle)
    BY <1>1 DEF createComplaint, Serve
  <2> HIDE DEF new
  <2>3. /\ CallsAre(ComplaintJobs)' /\ InTurn' /\ call'[c] = Idle
        /\ ~disturbed' => ~disturbed /\ \A d \in Calls : call[d] = Idle
        /\ \A d \in Calls \ {c} : call'[d] = call[d]
    BY <2>2, BeginsInTurn DEF ComplaintsInv
  <2>4. complaint' \in [Complaint -> ComplaintRow]
    BY <2>1, <2>2 DEF ComplaintsInv
  <2>5. Answerable => Answerable'
    BY <2>1, <2>2 DEF ComplaintsInv, Answerable
  <2> QED
    BY <2>3, <2>4, <2>5 DEF ComplaintsInv
<1>2. ASSUME NEW job \in ComplaintJobs, AsChecked(job), Asked(c, job)
      PROVE  ComplaintsInv'
  <2>1. Begin(c, job) /\ complaint' = complaint /\ settled' = settled
    BY <1>2 DEF Asked, complaints
  <2>2. /\ CallsAre(ComplaintJobs)' /\ InTurn' /\ call'[c] = job
        /\ ~disturbed' => ~disturbed /\ \A d \in Calls : call[d] = Idle
        /\ \A d \in Calls \ {c} : call'[d] = call[d]
    BY <2>1, BeginsInTurn DEF ComplaintsInv
  <2>3. ~disturbed' => \A d \in Calls : call'[d] # Idle => call'[d] = job
    BY <2>2
  <2> QED
    BY <1>2, <2>1, <2>2, <2>3 DEF ComplaintsInv, Answerable, AsChecked
<1>3. ASSUME NEW k \in Complaint, NEW e \in Helpers, assign(c, k, e)
      PROVE  ComplaintsInv'
  <2>1. ComplaintJob("assign", k, "OPEN", e) \in ComplaintJobs
    BY DEF ComplaintJob, ComplaintJobs, ComplaintStatus, Open
  <2>2. AsChecked(ComplaintJob("assign", k, "OPEN", e))
    BY DEF ComplaintJob, AsChecked
  <2> QED
    BY <1>2, <1>3, <2>1, <2>2 DEF assign
<1>4. ASSUME NEW k \in Complaint, NEW to, changeStatus(c, k, to)
      PROVE  ComplaintsInv'
  <2>1. <<complaint[k].status, to>> \in TRANSITIONS
    BY <1>4 DEF changeStatus, PatchComplaintStatus
  <2>2. ComplaintJob("status", k, to, Nobody) \in ComplaintJobs
    BY <2>1 DEF ComplaintJob, ComplaintJobs, ComplaintStatus, Open, TRANSITIONS
  <2>3. AsChecked(ComplaintJob("status", k, to, Nobody))
    BY <2>1 DEF ComplaintJob, AsChecked
  <2> QED
    BY <1>2, <1>4, <2>2, <2>3 DEF changeStatus
<1>5. ASSUME NEW k \in Complaint, resolve(c, k)
      PROVE  ComplaintsInv'
  <2>1. ComplaintJob("resolve", k, "RESOLVED", Nobody) \in ComplaintJobs
    BY DEF ComplaintJob, ComplaintJobs, ComplaintStatus
  <2>2. AsChecked(ComplaintJob("resolve", k, "RESOLVED", Nobody))
    BY DEF ComplaintJob, AsChecked
  <2> QED
    BY <1>2, <1>5, <2>1, <2>2 DEF resolve
<1>6. ASSUME NEW k \in Complaint, close(c, k)
      PROVE  ComplaintsInv'
  <2>1. ComplaintJob("close", k, "CLOSED", Nobody) \in ComplaintJobs
    BY DEF ComplaintJob, ComplaintJobs, ComplaintStatus
  <2>2. AsChecked(ComplaintJob("close", k, "CLOSED", Nobody))
    BY <1>6 DEF ComplaintJob, AsChecked, close, PatchComplaintClose
  <2> QED
    BY <1>2, <1>6, <2>1, <2>2 DEF close
<1> QED
  BY <1>1, <1>3, <1>4, <1>5, <1>6 DEF ComplaintRequests

\* A handler writes one row, by id, and is done.
LEMMA ComplaintWritten ==
  ASSUME ComplaintsInv, NEW c \in Calls, ComplaintCommits(c)
  PROVE  ComplaintsInv'
<1>1. call[c] \in ComplaintJobs
  BY DEF ComplaintsInv, CallsAre, ComplaintCommits, assignTx, statusTx, resolveTx, closeTx, Idle
<1>2. call[c] # Idle
  BY <1>1 DEF ComplaintJobs, Idle
<1>3. Continue(c, Idle)
  BY <1>1 DEF ComplaintCommits, assignTx, statusTx, resolveTx, closeTx, Done, ComplaintJobs
<1>4. /\ CallsAre(ComplaintJobs)' /\ InTurn' /\ disturbed' = disturbed
      /\ ~disturbed => \A d \in Calls : call'[d] = Idle
  BY <1>2, <1>3, ContinuesInTurn DEF ComplaintsInv
<1>5. PICK k \in Complaint, to \in ComplaintStatus : call[c].on = k /\ call[c].to = to
  BY <1>1 DEF ComplaintJobs
<1>6. PICK row \in ComplaintRow : row = complaint[k]
  BY DEF ComplaintsInv
<1>7. PICK new \in ComplaintRow :
        /\ complaint' = [complaint EXCEPT ![k] = new]
        /\ \/ call[c].op = "assign" /\ new.status = row.status /\ settled' = settled
           \/ call[c].op = "status" /\ new.status = to /\ settled' = Settled(k, to)
           \/ new.status = "RESOLVED" /\ settled' = Settled(k, "RESOLVED")
           \/ call[c].op = "close" /\ new.status = "CLOSED" /\ settled' = settled
  <2>1. CASE assignTx(c)
    <3> DEFINE new == [row EXCEPT !.helper = call[c].who]
    <3>1. new \in ComplaintRow /\ new.status = row.status
      BY <1>1 DEF ComplaintRow, ComplaintJobs
    <3>2. complaint' = [complaint EXCEPT ![k] = new] /\ settled' = settled /\ call[c].op = "assign"
      BY <2>1, <1>5, <1>6 DEF assignTx
    <3> QED
      BY <3>1, <3>2
  <2>2. CASE statusTx(c)
    <3> DEFINE new == [row EXCEPT !.status = to]
    <3>1. new \in ComplaintRow /\ new.status = to
      BY DEF ComplaintRow
    <3>2. complaint' = [complaint EXCEPT ![k] = new] /\ settled' = Settled(k, to)
          /\ call[c].op = "status"
      BY <2>2, <1>5, <1>6 DEF statusTx
    <3> QED
      BY <3>1, <3>2
  <2>3. CASE resolveTx(c)
    <3> DEFINE new == [[row EXCEPT !.status = "RESOLVED"] EXCEPT !.answered = TRUE]
    <3>1. new \in ComplaintRow /\ new.status = "RESOLVED"
      BY DEF ComplaintRow, ComplaintStatus
    <3>2. complaint' = [complaint EXCEPT ![k] = new] /\ settled' = Settled(k, "RESOLVED")
      BY <2>3, <1>5, <1>6 DEF resolveTx, ComplaintsInv
    <3> QED
      BY <3>1, <3>2
  <2>4. CASE closeTx(c)
    <3> DEFINE new == [[row EXCEPT !.status = "CLOSED"] EXCEPT !.closed = TRUE]
    <3>1. new \in ComplaintRow /\ new.status = "CLOSED"
      BY DEF ComplaintRow, ComplaintStatus
    <3>2. complaint' = [complaint EXCEPT ![k] = new] /\ settled' = settled /\ call[c].op = "close"
      BY <2>4, <1>5, <1>6 DEF closeTx, ComplaintsInv
    <3> QED
      BY <3>1, <3>2
  <2> QED
    BY <2>1, <2>2, <2>3, <2>4 DEF ComplaintCommits
<1>8. complaint' \in [Complaint -> ComplaintRow]
  BY <1>7 DEF ComplaintsInv
<1>9. ASSUME ~disturbed PROVE Answerable'
  <2>1. Answerable /\ AsChecked(call[c])
    BY <1>2, <1>9 DEF ComplaintsInv
  <2>2. complaint'[k] = new /\ \A j \in Complaint \ {k} : complaint'[j] = complaint[j]
    BY <1>7 DEF ComplaintsInv
  <2>3. \A j \in Complaint \ {k} : j \in settled => j \in settled'
    BY <1>7 DEF Settled
  <2>4. new.status \in {"RESOLVED", "CLOSED"} => k \in settled'
    BY <1>5, <1>6, <1>7, <2>1 DEF Settled, Answerable, AsChecked, TRANSITIONS
  <2> QED
    BY <2>1, <2>2, <2>3, <2>4 DEF Answerable
<1> QED
  BY <1>4, <1>8, <1>9 DEF ComplaintsInv

LEMMA ComplaintsStep ==
  ASSUME part = "COMPLAINTS", ComplaintsInv, [Next]_vars
  PROVE  ComplaintsInv'
<1>1. CASE UNCHANGED <<running, complaints>>
  <2>1. CallsAre(ComplaintJobs)' /\ InTurn'
    BY <1>1, RestsInTurn DEF ComplaintsInv
  <2> QED
    BY <2>1, <1>1 DEF ComplaintsInv, running, complaints, Answerable, AsChecked
<1>2. ASSUME NEW c \in Calls, Abandon(c), UNCHANGED complaints
      PROVE  ComplaintsInv'
  <2>1. CallsAre(ComplaintJobs)' /\ InTurn' /\ disturbed'
    BY <1>2, AbandonsInTurn DEF ComplaintsInv
  <2> QED
    BY <2>1, <1>2 DEF ComplaintsInv, complaints
<1> QED
  BY <1>1, <1>2, PartOnly, ComplaintRequested, ComplaintWritten DEF ComplaintsNext

-----------------------------------------------------------------------------
(* Tasks.                                                                   *)

Outcomes == {"PENDING", "IN_PROGRESS", "COMPLETED", "OVERDUE", "AS_REPORTED", "NEED_MORE_TIME",
             "NOT_COMPLETED", "BLOCKED"}
TaskJobs == [op : {"status", "finish", "review", "award", "point"}, on : Tasks,
             status : Outcomes, reviewed : BOOLEAN, then : {<<>>, <<"award">>}]

\* The handler about to give a point has found none given.
Undue(job) == job.op = "point" => awards[job.on] = 0

TasksInv ==
    /\ awards \in [Tasks -> Nat]
    /\ CallsAre(TaskJobs) /\ InTurn
    /\ \A c \in Calls : call[c] # Idle /\ call[c].op \in {"award", "point"} => call[c].then = <<>>
    /\ ~disturbed => /\ \A t \in Tasks : awards[t] <= 1
                     /\ \A c \in Calls : call[c] # Idle => Undue(call[c])

LEMMA TasksBegin == ASSUME Init PROVE TasksInv
<1>1. CallsAre(TaskJobs) /\ InTurn /\ \A c \in Calls : call[c] = Idle
  BY StartsInTurn DEF Init
<1>2. awards = [t \in Tasks |-> 0]
  BY DEF Init, TasksInit
<1> QED
  BY <1>1, <1>2 DEF TasksInv

\* A handler starts: it enters a task, or has checked one.
LEMMA TaskRequested ==
  ASSUME TasksInv, NEW c \in Accepting, TaskRequests(c)
  PROVE  TasksInv'
<1>1. ASSUME NEW job \in TaskJobs \cup {Idle}, Begin(c, job), awards' = awards,
             job # Idle => job.op \in {"status", "finish", "review"}
      PROVE  TasksInv'
  <2>1. /\ CallsAre(TaskJobs)' /\ InTurn' /\ call'[c] = job
        /\ ~disturbed' => ~disturbed /\ \A d \in Calls : call[d] = Idle
        /\ \A d \in Calls \ {c} : call'[d] = call[d]
    BY <1>1, BeginsInTurn DEF TasksInv
  <2>2. \A d \in Calls : call'[d] # Idle /\ call'[d].op \in {"award", "point"} => call'[d].then = <<>>
    BY <1>1, <2>1 DEF TasksInv
  <2>3. ~disturbed' => \A d \in Calls : call'[d] # Idle => call'[d] = job
    BY <2>1
  <2> QED
    BY <1>1, <2>1, <2>2, <2>3 DEF TasksInv, Undue
<1>2. ASSUME NEW e, NEW to, NEW t \in Tasks, createTask(c, e, to, t)
      PROVE  TasksInv'
  BY <1>1, <1>2 DEF createTask, Serve
<1>3. ASSUME NEW job \in TaskJobs, Look(c, job), job.op \in {"status", "finish", "review"}
      PROVE  TasksInv'
  BY <1>1, <1>3 DEF Look, worktasks
<1>4. \A row, to : Awarded(row, to) \in {<<>>, <<"award">>}
  BY DEF Awarded
<1>5. ASSUME NEW e, NEW t \in Tasks, NEW to \in Outcomes, patchStatus(c, e, t, to)
      PROVE  TasksInv'
  <2> DEFINE job == TaskJob("status", t, to, FALSE, Awarded(task[t], to))
  <2>1. job \in TaskJobs /\ job.op = "status"
    BY <1>4 DEF TaskJob, TaskJobs
  <2> QED
    BY <1>3, <1>5, <2>1 DEF patchStatus
<1>6. ASSUME NEW e, NEW t \in Tasks, NEW outcome \in Outcomes, finishTask(c, e, t, outcome)
      PROVE  TasksInv'
  <2> DEFINE to == IF outcome = "NEED_MORE_TIME" THEN "PENDING" ELSE outcome
             own == outcome \in REVIEWABLE_TASK_STATUSES /\ SelfAssigned(task[t])
             job == TaskJob("finish", t, to, own, Awarded(task[t], to))
  <2>1. own \in BOOLEAN
    OBVIOUS
  <2>2. to \in Outcomes
    BY DEF Outcomes
  <2> HIDE DEF own, to
  <2>3. job \in TaskJobs /\ job.op = "finish"
    BY <2>1, <2>2, <1>4 DEF TaskJob, TaskJobs
  <2>4. Look(c, job)
    BY <1>6 DEF finishTask, own, to
  <2> QED
    BY <1>3, <2>3, <2>4
<1>7. ASSUME NEW e, NEW t \in Tasks, reviewTask(c, e, t)
      PROVE  TasksInv'
  <2>1. PICK to \in {"PENDING", "AS_REPORTED"} : Look(c, TaskJob("review", t, to, TRUE, <<>>))
    BY <1>7 DEF reviewTask
  <2>2. /\ TaskJob("review", t, to, TRUE, <<>>) \in TaskJobs
        /\ TaskJob("review", t, to, TRUE, <<>>).op = "review"
    BY DEF TaskJob, TaskJobs, Outcomes
  <2> QED
    BY <1>3, <2>1, <2>2
<1> QED
  BY <1>2, <1>5, <1>6, <1>7 DEF TaskRequests, REVIEWABLE_TASK_STATUSES, Outcomes

\* A handler goes on with one of its statements.
LEMMA TaskWritten ==
  ASSUME TasksInv, NEW c \in Calls, TaskCommits(c)
  PROVE  TasksInv'
<1>0. call[c].op # "IDLE"
  BY DEF TaskCommits, writeTask, awardTaskCompletion, givePoint
<1>1. call[c] \in TaskJobs /\ call[c] # Idle
  BY <1>0 DEF TasksInv, CallsAre, Idle
<1>2. ASSUME NEW job \in TaskJobs \cup {Idle}, Continue(c, job),
             awards' \in [Tasks -> Nat],
             job # Idle /\ job.op \in {"award", "point"} => job.then = <<>>,
             ~disturbed => \A t \in Tasks : awards'[t] <= 1,
             ~disturbed => (job # Idle => Undue(job)')
      PROVE  TasksInv'
  <2>1. /\ CallsAre(TaskJobs)' /\ InTurn' /\ call'[c] = job /\ disturbed' = disturbed
        /\ \A d \in Calls \ {c} : call'[d] = call[d] /\ (~disturbed => call[d] = Idle)
    BY <1>1, <1>2, ContinuesInTurn DEF TasksInv
  <2>2. \A d \in Calls : call'[d] # Idle /\ call'[d].op \in {"award", "point"} => call'[d].then = <<>>
    BY <1>2, <2>1 DEF TasksInv
  <2>3. ASSUME ~disturbed', NEW d \in Calls, call'[d] # Idle
        PROVE  Undue(call[d])'
    <3>1. d = c
      BY <2>1, <2>3
    <3> QED
      BY <1>2, <2>1, <2>3, <3>1 DEF Undue
  <2> QED
    BY <1>2, <2>1, <2>2, <2>3 DEF TasksInv
<1>3. CASE writeTask(c)
  <2>1. call[c].op \in {"status", "finish", "review"} /\ Done(c) /\ awards' = awards
    BY <1>3 DEF writeTask
  <2>2. CASE call[c].then = <<>>
    BY <1>2, <2>1, <2>2 DEF Done, TasksInv
  <2>3. CASE call[c].then = <<"award">>
    <3> DEFINE job == [call[c] EXCEPT !.op = Head(call[c].then), !.then = Tail(call[c].then)]
    <3>0. Head(call[c].then) = "award" /\ Tail(call[c].then) = <<>>
      BY <2>3
    <3>1. job \in TaskJobs /\ job.op = "award" /\ job.then = <<>>
      BY <1>1, <3>0 DEF TaskJobs
    <3>2. Continue(c, job)
      BY <2>1, <2>3 DEF Done
    <3> HIDE DEF job
    <3> QED
      BY <1>2, <2>1, <3>1, <3>2 DEF TasksInv, Undue
  <2> QED
    BY <1>1, <2>2, <2>3 DEF TaskJobs
<1>4. CASE awardTaskCompletion(c)
  <2>1. awards' = awards
    BY <1>4 DEF awardTaskCompletion, worktasks
  <2>2. CASE Finish(c)
    BY <1>2, <2>1, <2>2 DEF Finish, TasksInv
  <2>3. CASE ~AlreadyAwarded(call[c].on)
             /\ Continue(c, TaskJob("point", call[c].on, "COMPLETED", FALSE, <<>>))
    <3> DEFINE job == TaskJob("point", call[c].on, "COMPLETED", FALSE, <<>>)
    <3>1. job \in TaskJobs /\ job.then = <<>> /\ job.on \in Tasks /\ job.on = call[c].on
      BY <1>1 DEF TaskJob, TaskJobs, Outcomes
    <3>3. Continue(c, job)
      BY <2>3
    <3> HIDE DEF job
    <3>2. awards[job.on] = 0
      <4>1. awards[job.on] \in Nat
        BY <3>1 DEF TasksInv
      <4> QED
        BY <2>3, <3>1, <4>1 DEF AlreadyAwarded
    <3> QED
      BY <1>2, <2>1, <3>1, <3>2, <3>3 DEF TasksInv, Undue
  <2> QED
    BY <1>4, <2>2, <2>3 DEF awardTaskCompletion
<1>5. CASE givePoint(c)
  <2>1. /\ call[c].op = "point" /\ call[c].then = <<>> /\ call[c].on \in Tasks
        /\ Done(c)
        /\ awards' = [awards EXCEPT ![call[c].on] = awards[call[c].on] + 1]
    BY <1>1, <1>5 DEF givePoint, TasksInv, TaskJobs
  <2>2. Continue(c, Idle)
    BY <2>1 DEF Done
  <2>3. ~disturbed => awards[call[c].on] = 0
    BY <1>1, <2>1 DEF TasksInv, Undue
  <2>4. awards' \in [Tasks -> Nat]
    BY <2>1 DEF TasksInv
  <2>5. ~disturbed => \A t \in Tasks : awards'[t] <= 1
    BY <2>1, <2>3 DEF TasksInv
  <2> QED
    BY <1>2, <2>2, <2>4, <2>5
<1> QED
  BY <1>3, <1>4, <1>5 DEF TaskCommits

LEMMA TasksStep ==
  ASSUME part = "TASKS", TasksInv, [Next]_vars
  PROVE  TasksInv'
<1>1. ASSUME UNCHANGED <<running, awards>>
      PROVE  TasksInv'
  <2>1. CallsAre(TaskJobs)' /\ InTurn'
    BY <1>1, RestsInTurn DEF TasksInv
  <2> QED
    BY <2>1, <1>1 DEF TasksInv, running, Undue
<1>2. ASSUME NEW c \in Calls, Abandon(c), UNCHANGED worktasks
      PROVE  TasksInv'
  <2>1. /\ CallsAre(TaskJobs)' /\ InTurn' /\ disturbed'
        /\ \A d \in Calls : call'[d] = call[d] \/ call'[d] = Idle
    BY <1>2, AbandonsInTurn DEF TasksInv
  <2> QED
    BY <2>1, <1>2 DEF TasksInv, worktasks
<1>3. ASSUME NEW t \in Tasks, sweepOverdueTasks(t)
      PROVE  TasksInv'
  BY <1>1, <1>3 DEF sweepOverdueTasks
<1> QED
  BY <1>1, <1>2, <1>3, PartOnly, TaskRequested, TaskWritten DEF TasksNext, worktasks

ReopeningsInv ==
    /\ part = "COMPLAINTS" => ComplaintsInv
    /\ part # "COMPLAINTS" => complaint = [k \in Complaint |-> NoComplaint]
    /\ part = "TASKS" => TasksInv
    /\ part # "TASKS" => awards = [t \in Tasks |-> 0]

\* However often a task or a complaint is opened again, handlers that neither overlap nor
\* stop half-way give a task one point in all and close a complaint only after a resolution
\* of its own.
THEOREM ReopeningsCorrect == Spec => []ReopeningsSound
<1>1. Init => ReopeningsInv
  BY ComplaintsBegin, TasksBegin DEF Init, ComplaintsInit, TasksInit, ReopeningsInv
<1>2. ReopeningsInv /\ [Next]_vars => ReopeningsInv'
  BY PartOnly, ComplaintsStep, TasksStep DEF ReopeningsInv, complaints, worktasks
<1>3. ReopeningsInv => ReopeningsSound
  <2> SUFFICES ASSUME ReopeningsInv PROVE PointOnceInTurn /\ ClosedWasResolved
    BY DEF ReopeningsSound
  <2>1. PointOnceInTurn
    BY DEF ReopeningsInv, TasksInv, PointOnceInTurn
  <2>2. ClosedWasResolved
    BY DEF ReopeningsInv, ComplaintsInv, Answerable, ClosedWasResolved, NoComplaint
  <2> QED
    BY <2>1, <2>2
<1> QED
  BY <1>1, <1>2, <1>3, PTL DEF Spec

-----------------------------------------------------------------------------
(* Leavers.                                                                 *)

PeopleJobs == [op : {"record", "change", "withdraw", "offboard", "lockout", "target", "move",
                     "rest", "summary", "tell", "done"},
               on : Workers, heir : Workers \cup {Heir0}, last : {"NONE", "AHEAD", "OVER"},
               kept : SUBSET Leads, by : {"RESIGN", "HANDOVER", "OTHER"}]

\* What an offboarding has established at its steps: whom the work goes to, and then what
\* was left of it, or that management knows.
Chosen(job) == job.op \in {"move", "rest"} => job.heir \in Workers /\ job.heir # job.on
OnTheWay(job) ==
    /\ job.op = "rest" => WorkOf(job.on) \cap Leads \subseteq job.kept
    /\ job.op = "done" => WorkOf(job.on) \subseteq {Foreign} \/ job.on \in told \/ job.by = "HANDOVER"

\* Only customers of another company stay with a leaver unsaid.
NoneStranded == stranded \subseteq Workers \X {Foreign}

PeopleTyped == person \in [Workers -> Employee] /\ owner \in [Work -> Workers]

PeopleInv ==
    /\ PeopleTyped
    /\ CallsAre(PeopleJobs) /\ InTurn
    /\ \A c \in Calls : call[c] # Idle => Chosen(call[c])
    /\ ~disturbed => NoneStranded /\ \A c \in Calls : call[c] # Idle => OnTheWay(call[c])

LEMMA PeopleBegin == ASSUME Init PROVE PeopleInv
<1>1. CallsAre(PeopleJobs) /\ InTurn /\ \A c \in Calls : call[c] = Idle
  BY StartsInTurn DEF Init
<1>2. PeopleTyped /\ NoneStranded
  BY StartPeopleAssumption DEF Init, PeopleInit, PeopleTyped, NoneStranded
<1> QED
  BY <1>1, <1>2 DEF PeopleInv

LEMMA PeopleRequestEnds ==
  ASSUME PeopleInv, NEW c \in Accepting, NEW job \in PeopleJobs \cup {Idle}, Begin(c, job),
         person' \in [Workers -> Employee], UNCHANGED <<owner, told, stranded>>,
         job # Idle => job.op \notin {"move", "rest", "done"}
  PROVE  PeopleInv'
<1> USE DEF NoneStranded
<1>1. /\ CallsAre(PeopleJobs)' /\ InTurn' /\ call'[c] = job
      /\ ~disturbed' => ~disturbed /\ \A d \in Calls : call[d] = Idle
      /\ \A d \in Calls \ {c} : call'[d] = call[d]
  BY BeginsInTurn DEF PeopleInv
<1>2. ~disturbed' => \A d \in Calls : call'[d] # Idle => call'[d] = job
  BY <1>1
<1> QED
  BY <1>1, <1>2 DEF PeopleInv, PeopleTyped, OnTheWay, Chosen

LEMMA PeopleStepEnds ==
  ASSUME PeopleInv, NEW c \in Calls, call[c] # Idle, NEW job \in PeopleJobs \cup {Idle},
         Continue(c, job), PeopleTyped', job # Idle => Chosen(job),
         ~disturbed => NoneStranded' /\ (job # Idle => OnTheWay(job)')
  PROVE  PeopleInv'
<1> USE DEF NoneStranded
<1>1. /\ CallsAre(PeopleJobs)' /\ InTurn' /\ call'[c] = job /\ disturbed' = disturbed
      /\ \A d \in Calls \ {c} : call'[d] = call[d] /\ (~disturbed => call[d] = Idle)
  BY ContinuesInTurn DEF PeopleInv
<1>2. ~disturbed' => \A d \in Calls : call'[d] # Idle => d = c /\ call'[d] = job
  BY <1>1
<1>3. ASSUME ~disturbed', NEW d \in Calls, call'[d] # Idle
      PROVE  OnTheWay(call[d])'
  BY <1>1, <1>2, <1>3 DEF OnTheWay, WorkOf
<1>4. \A d \in Calls : call'[d] # Idle => Chosen(call'[d])
  BY <1>1 DEF PeopleInv
<1> QED
  BY <1>1, <1>3, <1>4 DEF PeopleInv, Chosen

\* A request is checked, or served at once.
LEMMA PeopleRequested ==
  ASSUME PeopleInv, NEW c \in Accepting, PeopleRequests(c)
  PROVE  PeopleInv'
<1>1. ASSUME NEW job \in PeopleJobs, job.op \notin {"move", "rest", "done"}, Opens(c, job)
      PROVE  PeopleInv'
  BY <1>1, PeopleRequestEnds DEF Opens, people, PeopleInv, PeopleTyped
<1>2. PICK e \in Workers :
        \/ \E heir \in Workers \cup {Heir0}, last \in {"NONE", "AHEAD", "OVER"} :
             resign(c, e, heir, last) \/ changeResignation(c, e, heir, last)
        \/ withdraw(c, e) \/ offboardDueLeavers(c, e)
        \/ \E to \in Workers : handOver(c, e, to)
        \/ \E status \in {"ACTIVE", "INACTIVE", "SUSPENDED", "RESIGNED"} : updateEmployee(c, e, status)
        \/ \E sells \in BOOLEAN : changeRole(c, e, sells)
  BY DEF PeopleRequests
<1>3. \A op, heir, last : PeopleJob(op, e, heir, last) =
        [op |-> op, on |-> e, heir |-> heir, last |-> last, kept |-> {}, by |-> "OTHER"]
  BY DEF PeopleJob
<1>4. ASSUME NEW heir \in Workers \cup {Heir0}, NEW last \in {"NONE", "AHEAD", "OVER"},
             resign(c, e, heir, last)
      PROVE  PeopleInv'
  <2> DEFINE job == [PeopleJob("record", e, heir, last) EXCEPT !.by = "RESIGN"]
  <2>1. job \in PeopleJobs /\ job.op = "record"
    BY <1>3 DEF PeopleJobs
  <2>2. Opens(c, job)
    BY <1>4 DEF resign
  <2> HIDE DEF job
  <2> QED
    BY <1>1, <2>1, <2>2
<1>5. ASSUME NEW heir \in Workers \cup {Heir0}, NEW last \in {"NONE", "AHEAD", "OVER"},
             NEW op \in {"change", "withdraw", "offboard"}, Opens(c, PeopleJob(op, e, heir, last))
      PROVE  PeopleInv'
  <2>1. PeopleJob(op, e, heir, last) \in PeopleJobs /\ PeopleJob(op, e, heir, last).op = op
    BY <1>3 DEF PeopleJobs
  <2> QED
    BY <1>1, <1>5, <2>1
<1>6. ASSUME NEW to \in Workers, handOver(c, e, to)
      PROVE  PeopleInv'
  <2> DEFINE job == [PeopleJob("target", e, to, "NONE") EXCEPT !.by = "HANDOVER"]
  <2>1. job \in PeopleJobs /\ job.op = "target"
    BY <1>3 DEF PeopleJobs
  <2>2. Opens(c, job)
    BY <1>6 DEF handOver
  <2> HIDE DEF job
  <2> QED
    BY <1>1, <2>1, <2>2
<1>7. ASSUME NEW status \in {"ACTIVE", "INACTIVE", "SUSPENDED", "RESIGNED"},
             updateEmployee(c, e, status)
      PROVE  PeopleInv'
  <2>1. person' \in [Workers -> Employee]
    BY <1>7 DEF updateEmployee, PeopleInv, PeopleTyped, Employee
  <2> QED
    BY <1>7, <2>1, PeopleRequestEnds DEF updateEmployee, Serve, Others
<1>8. ASSUME NEW sells \in BOOLEAN, changeRole(c, e, sells)
      PROVE  PeopleInv'
  <2>1. person' \in [Workers -> Employee]
    BY <1>8 DEF changeRole, PeopleInv, PeopleTyped, Employee
  <2> QED
    BY <1>8, <2>1, PeopleRequestEnds DEF changeRole, Serve, Others
<1> QED
  BY <1>2, <1>4, <1>5, <1>6, <1>7, <1>8 DEF changeResignation, withdraw, offboardDueLeavers

\* The three writes of a resignation.
LEMMA ResignationWritten ==
  ASSUME PeopleInv, NEW c \in Calls, call[c] \in PeopleJobs,
         recordResignation(c) \/ changeTx(c) \/ withdrawTx(c)
  PROVE  PeopleInv'
<1> USE DEF NoneStranded
<1> DEFINE next == [call[c] EXCEPT !.op = "offboard"]
<1>1. call[c] # Idle
  BY DEF PeopleJobs, Idle
<1>2. next \in PeopleJobs /\ next.op = "offboard"
  BY DEF PeopleJobs
<1>3. Continue(c, Idle) \/ Continue(c, next)
  BY DEF recordResignation, changeTx, withdrawTx, Finish, Goes
<1>4. owner' = owner /\ told' = told /\ stranded' = stranded
  BY DEF recordResignation, changeTx, withdrawTx, Others
<1>5. PICK e \in Workers, heir \in Workers \cup {Heir0}, last \in {"NONE", "AHEAD", "OVER"} :
        call[c].on = e /\ call[c].heir = heir /\ call[c].last = last
  BY DEF PeopleJobs
<1>6. person \in [Workers -> Employee] /\ person[e] \in Employee
  BY DEF PeopleInv, PeopleTyped
<1>7. person' \in [Workers -> Employee]
  <2>1. CASE recordResignation(c)
    <3>1. person' = [person EXCEPT ![e].resigned = TRUE, ![e].lastDay = last, ![e].heir = heir]
      BY <2>1, <1>5 DEF recordResignation
    <3> QED
      BY <3>1, <1>6 DEF Employee
  <2>2. CASE changeTx(c)
    <3>1. person' = [person EXCEPT ![e].heir = heir,
                                   ![e].lastDay = IF last = "NONE" THEN @ ELSE last]
      BY <2>2, <1>5 DEF changeTx
    <3> QED
      BY <3>1, <1>6 DEF Employee
  <2>3. CASE withdrawTx(c)
    <3>1. person' = [person EXCEPT ![e].resigned = FALSE, ![e].lastDay = "NONE", ![e].heir = Heir0]
      BY <2>3, <1>5 DEF withdrawTx
    <3> QED
      BY <3>1, <1>6 DEF Employee
  <2> QED
    BY <2>1, <2>2, <2>3
<1>8. PeopleTyped'
  BY <1>4, <1>7 DEF PeopleInv, PeopleTyped
<1> HIDE DEF next
<1>9. ASSUME NEW job \in {Idle, next}, Continue(c, job)
      PROVE  PeopleInv'
  <2>1. /\ job # Idle => Chosen(job)
        /\ ~disturbed => NoneStranded' /\ (job # Idle => OnTheWay(job)')
    BY <1>2, <1>4, <1>9 DEF OnTheWay, Chosen, PeopleInv
  <2> QED
    BY <1>1, <1>2, <1>8, <1>9, <2>1, PeopleStepEnds
<1> QED
  BY <1>3, <1>9

\* The steps of an offboarding.
LEMMA OffboardingGoesOn ==
  ASSUME PeopleInv, NEW c \in Calls, call[c] \in PeopleJobs,
         \/ offboardEmployee(c) \/ lockOut(c) \/ chooseTarget(c) \/ moveLeadOwnership(c)
         \/ moveRest(c) \/ handOverFails(c) \/ summary(c) \/ notifyManagement(c) \/ offboarded(c)
  PROVE  PeopleInv'
<1> USE DEF NoneStranded
<1>1. /\ call[c] # Idle /\ Chosen(call[c])
      /\ ~disturbed => NoneStranded /\ OnTheWay(call[c])
  <2>1. call[c] # Idle
    BY DEF PeopleJobs, Idle
  <2> QED
    BY <2>1 DEF PeopleInv
<1>2. PICK e, heir, kept, by :
        /\ e \in Workers /\ heir \in Workers \cup {Heir0} /\ kept \in SUBSET Leads
        /\ call[c].on = e /\ call[c].heir = heir /\ call[c].kept = kept /\ call[c].by = by
  BY DEF PeopleJobs
<1>3. person \in [Workers -> Employee] /\ person[e] \in Employee /\ owner \in [Work -> Workers]
  BY <1>2 DEF PeopleInv, PeopleTyped
<1>4. ASSUME NEW op \in {"lockout", "target", "move", "rest", "summary", "tell", "done"}, Goes(c, op)
      PROVE  \E job \in PeopleJobs :
               /\ job.op = op /\ job.on = e /\ job.heir = heir /\ job.kept = kept /\ job.by = by
               /\ Continue(c, job)
  <2> DEFINE job == [call[c] EXCEPT !.op = op]
  <2>1. /\ job \in PeopleJobs /\ job.op = op /\ job.on = e /\ job.heir = heir /\ job.kept = kept
        /\ job.by = by
    BY <1>2 DEF PeopleJobs
  <2>2. Continue(c, job)
    BY <1>4 DEF Goes
  <2> QED
    BY <2>1, <2>2
<1>5. ASSUME NEW job \in PeopleJobs, Continue(c, job), PeopleTyped', Chosen(job),
             ~disturbed => NoneStranded' /\ OnTheWay(job)'
      PROVE  PeopleInv'
  BY <1>1, <1>5, PeopleStepEnds
<1>6. ASSUME Continue(c, Idle), PeopleTyped', ~disturbed => NoneStranded'
      PROVE  PeopleInv'
  BY <1>1, <1>6, PeopleStepEnds
<1>7. ASSUME NEW op \in {"lockout", "target", "summary", "tell"}, Goes(c, op), PeopleTyped',
             stranded' = stranded
      PROVE  PeopleInv'
  <2>1. PICK job \in PeopleJobs :
          /\ job.op = op /\ job.on = e /\ job.heir = heir /\ job.kept = kept /\ job.by = by
          /\ Continue(c, job)
    BY <1>4, <1>7
  <2>2. Chosen(job) /\ (~disturbed => NoneStranded' /\ OnTheWay(job)')
    BY <1>1, <1>7, <2>1 DEF OnTheWay, Chosen
  <2> QED
    BY <1>5, <1>7, <2>1, <2>2
<1>8. CASE offboardEmployee(c)
  <2>1. PeopleTyped' /\ stranded' = stranded
    BY <1>8, <1>3 DEF offboardEmployee, PeopleTyped
  <2>2. PICK job \in PeopleJobs : job.op = "lockout" /\ (Continue(c, Idle) \/ Continue(c, job))
    <3> DEFINE to == [[call[c] EXCEPT !.op = "lockout"] EXCEPT !.heir = person[e].heir]
    <3>1. to \in PeopleJobs /\ to.op = "lockout"
      BY <1>3 DEF PeopleJobs, Employee
    <3>2. Continue(c, Idle) \/ Continue(c, to)
      BY <1>8, <1>2 DEF offboardEmployee, Finish
    <3> QED
      BY <3>1, <3>2
  <2>4. Chosen(job) /\ (~disturbed => NoneStranded' /\ OnTheWay(job)')
    BY <1>1, <2>1, <2>2 DEF OnTheWay, Chosen
  <2> QED
    BY <1>1, <1>5, <1>6, <2>1, <2>2, <2>4
<1>9. CASE lockOut(c)
  <2>1. person' = [person EXCEPT ![e].status = "RESIGNED", ![e].offboarded = TRUE]
    BY <1>9, <1>2 DEF lockOut
  <2>2. person' \in [Workers -> Employee]
    BY <2>1, <1>3 DEF Employee
  <2>3. PeopleTyped' /\ stranded' = stranded /\ Goes(c, "target")
    BY <1>9, <2>2, <1>3 DEF lockOut, Others, PeopleTyped
  <2> QED
    BY <1>7, <2>3
<1>10. CASE chooseTarget(c)
  <2>1. PeopleTyped' /\ UNCHANGED people
    BY <1>10, <1>3 DEF chooseTarget, people, PeopleTyped
  <2>2. CASE heir \in Workers /\ findHandoverTarget(heir, e) /\ Goes(c, "move")
    <3>1. PICK job \in PeopleJobs :
            /\ job.op = "move" /\ job.on = e /\ job.heir = heir /\ job.kept = kept /\ job.by = by
            /\ Continue(c, job)
      BY <1>4, <2>2
    <3>2. Chosen(job) /\ (~disturbed => NoneStranded' /\ OnTheWay(job)')
      BY <1>1, <2>1, <2>2, <3>1 DEF OnTheWay, Chosen, findHandoverTarget, people
    <3> QED
      BY <1>5, <2>1, <3>1, <3>2
  <2>3. CASE Goes(c, "summary")
    BY <1>7, <2>1, <2>3 DEF people
  <2>4. CASE Finish(c)
    BY <1>1, <1>6, <2>1, <2>4 DEF Finish, people
  <2> QED
    BY <1>2, <1>10, <2>2, <2>3, <2>4 DEF chooseTarget
<1>11. CASE moveLeadOwnership(c)
  <2> DEFINE chunk == WorkOf(e) \cap Leads
  <2>1. PICK refused \in SUBSET chunk :
          /\ owner' = [w \in Work |-> IF w \in chunk \ refused THEN heir ELSE owner[w]]
          /\ Continue(c, [call[c] EXCEPT !.op = "rest", !.kept = refused])
    BY <1>11, <1>2 DEF moveLeadOwnership
  <2>2. PICK job \in PeopleJobs :
          /\ job.op = "rest" /\ job.on = e /\ job.heir = heir /\ job.kept = refused
          /\ Continue(c, job)
    <3> DEFINE to == [[call[c] EXCEPT !.op = "rest"] EXCEPT !.kept = refused]
    <3>1. to \in PeopleJobs /\ to.op = "rest" /\ to.on = e /\ to.heir = heir /\ to.kept = refused
      BY <1>2 DEF PeopleJobs
    <3>2. Continue(c, to)
      BY <2>1
    <3> QED
      BY <3>1, <3>2
  <2>4. stranded' = stranded /\ person' = person /\ heir \in Workers /\ heir # e
    BY <1>11, <1>1, <1>2 DEF moveLeadOwnership, Chosen
  <2>5. owner' \in [Work -> Workers]
    BY <2>1, <2>4, <1>3
  <2>6. \A w \in Leads : owner'[w] = e => w \in refused
    BY <2>1, <2>4 DEF WorkOf, Work
  <2>7. Chosen(job) /\ OnTheWay(job)'
    BY <2>2, <2>4, <2>6 DEF OnTheWay, Chosen, WorkOf, Work
  <2> QED
    BY <1>1, <1>3, <1>5, <2>2, <2>4, <2>5, <2>7 DEF PeopleTyped
<1>12. CASE moveRest(c)
  <2>1. /\ call[c].op = "rest" /\ heir \in Workers /\ heir # e
        /\ owner' = [owner EXCEPT ![Rest] = IF @ = e THEN heir ELSE @]
        /\ Goes(c, AfterMove(call[c]))
        /\ UNCHANGED <<person, told, stranded>>
    BY <1>12, <1>1, <1>2 DEF moveRest, Chosen
  <2>2. PeopleTyped'
    BY <2>1, <1>3 DEF PeopleTyped, Work
  <2>3. CASE kept = {} \/ by = "HANDOVER"
    <3>1. Goes(c, "done")
      BY <2>1, <2>3, <1>2 DEF AfterMove
    <3>2. ~disturbed => WorkOf(e)' \subseteq {Foreign} \/ by = "HANDOVER"
      BY <2>1, <2>3, <1>1, <1>2, <1>3 DEF OnTheWay, WorkOf, Work
    <3>3. PICK job \in PeopleJobs :
            /\ job.op = "done" /\ job.on = e /\ job.heir = heir /\ job.kept = kept /\ job.by = by
            /\ Continue(c, job)
      BY <1>4, <3>1
    <3>4. Chosen(job) /\ (~disturbed => NoneStranded' /\ OnTheWay(job)')
      BY <1>1, <2>1, <3>2, <3>3 DEF OnTheWay, Chosen, WorkOf
    <3> QED
      BY <1>5, <2>2, <3>3, <3>4
  <2>4. CASE ~(kept = {} \/ by = "HANDOVER")
    <3>1. Goes(c, "tell")
      BY <2>1, <2>4, <1>2 DEF AfterMove
    <3> QED
      BY <1>7, <2>1, <2>2, <3>1
  <2> QED
    BY <2>3, <2>4
<1>13. CASE summary(c)
  <2>1. PeopleTyped' /\ UNCHANGED people
    BY <1>13, <1>3 DEF summary, people, PeopleTyped
  <2>2. CASE WorkOf(e) # {}
    BY <1>2, <1>7, <1>13, <2>1, <2>2 DEF summary, GetHandoverSummary, people
  <2>3. CASE WorkOf(e) = {}
    <3>1. Goes(c, "done")
      BY <1>2, <1>13, <2>3 DEF summary, GetHandoverSummary
    <3>2. PICK job \in PeopleJobs :
            /\ job.op = "done" /\ job.on = e /\ job.heir = heir /\ job.kept = kept /\ job.by = by
            /\ Continue(c, job)
      BY <1>4, <3>1
    <3>3. Chosen(job) /\ (~disturbed => NoneStranded' /\ OnTheWay(job)')
      BY <1>1, <2>1, <2>3, <3>2 DEF OnTheWay, Chosen, WorkOf, people
    <3> QED
      BY <1>5, <2>1, <3>2, <3>3
  <2> QED
    BY <2>2, <2>3
<1>14. CASE notifyManagement(c)
  <2>1. told' = told \cup {e} /\ Goes(c, "done") /\ UNCHANGED <<person, owner, stranded>>
    BY <1>2, <1>14 DEF notifyManagement
  <2>2. PICK job \in PeopleJobs :
          /\ job.op = "done" /\ job.on = e /\ job.heir = heir /\ job.kept = kept /\ job.by = by
          /\ Continue(c, job)
    BY <1>4, <2>1
  <2>3. Chosen(job) /\ (~disturbed => NoneStranded' /\ OnTheWay(job)')
    BY <1>1, <2>1, <2>2 DEF OnTheWay, Chosen
  <2>4. PeopleTyped'
    BY <1>3, <2>1 DEF PeopleTyped
  <2> QED
    BY <1>5, <2>2, <2>3, <2>4
<1>15. CASE offboarded(c)
  <2>1. PeopleTyped' /\ Continue(c, Idle)
    BY <1>15, <1>3 DEF offboarded, Finish, PeopleTyped
  <2>2. ~disturbed => NoneStranded'
    BY <1>1, <1>2, <1>15 DEF offboarded, OnTheWay, NoneStranded
  <2> QED
    BY <1>1, <1>6, <2>1, <2>2
<1>16. CASE handOverFails(c)
  <2>1. PeopleTyped' /\ UNCHANGED people
    BY <1>16, <1>3 DEF handOverFails, people, PeopleTyped
  <2>2. Finish(c) \/ Goes(c, "summary")
    BY <1>16 DEF handOverFails
  <2> QED
    BY <1>1, <1>6, <1>7, <2>1, <2>2 DEF Finish, people, NoneStranded
<1> QED
  BY <1>8, <1>9, <1>10, <1>11, <1>12, <1>13, <1>14, <1>15, <1>16

LEMMA PeopleStep ==
  ASSUME part = "PEOPLE", PeopleInv, [Next]_vars
  PROVE  PeopleInv'
<1> USE DEF NoneStranded
<1>1. CASE UNCHANGED <<running, people>>
  <2>1. CallsAre(PeopleJobs)' /\ InTurn'
    BY <1>1, RestsInTurn DEF PeopleInv
  <2> QED
    BY <2>1, <1>1 DEF PeopleInv, PeopleTyped, running, people, OnTheWay, Chosen, WorkOf
<1>2. ASSUME NEW c \in Calls, Abandon(c), UNCHANGED people
      PROVE  PeopleInv'
  <2>1. /\ CallsAre(PeopleJobs)' /\ InTurn' /\ disturbed'
        /\ \A d \in Calls : call'[d] = call[d] \/ call'[d] = Idle
    BY <1>2, AbandonsInTurn DEF PeopleInv
  <2> QED
    BY <2>1, <1>2 DEF PeopleInv, PeopleTyped, people, Chosen
<1>3. ASSUME NEW e \in Workers, lastDayPasses(e)
      PROVE  PeopleInv'
  <2>1. person' \in [Workers -> Employee] /\ UNCHANGED <<running, owner, told, stranded>>
    BY <1>3 DEF lastDayPasses, Others, PeopleInv, PeopleTyped, Employee
  <2>2. CallsAre(PeopleJobs)' /\ InTurn'
    BY <2>1, RestsInTurn DEF PeopleInv
  <2> QED
    BY <2>1, <2>2 DEF PeopleInv, PeopleTyped, running, OnTheWay, Chosen, WorkOf
<1>4. ASSUME NEW c \in Calls, PeopleCommits(c)
      PROVE  PeopleInv'
  <2>1. call[c] \in PeopleJobs
    <3>1. call[c].op # "IDLE"
      BY <1>4 DEF PeopleCommits, recordResignation, changeTx, withdrawTx, offboardEmployee, lockOut,
                  chooseTarget, moveLeadOwnership, moveRest, handOverFails, summary, notifyManagement, offboarded
    <3> QED
      BY <3>1 DEF PeopleInv, CallsAre, Idle
  <2> QED
    BY <1>4, <2>1, ResignationWritten, OffboardingGoesOn DEF PeopleCommits
<1> QED
  BY <1>1, <1>2, <1>3, <1>4, PartOnly, PeopleRequested DEF PeopleNext

HandOverInv ==
    /\ part = "PEOPLE" => PeopleInv
    /\ part # "PEOPLE" => stranded = {}

\* Handled one request at a time, whatever the workflow refuses to move, whichever query of
\* the hand-over fails and whoever was chosen to take it over: no offboarding ends with a
\* lead, a task or a customer of the company left and management not told.
THEOREM LeaversCorrect == Spec => []WorkHandedOnOrTold
<1>1. Init => HandOverInv
  BY PeopleBegin DEF Init, PeopleInit, HandOverInv
<1>2. HandOverInv /\ [Next]_vars => HandOverInv'
  BY PartOnly, PeopleStep DEF HandOverInv, people
<1>3. HandOverInv => WorkHandedOnOrTold
  BY DEF HandOverInv, PeopleInv, NoneStranded, WorkHandedOnOrTold
<1> QED
  BY <1>1, <1>2, <1>3, PTL DEF Spec

-----------------------------------------------------------------------------
(* Conversions.                                                             *)

OppRow == [owner : Agents, item : Items \cup {None}, booking : Nat]
SaleRow == [item : Items, live : BOOLEAN]
DealRows == opportunity \in Seq(OppRow) /\ sale \in Seq(SaleRow) /\ taken \subseteq Items

\* An opportunity names no booking but its own, and every booking has its opportunity.
Linked ==
    /\ \A o \in DOMAIN opportunity : opportunity[o].booking <= Len(sale)
    /\ \A b \in DOMAIN sale : \E o \in DOMAIN opportunity : opportunity[o].booking = b
    /\ \A o, p \in DOMAIN opportunity :
         opportunity[o].booking = opportunity[p].booking /\ opportunity[o].booking # 0 => o = p

\* A taken item is held by one booking that is alive.
Held ==
    /\ \A b \in DOMAIN sale : sale[b].live => sale[b].item \in taken
    /\ \A item \in taken : \E b \in DOMAIN sale : sale[b].live /\ sale[b].item = item
    /\ \A a, b \in DOMAIN sale :
         sale[a].live /\ sale[b].live /\ sale[a].item = sale[b].item => a = b

\* What a handler read, of the opportunity it converts or for the one it opens; only a
\* demo's removal has more to do after it.
Going(job) ==
    /\ job = [op |-> job.op, on |-> job.on, seen |-> job.seen, item |-> job.item,
              who |-> job.who, then |-> job.then]
    /\ job.op = "convert" => job.on \in DOMAIN opportunity /\ job.item \in Items
    /\ job.op = "open" => job.who \in Agents /\ job.item \in Items \cup {None}
    /\ job.then = IF job.op = "remove" THEN <<"revert">> ELSE <<>>

DealsInv ==
    /\ DealRows /\ Linked /\ Held
    /\ call = [c \in Calls |-> call[c]]
    /\ \A c \in Calls : call[c] # Idle => Going(call[c])

LEMMA DealsBegin == ASSUME Init, part = "DEALS" PROVE DealsInv
<1>1. sale = <<>> /\ taken = {} /\ call = [c \in Calls |-> Idle]
  BY DEF Init, DealsInit, HandlersInit
<1>2. PICK s \in StartDeals : opportunity = s.opps
  BY DEF Init, DealsInit
<1>3. opportunity \in Seq([owner : Agents, item : Items \cup {None}, booking : {0}])
  BY <1>2, StartDealsAssumption
<1> DEFINE Fresh == [owner : Agents, item : Items \cup {None}, booking : {0}]
<1>4. \A o \in DOMAIN opportunity : opportunity[o] \in Fresh
  <2>1. opportunity \in Seq(Fresh)
    BY <1>3
  <2> HIDE DEF Fresh
  <2> QED
    BY <2>1, ElementOfSeq
<1>5. opportunity \in Seq(OppRow)
  <2>1. \A o \in 1 .. Len(opportunity) : opportunity[o] \in OppRow
    BY <1>3, <1>4 DEF OppRow
  <2> QED
    BY <1>3, <2>1
<1>6. DealRows /\ Held
  BY <1>1, <1>5 DEF DealRows, Held
<1>7. Linked
  BY <1>1, <1>4 DEF Linked
<1> QED
  BY <1>1, <1>6, <1>7 DEF DealsInv

LEMMA RowTypes ==
  ASSUME DealRows
  PROVE  /\ Len(opportunity) \in Nat /\ DOMAIN opportunity = 1 .. Len(opportunity)
         /\ Len(sale) \in Nat /\ DOMAIN sale = 1 .. Len(sale)
         /\ \A o \in DOMAIN opportunity : opportunity[o] \in OppRow
         /\ \A b \in DOMAIN sale : sale[b] \in SaleRow
  BY ElementOfSeq DEF DealRows

\* An opportunity more, or another target of one, links no booking.
LEMMA MoreOpportunities ==
  ASSUME DealRows, Linked, Held, opportunity' \in Seq(OppRow), UNCHANGED <<sale, taken>>,
         DOMAIN opportunity \subseteq DOMAIN opportunity',
         \A o \in DOMAIN opportunity : opportunity'[o].booking = opportunity[o].booking,
         \A o \in DOMAIN opportunity' \ DOMAIN opportunity : opportunity'[o].booking = 0
  PROVE  DealRows' /\ Linked' /\ Held'
<1>1. DealRows' /\ Held'
  BY DEF DealRows, Held
<1>2. Linked'
  BY RowTypes DEF Linked
<1> QED
  BY <1>1, <1>2

\* One more opportunity at the end.
LEMMA OneMore ==
  ASSUME DealRows, Linked, Held, NEW e \in Agents, NEW item \in Items \cup {None},
         opportunity' = Append(opportunity, Opp(e, item)), UNCHANGED <<sale, taken>>
  PROVE  DealRows' /\ Linked' /\ Held' /\ DOMAIN opportunity \subseteq DOMAIN opportunity'
<1>1. PICK row : row = Opp(e, item)
  OBVIOUS
<1>2. row \in OppRow /\ row.booking = 0
  BY <1>1 DEF Opp, OppRow
<1>3. /\ opportunity' \in Seq(OppRow) /\ Len(opportunity') = Len(opportunity) + 1
      /\ \A o \in 1 .. Len(opportunity) : opportunity'[o] = opportunity[o]
      /\ opportunity'[Len(opportunity) + 1] = row
  BY <1>1, <1>2, AppendProperties DEF DealRows
<1>4. DOMAIN opportunity' = 1 .. Len(opportunity) + 1
  BY <1>3
<1> QED
  BY <1>2, <1>3, <1>4, RowTypes, MoreOpportunities

\* What a handler is about to convert stays there.
LEMMA GoingStays ==
  ASSUME DOMAIN opportunity \subseteq DOMAIN opportunity', NEW job, Going(job)
  PROVE  Going(job)'
  BY DEF Going

LEMMA CallsGoOn ==
  ASSUME DealsInv, NEW c \in Calls, NEW job, call' = [call EXCEPT ![c] = job],
         job # Idle => Going(job)', DOMAIN opportunity \subseteq DOMAIN opportunity'
  PROVE  /\ call' = [d \in Calls |-> call'[d]]
         /\ \A d \in Calls : call'[d] # Idle => Going(call[d])'
<1>1. call = [d \in Calls |-> call[d]]
  BY DEF DealsInv
<1>2. /\ call' = [d \in Calls |-> call'[d]] /\ call'[c] = job
      /\ \A d \in Calls \ {c} : call'[d] = call[d]
  BY <1>1
<1>3. \A d \in Calls \ {c} : call'[d] # Idle => Going(call[d])'
  BY <1>2, GoingStays DEF DealsInv, Going
<1> QED
  BY <1>2, <1>3 DEF Going

\* A handler starts.
LEMMA DealRequested ==
  ASSUME DealsInv, NEW c \in Accepting, DealRequests(c)
  PROVE  DealsInv'
<1>0. c \in Calls
  BY AcceptingAreCalls
<1>1. ASSUME NEW job, Read(c, job), Going(job)
      PROVE  DealsInv'
  <2>1. call' = [call EXCEPT ![c] = job] /\ UNCHANGED <<opportunity, sale, taken>>
    BY <1>1 DEF Read, Begin, deals
  <2>2. Going(job)'
    BY <1>1, <2>1 DEF Going
  <2>3. /\ call' = [d \in Calls |-> call'[d]]
        /\ \A d \in Calls : call'[d] # Idle => Going(call[d])'
    BY <1>0, <2>1, <2>2, CallsGoOn
  <2> QED
    BY <2>1, <2>3 DEF DealsInv, DealRows, Linked, Held
<1>2. ASSUME NEW op, NEW on, NEW item, NEW then, op \notin {"convert", "open"},
             then = IF op = "remove" THEN <<"revert">> ELSE <<>>
      PROVE  /\ Going(DealJob(op, on, item, then))
             /\ \A e : Going([DealJob(op, on, item, then) EXCEPT !.who = e])
  BY <1>2 DEF Going, DealJob
<1>3. ASSUME NEW e \in Agents, NEW item \in Items \cup {None}, createFromLead(c, e, item)
      PROVE  DealsInv'
  <2>1. Read(c, [DealJob("open", 0, item, <<>>) EXCEPT !.who = e])
    BY <1>3 DEF createFromLead
  <2>2. PICK job : job = [DealJob("open", 0, item, <<>>) EXCEPT !.who = e]
    OBVIOUS
  <2>3. Going(job)
    BY <2>2 DEF Going, DealJob
  <2> QED
    BY <1>1, <2>1, <2>2, <2>3
<1>4. ASSUME NEW e, NEW o \in DOMAIN opportunity, NEW item \in Items,
             updateOpportunity(c, e, o, item)
      PROVE  DealsInv'
  <2>1. /\ opportunity' = [opportunity EXCEPT ![o].item = item]
        /\ UNCHANGED <<sale, taken>> /\ call' = [call EXCEPT ![c] = Idle]
    BY <1>4 DEF updateOpportunity, Serve, Begin
  <2>2. PICK row : row = [opportunity[o] EXCEPT !.item = item]
    OBVIOUS
  <2>3. row \in OppRow /\ row.booking = opportunity[o].booking
    BY <2>2, RowTypes DEF DealsInv, OppRow
  <2>4. opportunity' = [opportunity EXCEPT ![o] = row]
    BY <2>1, <2>2
  <2>5. /\ opportunity' \in Seq(OppRow) /\ Len(opportunity') = Len(opportunity)
        /\ \A p \in 1 .. Len(opportunity) :
             opportunity'[p] = IF p = o THEN row ELSE opportunity[p]
    BY <2>3, <2>4, RowTypes, ExceptSeq DEF DealsInv, DealRows
  <2>6. DOMAIN opportunity' = DOMAIN opportunity
    BY <2>4
  <2>7. \A p \in DOMAIN opportunity : opportunity'[p].booking = opportunity[p].booking
    BY <2>3, <2>5, RowTypes DEF DealsInv
  <2>8. DealRows' /\ Linked' /\ Held'
    BY <2>1, <2>5, <2>6, <2>7, MoreOpportunities DEF DealsInv
  <2>9. /\ call' = [d \in Calls |-> call'[d]]
        /\ \A d \in Calls : call'[d] # Idle => Going(call[d])'
    BY <1>0, <2>1, <2>6, CallsGoOn
  <2> QED
    BY <2>8, <2>9 DEF DealsInv
<1>5. ASSUME NEW e, NEW o \in DOMAIN opportunity, convertToBooking(c, e, o)
      PROVE  DealsInv'
  <2>1. opportunity[o].item # None /\ Read(c, DealJob("convert", o, opportunity[o].item, <<>>))
    BY <1>5 DEF convertToBooking
  <2>2. opportunity[o].item \in Items
    BY <2>1, RowTypes DEF DealsInv, OppRow
  <2>3. PICK job : job = DealJob("convert", o, opportunity[o].item, <<>>)
    OBVIOUS
  <2>4. Going(job)
    BY <2>2, <2>3 DEF Going, DealJob
  <2> QED
    BY <1>1, <2>1, <2>3, <2>4
<1>6. ASSUME NEW e, NEW d,
             \/ acceptDemo(c, e, d) \/ declineDemo(c, e, d) \/ completeDemo(c, e, d)
             \/ cancelDemo(c, e, d)
      PROVE  DealsInv'
  <2>1. PICK op, then :
          /\ op \in {"accept", "decline", "complete", "remove"}
          /\ then = IF op = "remove" THEN <<"revert">> ELSE <<>>
          /\ Read(c, DealJob(op, d, None, then))
    BY <1>6 DEF acceptDemo, declineDemo, completeDemo, cancelDemo
  <2>2. PICK job : job = DealJob(op, d, None, then)
    OBVIOUS
  <2>3. Going(job)
    BY <1>2, <2>1, <2>2
  <2> QED
    BY <1>1, <2>1, <2>2, <2>3
<1>7. ASSUME NEW e, NEW d, NEW to, reassignDemo(c, e, d, to)
      PROVE  DealsInv'
  <2>1. PICK job : job = [DealJob("reassign", d, None, <<>>) EXCEPT !.who = to]
    OBVIOUS
  <2>2. Going(job)
    BY <1>2, <2>1
  <2> QED
    BY <1>1, <1>7, <2>1, <2>2 DEF reassignDemo
<1> QED
  BY <1>3, <1>4, <1>5, <1>6, <1>7 DEF DealRequests

\* A conversion books what was read of it, if the item is free and the opportunity not yet
\* converted.
LEMMA Converted ==
  ASSUME DealsInv, NEW c \in Calls, convertTx(c)
  PROVE  DealsInv'
<1>1. /\ call[c] # Idle /\ call[c].op = "convert" /\ Going(call[c])
  <2>1. call[c].op = "convert"
    BY DEF convertTx
  <2>2. call[c] # Idle
    BY <2>1 DEF Idle
  <2> QED
    BY <2>1, <2>2 DEF DealsInv
<1>2. PICK o \in DOMAIN opportunity, item \in Items : call[c].on = o /\ call[c].item = item
  BY <1>1 DEF Going
<1>3. call' = [call EXCEPT ![c] = Idle]
  BY <1>1 DEF convertTx, Done, Continue, Going
<1>4. CASE UNCHANGED <<sale, taken, opportunity>>
  <2>1. /\ call' = [d \in Calls |-> call'[d]]
        /\ \A d \in Calls : call'[d] # Idle => Going(call[d])'
    BY <1>3, <1>4, CallsGoOn
  <2> QED
    BY <1>4, <2>1 DEF DealsInv, DealRows, Linked, Held
<1>5. CASE /\ item \notin taken /\ opportunity[o].booking = 0
           /\ sale' = Append(sale, [item |-> item, live |-> TRUE])
           /\ taken' = taken \cup {item}
           /\ opportunity' = [opportunity EXCEPT ![o].booking = Len(sale) + 1]
  <2> DEFINE n == Len(sale) + 1
             row == [opportunity[o] EXCEPT !.booking = n]
             new == [item |-> item, live |-> TRUE]
  <2>1. n \in Nat /\ n # 0 /\ n \notin DOMAIN sale
    BY RowTypes DEF DealsInv
  <2>2. row \in OppRow /\ row.booking = n
    BY <2>1, RowTypes DEF DealsInv, OppRow
  <2>3. new \in SaleRow /\ new.item = item /\ new.live
    BY DEF SaleRow
  <2>4. opportunity' = [opportunity EXCEPT ![o] = row]
    BY <1>5
  <2>5. sale' = Append(sale, new)
    BY <1>5
  <2> HIDE DEF row, new
  <2>6. /\ opportunity' \in Seq(OppRow) /\ DOMAIN opportunity' = DOMAIN opportunity
        /\ opportunity'[o] = row
        /\ \A p \in DOMAIN opportunity \ {o} : opportunity'[p] = opportunity[p]
    BY <2>2, <2>4, RowTypes, ExceptSeq DEF DealsInv, DealRows
  <2>7. /\ sale' \in Seq(SaleRow) /\ Len(sale') = n /\ DOMAIN sale' = DOMAIN sale \cup {n}
        /\ sale'[n] = new /\ \A b \in DOMAIN sale : sale'[b] = sale[b]
    BY <2>3, <2>5, RowTypes, AppendProperties DEF DealsInv, DealRows
  <2>8. DealRows'
    BY <1>5, <2>6, <2>7 DEF DealsInv, DealRows
  <2>9. Linked'
    <3>1. \A p \in DOMAIN opportunity \ {o} : opportunity[p].booking < n
      BY <2>1, RowTypes DEF DealsInv, Linked, OppRow
    <3>2. \A b \in DOMAIN sale : \E p \in DOMAIN opportunity \ {o} : opportunity[p].booking = b
      BY <1>5, RowTypes DEF DealsInv, Linked
    <3> HIDE DEF n
    <3>3. \A p \in DOMAIN opportunity' : opportunity'[p].booking <= Len(sale')
      BY <2>1, <2>2, <2>6, <2>7, <3>1, RowTypes DEF DealsInv, OppRow
    <3>4. \A b \in DOMAIN sale' : \E p \in DOMAIN opportunity' : opportunity'[p].booking = b
      BY <2>2, <2>6, <2>7, <3>2
    <3>5. ASSUME NEW p \in DOMAIN opportunity, NEW q \in DOMAIN opportunity,
                 opportunity'[p].booking = opportunity'[q].booking, opportunity'[p].booking # 0
          PROVE  p = q
      <4>1. CASE p # o /\ q # o
        BY <2>6, <3>5, <4>1 DEF DealsInv, Linked
      <4>2. \A r \in DOMAIN opportunity \ {o} : opportunity'[r].booking # n
        BY <2>1, <2>6, <3>1, RowTypes DEF DealsInv, OppRow
      <4> QED
        BY <2>2, <2>6, <3>5, <4>1, <4>2
    <3> QED
      BY <2>6, <3>3, <3>4, <3>5 DEF Linked
  <2>10. Held'
    <3> HIDE DEF n
    <3>1. \A b \in DOMAIN sale' : sale'[b].live => sale'[b].item \in taken'
      BY <1>5, <2>3, <2>7 DEF DealsInv, Held
    <3>2. \A i \in taken' : \E b \in DOMAIN sale' : sale'[b].live /\ sale'[b].item = i
      BY <1>5, <2>3, <2>7 DEF DealsInv, Held
    <3>3. \A b \in DOMAIN sale : sale[b].live => sale[b].item # item
      BY <1>5 DEF DealsInv, Held
    <3>4. \A a, b \in DOMAIN sale' :
            sale'[a].live /\ sale'[b].live /\ sale'[a].item = sale'[b].item => a = b
      BY <2>3, <2>7, <3>3 DEF DealsInv, Held
    <3> QED
      BY <3>1, <3>2, <3>4 DEF Held
  <2>11. /\ call' = [d \in Calls |-> call'[d]]
         /\ \A d \in Calls : call'[d] # Idle => Going(call[d])'
    BY <1>3, <2>6, CallsGoOn
  <2> QED
    BY <2>8, <2>9, <2>10, <2>11 DEF DealsInv
<1> QED
  BY <1>2, <1>4, <1>5 DEF convertTx, Unconverted

\* The other writes of a handler: an opportunity is opened, or only demos and the lead change.
LEMMA DealWritten ==
  ASSUME DealsInv, NEW c \in Calls,
         openOpportunity(c) \/ rewriteDemo(c) \/ completeDemoTx(c) \/ removeDemo(c) \/ revertLead(c)
  PROVE  DealsInv'
<1>1. call[c] # Idle /\ Going(call[c]) /\ Done(c) /\ UNCHANGED <<sale, taken>>
  <2>1. call[c].op # "IDLE"
    BY DEF openOpportunity, rewriteDemo, completeDemoTx, removeDemo, revertLead
  <2>2. call[c] # Idle
    BY <2>1 DEF Idle
  <2> QED
    BY <2>2 DEF DealsInv, openOpportunity, rewriteDemo, completeDemoTx, removeDemo, revertLead, HeldLead
<1>2. PICK job :
        /\ call' = [call EXCEPT ![c] = job]
        /\ job # Idle => Going(job) /\ job.op \notin {"convert", "open"}
  <2>1. CASE call[c].then = <<>>
    BY <1>1, <2>1 DEF Done, Continue
  <2>2. CASE call[c].then = <<"revert">>
    <3> DEFINE next == [call[c] EXCEPT !.op = Head(call[c].then), !.then = Tail(call[c].then)]
    <3>1. Head(call[c].then) = "revert" /\ Tail(call[c].then) = <<>>
      BY <2>2
    <3>2. call' = [call EXCEPT ![c] = next]
      BY <1>1, <2>2 DEF Done, Continue
    <3>3. PICK op, on, seen, item, who, then :
            call[c] = [op |-> op, on |-> on, seen |-> seen, item |-> item, who |-> who, then |-> then]
      BY <1>1 DEF Going
    <3>4. next = [op |-> "revert", on |-> on, seen |-> seen, item |-> item, who |-> who,
                  then |-> <<>>]
      <4> DEFINE once == [call[c] EXCEPT !.op = "revert"]
      <4>1. next = [once EXCEPT !.then = <<>>]
        BY <3>1
      <4>2. once = [op |-> "revert", on |-> on, seen |-> seen, item |-> item, who |-> who,
                    then |-> then]
        BY <3>3
      <4> HIDE DEF next, once
      <4> QED
        BY <4>1, <4>2
    <3> HIDE DEF next
    <3>5. Going(next) /\ next.op \notin {"convert", "open"}
      BY <3>4 DEF Going
    <3> QED
      BY <3>2, <3>5
  <2> QED
    BY <1>1, <2>1, <2>2 DEF Going
<1>3. /\ DealRows' /\ Linked' /\ Held'
      /\ DOMAIN opportunity \subseteq DOMAIN opportunity'
  <2>1. CASE UNCHANGED opportunity
    BY <1>1, <2>1 DEF DealsInv, DealRows, Linked, Held
  <2>2. CASE openOpportunity(c)
    <3>1. opportunity' = Append(opportunity, Opp(call[c].who, call[c].item))
      BY <2>2 DEF openOpportunity
    <3> QED
      BY <1>1, <2>2, <3>1, OneMore DEF DealsInv, Going, openOpportunity
  <2> QED
    BY <2>1, <2>2 DEF rewriteDemo, completeDemoTx, removeDemo, revertLead, HeldLead
<1>4. /\ call' = [d \in Calls |-> call'[d]]
      /\ \A d \in Calls : call'[d] # Idle => Going(call[d])'
  BY <1>2, <1>3, CallsGoOn DEF Going
<1> QED
  BY <1>3, <1>4 DEF DealsInv

\* A booking ends, or the lead moves by another handler's doing.
LEMMA DealsMoved ==
  ASSUME DealsInv, DealsAround
  PROVE  DealsInv'
<1>1. ASSUME NEW b \in DOMAIN sale, bookingEnds(b)
      PROVE  DealsInv'
  <2>1. /\ sale[b].live /\ sale' = [sale EXCEPT ![b].live = FALSE]
        /\ taken' = taken \ {sale[b].item} /\ UNCHANGED <<call, opportunity>>
    BY <1>1 DEF bookingEnds, running
  <2> DEFINE row == [sale[b] EXCEPT !.live = FALSE]
  <2>2. row \in SaleRow /\ ~row.live
    BY RowTypes DEF DealsInv, SaleRow
  <2>3. sale' = [sale EXCEPT ![b] = row]
    BY <2>1
  <2> HIDE DEF row
  <2>4. /\ sale' \in Seq(SaleRow) /\ Len(sale') = Len(sale) /\ DOMAIN sale' = DOMAIN sale
        /\ sale'[b] = row /\ \A a \in DOMAIN sale \ {b} : sale'[a] = sale[a]
    BY <2>2, <2>3, RowTypes, ExceptSeq DEF DealsInv, DealRows
  <2>5. DealRows' /\ Linked'
    BY <2>1, <2>4 DEF DealsInv, DealRows, Linked
  <2>6. Held'
    BY <2>1, <2>2, <2>4 DEF DealsInv, Held
  <2> QED
    BY <2>1, <2>5, <2>6 DEF DealsInv, Going
<1>2. ASSUME NEW to, leadMoves(to)
      PROVE  DealsInv'
  <2>1. UNCHANGED <<call, sale, taken>>
    BY <1>2 DEF leadMoves, running
  <2>2. CASE UNCHANGED opportunity
    BY <2>1, <2>2 DEF DealsInv, DealRows, Linked, Held, Going
  <2>3. ASSUME NEW e \in Agents, NEW item \in Items \cup {None}, opportunity = <<>>,
               opportunity' = <<Opp(e, item)>>
        PROVE  DealsInv'
    <3>1. opportunity' = Append(opportunity, Opp(e, item))
      BY <2>3
    <3>2. /\ DealRows' /\ Linked' /\ Held' /\ DOMAIN opportunity \subseteq DOMAIN opportunity'
      BY <2>1, <3>1, OneMore DEF DealsInv
    <3> QED
      BY <2>1, <3>2, GoingStays DEF DealsInv, Going
  <2> QED
    BY <1>2, <2>2, <2>3 DEF leadMoves, createFromLeadTx
<1> QED
  BY <1>1, <1>2 DEF DealsAround

LEMMA DealsStep ==
  ASSUME part = "DEALS", DealsInv, [Next]_vars
  PROVE  DealsInv'
<1>1. CASE UNCHANGED <<running, deals>>
  BY <1>1 DEF DealsInv, running, deals, DealRows, Linked, Held, Going
<1>2. ASSUME NEW c \in Calls, Abandon(c), UNCHANGED deals
      PROVE  DealsInv'
  <2>1. call' = [call EXCEPT ![c] = Idle] /\ UNCHANGED <<opportunity, sale, taken>>
    BY <1>2 DEF Abandon, deals
  <2>2. /\ call' = [d \in Calls |-> call'[d]]
        /\ \A d \in Calls : call'[d] # Idle => Going(call[d])'
    BY <2>1, CallsGoOn
  <2> QED
    BY <2>1, <2>2 DEF DealsInv, DealRows, Linked, Held
<1> QED
  BY <1>1, <1>2, PartOnly, DealRequested, Converted, DealWritten, DealsMoved DEF DealsNext, DealCommits

ConversionsInv ==
    /\ part = "DEALS" => DealsInv
    /\ part # "DEALS" => sale = <<>> /\ taken = {}

\* However many conversions race, and whatever is edited between their reads and their
\* writes, an opportunity has one booking, every booking its opportunity, and every taken
\* item one booking that holds it.
THEOREM ConversionsCorrect == Spec => []ConvertedOnce
<1>1. Init => ConversionsInv
  BY DealsBegin DEF Init, DealsInit, ConversionsInv
<1>2. ConversionsInv /\ [Next]_vars => ConversionsInv'
  BY PartOnly, DealsStep DEF ConversionsInv, deals
<1>3. ConversionsInv => ConvertedOnce
  <2> SUFFICES ASSUME ConversionsInv PROVE ConvertedOnce
    OBVIOUS
  <2>1. Held /\ (part = "DEALS" => Linked)
    BY DEF ConversionsInv, DealsInv, Held
  <2>2. ASSUME NEW b \in DOMAIN sale
        PROVE  Cardinality({o \in DOMAIN opportunity : opportunity[o].booking = b}) = 1
    <3>1. part = "DEALS" /\ b # 0
      BY <2>2, RowTypes DEF ConversionsInv, DealsInv
    <3>2. PICK o \in DOMAIN opportunity : opportunity[o].booking = b
      BY <2>1, <3>1 DEF Linked
    <3>3. {p \in DOMAIN opportunity : opportunity[p].booking = b} = {o}
      BY <2>1, <3>1, <3>2 DEF Linked
    <3> QED
      BY <3>3, FS_Singleton
  <2>3. ASSUME NEW item \in Items
        PROVE  Cardinality({b \in DOMAIN sale : sale[b].item = item /\ sale[b].live})
                 = (IF item \in taken THEN 1 ELSE 0)
    <3>1. CASE item \in taken
      <4>1. PICK b \in DOMAIN sale : sale[b].item = item /\ sale[b].live
        BY <2>1, <3>1 DEF Held
      <4>2. {a \in DOMAIN sale : sale[a].item = item /\ sale[a].live} = {b}
        BY <2>1, <4>1 DEF Held
      <4> QED
        BY <3>1, <4>2, FS_Singleton
    <3>2. CASE item \notin taken
      <4>1. {a \in DOMAIN sale : sale[a].item = item /\ sale[a].live} = {}
        BY <2>1, <3>2 DEF Held
      <4> QED
        BY <3>2, <4>1, FS_EmptySet
    <3> QED
      BY <3>1, <3>2
  <2> QED
    BY <2>2, <2>3 DEF ConvertedOnce
<1> QED
  BY <1>1, <1>2, <1>3, PTL DEF Spec

-----------------------------------------------------------------------------
(* Sign-ins: a refresh key makes one next key, for any number of keys and   *)
(* of handlers, wherever they overlap or stop.                              *)

KeyRow == [family : Nat, consumed : BOOLEAN, revoked : BOOLEAN, kept : BOOLEAN, parent : Nat,
           grace : BOOLEAN]
Refreshing == [op : {"again", "others", "refresh"}, key : Nat, todo : SUBSET {"consume", "look"},
        won : BOOLEAN, saw : SUBSET {"KNOWN", "CONSUMED", "REVOKED"}, grant : BOOLEAN]

KeyRows == key \in Seq(KeyRow) /\ key # <<>>
KeyJobs == /\ call \in [Calls -> Refreshing \cup {Idle}]
           /\ \A c \in Calls : call[c] # Idle => call[c].key \in Keys

\* A key is younger than the one it follows.
KeyParents == \A j \in Keys : key[j].parent < j

\* The handler has used its key up and owes it a next one.
Owes(c) == call[c] # Idle /\ call[c].op = "refresh" /\ call[c].won
Unspent == \A c \in Calls : call[c] # Idle /\ "consume" \in call[c].todo => ~call[c].won

\* The next keys of a key: those made for it otherwise than by forgiveness.
Follows(j) == key[j].parent # 0 /\ ~key[j].grace

OneEach ==
    /\ \A i, j \in Keys : Follows(i) /\ Follows(j) /\ key[i].parent = key[j].parent => i = j
    /\ \A c \in Calls, j \in Keys : Owes(c) /\ Follows(j) => call[c].key # key[j].parent
    /\ \A c, d \in Calls : Owes(c) /\ Owes(d) /\ call[c].key = call[d].key => c = d

UsedUp ==
    /\ \A j \in Keys : Follows(j) => key[key[j].parent].consumed
    /\ \A c \in Calls : Owes(c) => key[call[c].key].consumed

SignInInv == KeyRows /\ KeyJobs /\ KeyParents /\ Unspent /\ OneEach /\ UsedUp

\* A behaviour about another part leaves the first key as it began.
SignInsIInv == /\ part # "SIGNINS" => key = <<Key(1, 0, FALSE)>>
               /\ part = "SIGNINS" => SignInInv /\ admitted \in BOOLEAN

-----------------------------------------------------------------------------
KeyStep == \/ \E c \in Accepting : KeyRequests(c)
           \/ \E c \in Calls : KeyCommits(c) \/ (Abandon(c) /\ UNCHANGED signins)
           \/ KeysAround

\* Only its own part moves.
LEMMA KeyPartOnly ==
  ASSUME [Next]_vars
  PROVE  /\ part' = part
         /\ part # "SIGNINS" => UNCHANGED signins
         /\ part = "SIGNINS" => KeyStep \/ UNCHANGED <<signins, call>>
<1>1. CASE UNCHANGED vars
  BY <1>1 DEF vars, running
<1>2. CASE Next
  BY <1>2 DEF Next, DealsNext, ExpensesNext, ComplaintsNext, TasksNext, PeopleNext, SignInsNext,
              MasterDataNext, KeyStep
<1> QED
  BY <1>1, <1>2

-----------------------------------------------------------------------------
(* What the steps do to the rows.                                           *)

\* KeyRows are only marked: none is added, no use is taken back.
KeysMarked == /\ key' \in Seq(KeyRow) /\ Len(key') = Len(key)
              /\ \A k \in Keys : /\ key'[k].parent = key[k].parent /\ key'[k].grace = key[k].grace
                                 /\ key[k].consumed => key'[k].consumed

LEMMA KeyTypes ==
  ASSUME KeyRows
  PROVE  /\ Keys = 1 .. Len(key) /\ Len(key) \in Nat /\ Len(key) # 0
         /\ \A k \in Keys : key[k] \in KeyRow
<1>1. Keys = 1 .. Len(key) /\ Len(key) \in Nat /\ Len(key) # 0
  BY DEF KeyRows, Keys
<1>2. \A k \in 1 .. Len(key) : key[k] \in KeyRow
  BY ElementOfSeq DEF KeyRows
<1> QED
  BY <1>1, <1>2

LEMMA RevokedMarks ==
  ASSUME KeyRows, NEW S, key' = Revoked(S)
  PROVE  KeysMarked
<1>1. \A k \in Keys : (IF k \in S THEN [key[k] EXCEPT !.revoked = TRUE] ELSE key[k]) \in KeyRow
  BY KeyTypes DEF KeyRow
<1>2. key' = [k \in Keys |-> IF k \in S THEN [key[k] EXCEPT !.revoked = TRUE] ELSE key[k]]
  BY DEF Revoked
<1>3. Keys = 1 .. Len(key) /\ Len(key) \in Nat
  BY DEF KeyRows, Keys
<1>4. key' \in [1 .. Len(key) -> KeyRow]
  BY <1>1, <1>2, <1>3
<1>5. key' \in Seq(KeyRow) /\ Len(key') = Len(key)
  BY <1>3, <1>4
<1> QED
  BY <1>2, <1>5, KeyTypes DEF KeysMarked, KeyRow

LEMMA SameMarks ==
  ASSUME KeyRows, key' = key
  PROVE  KeysMarked
  BY DEF KeyRows, KeysMarked, Keys

LEMMA MarkedKeeps ==
  ASSUME SignInInv, KeysMarked
  PROVE  /\ Keys' = Keys /\ KeyRows' /\ KeyParents'
         /\ \A j \in Keys : /\ key'[j].parent = key[j].parent
                            /\ Follows(j)' <=> Follows(j)
                            /\ Follows(j)' => /\ key[key[j].parent].consumed
                                              /\ key'[key[j].parent].consumed
         /\ \A k \in Keys : key[k].consumed => key'[k].consumed
<1>1. Keys' = Keys /\ Keys = 1 .. Len(key)
  BY DEF KeysMarked, Keys, SignInInv, KeyRows
<1>2. KeyRows'
  BY DEF KeysMarked, KeyRows, SignInInv
<1>3. KeyParents'
  BY <1>1 DEF SignInInv, KeyParents, KeysMarked
<1>4. \A j \in Keys : Follows(j)' <=> Follows(j)
  BY DEF KeysMarked, Follows
<1>5. ASSUME NEW j \in Keys, Follows(j)
      PROVE  key[key[j].parent].consumed /\ key'[key[j].parent].consumed
  <2>1. key[j] \in KeyRow /\ j \in Nat /\ key[j].parent \in Nat
    BY <1>1, KeyTypes DEF SignInInv, KeyRow
  <2>2. key[j].parent \in Keys
    BY <2>1, <1>5, <1>1 DEF SignInInv, KeyParents, Follows, KeyRows
  <2> QED
    BY <1>5, <2>2 DEF SignInInv, UsedUp, KeysMarked
<1> QED
  BY <1>1, <1>2, <1>3, <1>4, <1>5 DEF KeysMarked

\* Nobody comes to owe a key by a step that only marks rows and gives each handler a fresh
\* job, none, or the one it had.
LEMMA KeyMarkStep ==
  ASSUME SignInInv, KeysMarked, call' \in [Calls -> Refreshing \cup {Idle}],
         \A c \in Calls : \/ call'[c] = call[c]
                          \/ call'[c] = Idle
                          \/ call'[c].key \in Keys /\ ~call'[c].won
                          \/ call'[c].key = call[c].key /\ Owes(c) /\ call'[c].todo \subseteq call[c].todo
  PROVE  SignInInv'
<1>1. Keys' = Keys /\ KeyRows' /\ KeyParents'
  BY MarkedKeeps
<1>2. KeyJobs'
  <2>1. \A c \in Calls : Owes(c) => call[c].key \in Keys
    BY DEF SignInInv, KeyJobs, Owes
  <2> QED
    BY <1>1, <2>1 DEF SignInInv, KeyJobs
<1>3. \A c \in Calls : Owes(c)' => Owes(c) /\ call'[c].key = call[c].key
  BY DEF Owes
<1>4. Unspent'
  BY DEF SignInInv, Unspent, Owes
<1>5. OneEach'
  BY <1>1, <1>3, MarkedKeeps DEF SignInInv, OneEach
<1>6. UsedUp'
  <2>1. ASSUME NEW c \in Calls, Owes(c)
        PROVE  key'[call[c].key].consumed
    <3>1. call[c].key \in Keys
      BY <2>1 DEF Owes, SignInInv, KeyJobs
    <3> QED
      BY <2>1, <3>1, MarkedKeeps DEF SignInInv, UsedUp
  <2> QED
    BY <1>1, <1>3, <2>1, MarkedKeeps DEF UsedUp
<1> QED
  BY <1>1, <1>2, <1>4, <1>5, <1>6 DEF SignInInv

\* A key is added that follows none, or that a handler owed, which is then done.
LEMMA KeyAddStep ==
  ASSUME SignInInv, NEW c \in Calls, NEW p \in Nat, NEW f \in Nat, NEW g \in BOOLEAN,
         key' = Append(key, Key(f, p, g)),
         call' = [call EXCEPT ![c] = Idle],
         p = 0 \/ (p \in Keys /\ (g \/ (Owes(c) /\ call[c].key = p)))
  PROVE  SignInInv'
<1>1. PICK n \in Nat : n = Len(key) /\ Keys = 1 .. n /\ n # 0
  BY KeyTypes DEF SignInInv
<1>2. Key(f, p, g) \in KeyRow /\ Key(f, p, g).parent = p /\ Key(f, p, g).grace = g
  BY DEF Key, KeyRow
<1>3. /\ key' \in Seq(KeyRow) /\ Len(key') = n + 1 /\ key'[n + 1] = Key(f, p, g)
      /\ \A j \in Keys : key'[j] = key[j]
  BY <1>1, <1>2 DEF SignInInv, KeyRows
<1>4. Keys' = Keys \cup {n + 1} /\ n + 1 \notin Keys
  BY <1>1, <1>3 DEF Keys
<1>5. KeyRows'
  BY <1>1, <1>3 DEF KeyRows
<1>6. /\ call' \in [Calls -> Refreshing \cup {Idle}] /\ call'[c] = Idle
      /\ \A d \in Calls \ {c} : call'[d] = call[d]
  BY DEF SignInInv, KeyJobs
<1>7. KeyJobs'
  BY <1>4, <1>6 DEF SignInInv, KeyJobs
<1>8. KeyParents'
  BY <1>1, <1>2, <1>3, <1>4 DEF SignInInv, KeyParents
<1>9. Unspent'
  BY <1>6 DEF SignInInv, Unspent
<1>10. \A j \in Keys : Follows(j)' <=> Follows(j)
  BY <1>3 DEF Follows
<1>11. Follows(n + 1)' => Owes(c) /\ call[c].key = p /\ key'[n + 1].parent = p /\ p \in Keys
  BY <1>2, <1>3 DEF Follows
<1>12. \A d \in Calls : Owes(d)' => d # c /\ Owes(d) /\ call'[d] = call[d]
  BY <1>6 DEF Owes
<1>13. \A j \in Keys : Follows(j) => key[j].parent \in Keys
  <2> SUFFICES ASSUME NEW j \in Keys, Follows(j)
               PROVE  key[j].parent \in Keys
    OBVIOUS
  <2>1. key[j].parent \in Nat /\ key[j].parent # 0 /\ key[j].parent < j
    BY KeyTypes DEF SignInInv, KeyParents, Follows, KeyRow
  <2> QED
    BY <2>1, <1>1
<1>14. \A d \in Calls : Owes(d) => call[d].key \in Keys
  BY DEF SignInInv, KeyJobs, Owes
<1>15. OneEach'
  <2>1. \A i, j \in Keys' : Follows(i)' /\ Follows(j)' /\ key'[i].parent = key'[j].parent => i = j
    <3> SUFFICES ASSUME NEW i \in Keys', NEW j \in Keys', Follows(i)', Follows(j)',
                        key'[i].parent = key'[j].parent
                 PROVE  i = j
      OBVIOUS
    <3>1. CASE i \in Keys /\ j \in Keys
      BY <1>3, <1>10, <3>1 DEF SignInInv, OneEach
    <3>2. ASSUME NEW m \in Keys, Follows(n + 1)', Follows(m)', key'[m].parent = key'[n + 1].parent
          PROVE  FALSE
      <4>1. Owes(c) /\ key'[n + 1].parent = call[c].key
        BY <1>11, <3>2
      <4>2. Follows(m) /\ key'[m].parent = key[m].parent
        BY <1>3, <1>10, <3>2
      <4> QED
        BY <3>2, <4>1, <4>2 DEF SignInInv, OneEach
    <3> QED
      BY <1>4, <3>1, <3>2
  <2>2. \A d \in Calls, j \in Keys' : Owes(d)' /\ Follows(j)' => call'[d].key # key'[j].parent
    <3> SUFFICES ASSUME NEW d \in Calls, NEW j \in Keys', Owes(d)', Follows(j)'
                 PROVE  call'[d].key # key'[j].parent
      OBVIOUS
    <3>1. Owes(d) /\ d # c /\ call'[d] = call[d]
      BY <1>12
    <3>2. CASE j \in Keys
      BY <1>3, <1>10, <3>1, <3>2 DEF SignInInv, OneEach
    <3>3. CASE j = n + 1
      BY <1>11, <3>1, <3>3 DEF SignInInv, OneEach
    <3> QED
      BY <1>4, <3>2, <3>3
  <2>3. \A d, e \in Calls : Owes(d)' /\ Owes(e)' /\ call'[d].key = call'[e].key => d = e
    BY <1>12 DEF SignInInv, OneEach
  <2> QED
    BY <2>1, <2>2, <2>3 DEF OneEach
<1>16. UsedUp'
  <2>1. \A j \in Keys' : Follows(j)' => key'[key'[j].parent].consumed
    <3> SUFFICES ASSUME NEW j \in Keys', Follows(j)'
                 PROVE  key'[key'[j].parent].consumed
      OBVIOUS
    <3>1. CASE j \in Keys
      BY <1>3, <1>10, <1>13, <3>1 DEF SignInInv, UsedUp
    <3>2. CASE j = n + 1
      BY <1>3, <1>11, <3>2 DEF SignInInv, UsedUp
    <3> QED
      BY <1>4, <3>1, <3>2
  <2>2. \A d \in Calls : Owes(d)' => key'[call'[d].key].consumed
    <3> SUFFICES ASSUME NEW d \in Calls, Owes(d)'
                 PROVE  key'[call'[d].key].consumed
      OBVIOUS
    <3>1. Owes(d) /\ call'[d] = call[d] /\ call[d].key \in Keys
      BY <1>12, <1>14
    <3> QED
      BY <1>3, <3>1 DEF SignInInv, UsedUp
  <2> QED
    BY <2>1, <2>2 DEF UsedUp
<1> QED
  BY <1>5, <1>7, <1>8, <1>9, <1>15, <1>16 DEF SignInInv

-----------------------------------------------------------------------------
(* The steps.                                                               *)

LEMMA FamilyIsNat ==
  ASSUME KeyRows
  PROVE  NewFamily \in Nat
<1> DEFINE f == [k \in Keys |-> key[k].family]
           T == {key[k].family : k \in Keys}
<1>1. IsFiniteSet(Keys)
  BY KeyTypes, FS_Interval
<1>2. f \in Surjection(Keys, T)
  BY DEF Surjection
<1>3. IsFiniteSet(T)
  <2> HIDE DEF f, T
  <2> QED
    BY <1>1, <1>2, FS_Surjection
<1>4. Cardinality(T) \in Nat
  <2> HIDE DEF T
  <2> QED
    BY <1>3, FS_CardinalityType
<1> QED
  BY <1>4 DEF NewFamily, Families

LEMMA KeyStarted ==
  ASSUME Init
  PROVE  SignInsIInv
<1>1. key = <<Key(1, 0, FALSE)>> /\ call = [c \in Calls |-> Idle]
  BY DEF Init, HandlersInit, SignInsInit
<1>2. /\ key \in Seq(KeyRow) /\ key # <<>> /\ Keys = {1} /\ key[1].parent = 0
  BY <1>1 DEF Key, KeyRow, Keys
<1>3. KeyRows /\ KeyParents
  <2>1. \A j \in Keys : j = 1 /\ key[j].parent = 0
    BY <1>2
  <2> QED
    BY <1>2, <2>1 DEF KeyRows, KeyParents
<1>3a. KeyJobs /\ Unspent
  BY <1>1 DEF KeyJobs, Unspent
<1>4. OneEach /\ UsedUp
  BY <1>1, <1>2 DEF OneEach, UsedUp, Follows, Owes
<1> QED
  BY <1>1, <1>3, <1>3a, <1>4 DEF SignInsIInv, SignInInv, Init, SignInsInit

\* A handler that stops, or that marks rows on its way out.
LEMMA KeyEndStep ==
  ASSUME SignInInv, NEW c \in Calls, KeysMarked, call' = [call EXCEPT ![c] = Idle]
  PROVE  SignInInv'
<1>1. call' \in [Calls -> Refreshing \cup {Idle}] /\ \A d \in Calls : call'[d] = call[d] \/ call'[d] = Idle
  BY DEF SignInInv, KeyJobs
<1> QED
  BY <1>1, KeyMarkStep

\* A handler that begins, or marks rows first.
LEMMA KeyBeginStep ==
  ASSUME SignInInv, NEW c \in Calls, NEW k \in Keys, NEW op \in {"again", "others", "refresh"},
         KeysMarked, call' = [call EXCEPT ![c] = KeyJob(op, k)]
  PROVE  SignInInv'
<1>1. KeyJob(op, k) \in Refreshing /\ KeyJob(op, k).key = k /\ ~KeyJob(op, k).won
  <2>1. k \in Nat
    BY KeyTypes DEF SignInInv
  <2> QED
    BY <2>1 DEF KeyJob, KeyWork, Refreshing
<1>2. /\ call' \in [Calls -> Refreshing \cup {Idle}]
      /\ \A d \in Calls : call'[d] = call[d] \/ (call'[d].key \in Keys /\ ~call'[d].won)
  BY <1>1 DEF SignInInv, KeyJobs
<1> QED
  BY <1>2, KeyMarkStep

LEMMA KeyRequestStep ==
  ASSUME SignInInv, NEW c \in Calls, KeyRequests(c)
  PROVE  SignInInv'
<1> USE DEF SignInInv
<1>1. CASE login(c)
  BY <1>1, FamilyIsNat, KeyAddStep DEF login, Serve, Begin
<1>2. CASE changePassword(c)
  <2>1. KeysMarked
    BY <1>2, RevokedMarks DEF changePassword
  <2>2. 1 \in Keys
    BY KeyTypes
  <2> QED
    BY <1>2, <2>1, <2>2, KeyBeginStep DEF changePassword, Begin
<1>3. ASSUME NEW k \in Keys, logout(c, k)
      PROVE  SignInInv'
  <2>1. KeysMarked
    BY <1>3, RevokedMarks DEF logout
  <2> QED
    BY <1>3, <2>1, KeyEndStep DEF logout, Serve, Begin
<1>4. ASSUME NEW k \in Keys, signOutOthers(c, k) \/ refresh(c, k)
      PROVE  SignInInv'
  <2>1. KeysMarked
    BY <1>4, SameMarks DEF signOutOthers, refresh, signins
  <2> QED
    BY <1>4, <2>1, KeyBeginStep DEF signOutOthers, refresh, Begin
<1>5. CASE EndSignIns(c)
  <2>1. KeysMarked
    BY <1>5, RevokedMarks DEF EndSignIns
  <2> QED
    BY <1>5, <2>1, KeyEndStep DEF EndSignIns, Serve, Begin
<1>6. CASE Serve(c) /\ UNCHANGED signins
  BY <1>6, SameMarks, KeyEndStep DEF Serve, Begin, signins
<1> QED
  BY <1>1, <1>2, <1>3, <1>4, <1>5, <1>6
     DEF KeyRequests, resetPassword, deleteOverride, putOverride, setStatus

\* One handler wins an unused key, if it is still unused.
LEMMA KeyConsumeStep ==
  ASSUME SignInInv, NEW c \in Calls, consume(c)
  PROVE  SignInInv'
<1>1. PICK k \in Keys : k = call[c].key
  BY DEF SignInInv, KeyJobs, consume, Idle
<1>2. /\ call[c] \in Refreshing /\ call[c] # Idle /\ call[c].op = "refresh" /\ "consume" \in call[c].todo
  BY DEF SignInInv, KeyJobs, consume, Idle
<1> DEFINE new == KeyWork("refresh", k, call[c].todo \ {"consume"}, Unused(k), call[c].saw, call[c].grant)
<1>3. /\ new \in Refreshing /\ new.op = "refresh" /\ new.key = k /\ new.won = Unused(k)
      /\ "consume" \notin new.todo
  <2>1. k \in Nat /\ Unused(k) \in BOOLEAN
    BY KeyTypes DEF SignInInv, Unused, Usable, KeyRow
  <2> QED
    BY <1>2, <2>1 DEF KeyWork, Refreshing
<1>4. call' = [call EXCEPT ![c] = new]
  BY <1>1 DEF consume, Continue
<1> HIDE DEF new
<1>5. ~Owes(c)
  BY <1>2 DEF SignInInv, Unspent, Owes
<1>6. CASE ~Unused(k)
  <2>1. KeysMarked
    BY <1>1, <1>6, SameMarks DEF consume, SignInInv
  <2>2. /\ call' \in [Calls -> Refreshing \cup {Idle}]
        /\ \A d \in Calls : call'[d] = call[d] \/ (call'[d].key \in Keys /\ ~call'[d].won)
    BY <1>3, <1>4, <1>6 DEF SignInInv, KeyJobs
  <2> QED
    BY <2>1, <2>2, KeyMarkStep
<1>7. CASE Unused(k)
  <2>1. KeysMarked /\ key'[k].consumed
    <3>1. PICK row \in KeyRow : /\ row = [key[k] EXCEPT !.consumed = TRUE]
                                /\ row.parent = key[k].parent /\ row.grace = key[k].grace
                                /\ row.consumed
      <4>1. key[k] \in KeyRow
        BY KeyTypes DEF SignInInv
      <4>2. /\ [key[k] EXCEPT !.consumed = TRUE] \in KeyRow
            /\ [key[k] EXCEPT !.consumed = TRUE].parent = key[k].parent
            /\ [key[k] EXCEPT !.consumed = TRUE].grace = key[k].grace
            /\ [key[k] EXCEPT !.consumed = TRUE].consumed
        BY <4>1 DEF KeyRow
      <4> QED
        BY <4>2
    <3>2. key' = [key EXCEPT ![k] = row]
      BY <1>1, <1>7, <3>1 DEF consume
    <3>3. key \in Seq(KeyRow) /\ k \in 1 .. Len(key) /\ Keys = 1 .. Len(key)
      BY KeyTypes DEF SignInInv, KeyRows
    <3>4. /\ key' \in Seq(KeyRow) /\ Len(key') = Len(key) /\ key'[k] = row
          /\ \A j \in Keys \ {k} : key'[j] = key[j]
      BY <3>2, <3>3
    <3> QED
      BY <3>1, <3>4 DEF KeysMarked
  <2>2. /\ call' \in [Calls -> Refreshing \cup {Idle}] /\ call'[c] = new
        /\ \A d \in Calls \ {c} : call'[d] = call[d]
    BY <1>3, <1>4 DEF SignInInv, KeyJobs
  <2>3. ~key[k].consumed
    BY <1>7 DEF Unused, Usable
  <2>4. \A d \in Calls \ {c} : Owes(d)' <=> Owes(d)
    BY <2>2 DEF Owes
  <2>5. Keys' = Keys /\ KeyRows' /\ KeyParents'
    BY <2>1, MarkedKeeps
  <2>6. Unspent'
    BY <1>3, <2>2 DEF Unspent, SignInInv
  <2>7. KeyJobs'
    BY <1>1, <1>3, <2>2, <2>5 DEF KeyJobs, SignInInv
  <2>8. OneEach'
    <3>1. \A i, j \in Keys' : Follows(i)' /\ Follows(j)' /\ key'[i].parent = key'[j].parent => i = j
      BY <2>1, <2>5, MarkedKeeps DEF SignInInv, OneEach
    <3>2. ASSUME NEW d \in Calls, NEW j \in Keys, Owes(d)', Follows(j)'
          PROVE  call'[d].key # key'[j].parent
      <4>1. Follows(j) /\ key'[j].parent = key[j].parent /\ key[key[j].parent].consumed
        BY <2>1, <3>2, MarkedKeeps
      <4>2. CASE d = c
        BY <1>3, <2>2, <2>3, <4>1, <4>2
      <4>3. CASE d # c
        BY <2>2, <2>4, <3>2, <4>1, <4>3 DEF SignInInv, OneEach
      <4> QED
        BY <4>2, <4>3
    <3>3. \A d, e \in Calls : Owes(d)' /\ Owes(e)' /\ call'[d].key = call'[e].key => d = e
      BY <1>3, <2>2, <2>3, <2>4 DEF SignInInv, OneEach, UsedUp
    <3> QED
      BY <2>5, <3>1, <3>2, <3>3 DEF OneEach
  <2>9. UsedUp'
    <3>1. ASSUME NEW d \in Calls, Owes(d)'
          PROVE  key'[call'[d].key].consumed
      <4>1. CASE d = c
        BY <1>3, <2>1, <2>2, <4>1
      <4>2. CASE d # c
        <5>1. Owes(d) /\ call'[d] = call[d]
          BY <2>2, <2>4, <3>1, <4>2
        <5>2. call[d].key \in Keys /\ key[call[d].key].consumed
          BY <5>1 DEF SignInInv, UsedUp, KeyJobs, Owes
        <5> QED
          BY <2>1, <5>1, <5>2, MarkedKeeps
      <4> QED
        BY <4>1, <4>2
    <3> QED
      BY <2>1, <2>5, <3>1, MarkedKeeps DEF UsedUp
  <2> QED
    BY <2>5, <2>6, <2>7, <2>8, <2>9 DEF SignInInv
<1> QED
  BY <1>6, <1>7

LEMMA KeyLookStep ==
  ASSUME SignInInv, NEW c \in Calls, look(c), admitted \in BOOLEAN
  PROVE  SignInInv'
<1>1. /\ call[c] \in Refreshing /\ call[c] # Idle /\ call[c].op = "refresh" /\ call[c].key \in Keys
  BY DEF SignInInv, KeyJobs, look, Idle
<1>2. PICK saw \in SUBSET {"KNOWN", "CONSUMED", "REVOKED"} :
        call' = [call EXCEPT ![c] = KeyWork("refresh", call[c].key, call[c].todo \ {"look"},
                                            call[c].won, saw, admitted)]
  BY DEF look, Continue
<1> DEFINE new == KeyWork("refresh", call[c].key, call[c].todo \ {"look"}, call[c].won, saw, admitted)
<1>3. /\ new \in Refreshing /\ new.key = call[c].key /\ new.won = call[c].won
      /\ new.todo \subseteq call[c].todo
  BY <1>1 DEF KeyWork, Refreshing
<1> HIDE DEF new
<1>4. call' = [call EXCEPT ![c] = new]
  BY <1>2 DEF new
<1>5. /\ call' \in [Calls -> Refreshing \cup {Idle}] /\ call'[c] = new
      /\ \A d \in Calls \ {c} : call'[d] = call[d]
  BY <1>3, <1>4 DEF SignInInv, KeyJobs
<1>6. Owes(c) <=> call[c].won
  BY <1>1 DEF Owes
<1>7. KeysMarked
  BY SameMarks DEF look, signins, SignInInv
<1>8. new.won \in BOOLEAN
  BY <1>3 DEF Refreshing
<1> QED
  BY <1>1, <1>3, <1>5, <1>6, <1>7, <1>8, KeyMarkStep

LEMMA KeyCommitStep ==
  ASSUME SignInInv, NEW c \in Calls, admitted \in BOOLEAN, KeyCommits(c)
  PROVE  SignInInv'
<1> USE DEF SignInInv
<1>1. CASE signInAgain(c)
  BY <1>1, FamilyIsNat, KeyAddStep DEF signInAgain, Finish, Continue
<1>2. CASE signOutOthersTx(c)
  <2>1. KeysMarked
    BY <1>2, RevokedMarks DEF signOutOthersTx
  <2> QED
    BY <1>2, <2>1, KeyEndStep DEF signOutOthersTx, Finish, Continue
<1>3. CASE consume(c)
  BY <1>3, KeyConsumeStep
<1>4. CASE look(c)
  BY <1>4, KeyLookStep
<1>5. CASE refuse(c)
  BY <1>5, SameMarks, KeyEndStep DEF refuse, Finish, Continue, signins
<1>6. CASE revokeFamily(c)
  <2>1. KeysMarked
    BY <1>6, RevokedMarks DEF revokeFamily
  <2> QED
    BY <1>6, <2>1, KeyEndStep DEF revokeFamily, Finish, Continue
<1>7. CASE nextKey(c)
  <2>1. /\ call[c] \in Refreshing /\ call[c] # Idle /\ call[c].op = "refresh" /\ call[c].key \in Keys
    BY <1>7 DEF KeyJobs, nextKey, Answering, Idle
  <2>2. /\ call[c].key \in Nat /\ call[c].won \in BOOLEAN /\ (Owes(c) <=> call[c].won)
        /\ key[call[c].key].family \in Nat
    BY <2>1, KeyTypes DEF Refreshing, Owes, KeyRow
  <2> QED
    BY <1>7, <2>1, <2>2, KeyAddStep DEF nextKey, Finish, Continue
<1> QED
  BY <1>1, <1>2, <1>3, <1>4, <1>5, <1>6, <1>7 DEF KeyCommits

\* Half a minute and the clean-up job mark rows and leave the handlers alone.
LEMMA KeyAroundStep ==
  ASSUME SignInInv, KeysAround
  PROVE  SignInInv'
<1>1. call' = call
  BY DEF KeysAround, halfMinute, expiredSessionCleanupJob, running
<1>2. KeysMarked
  <2>1. CASE halfMinute
    BY <2>1, SameMarks DEF halfMinute, SignInInv
  <2>2. CASE expiredSessionCleanupJob
    <3>1. PICK old \in SUBSET Keys :
            key' = [k \in Keys |-> IF k \in old THEN [key[k] EXCEPT !.kept = FALSE] ELSE key[k]]
      BY <2>2 DEF expiredSessionCleanupJob
    <3>2. \A k \in Keys : (IF k \in old THEN [key[k] EXCEPT !.kept = FALSE] ELSE key[k]) \in KeyRow
      BY KeyTypes DEF KeyRow, SignInInv
    <3>3. Keys = 1 .. Len(key) /\ Len(key) \in Nat
      BY KeyTypes DEF SignInInv
    <3>4. key' \in [1 .. Len(key) -> KeyRow]
      BY <3>1, <3>2, <3>3
    <3>5. key' \in Seq(KeyRow) /\ Len(key') = Len(key)
      BY <3>3, <3>4
    <3> QED
      BY <3>1, <3>5, KeyTypes DEF KeysMarked, KeyRow, SignInInv
  <2> QED
    BY <2>1, <2>2 DEF KeysAround
<1> QED
  BY <1>1, <1>2, KeyMarkStep DEF SignInInv, KeyJobs

LEMMA AdmittedIsBoolean ==
  ASSUME KeyStep, admitted \in BOOLEAN
  PROVE  admitted' \in BOOLEAN
<1>1. ASSUME NEW c \in Calls, KeyRequests(c)
      PROVE  admitted' \in BOOLEAN
  BY <1>1 DEF KeyRequests, login, logout, changePassword, signOutOthers, refresh, resetPassword,
              deleteOverride, putOverride, setStatus, EndSignIns, Standing, signins
<1>2. ASSUME NEW c \in Calls, KeyCommits(c)
      PROVE  admitted' \in BOOLEAN
  BY <1>2 DEF KeyCommits, signInAgain, signOutOthersTx, consume, look, refuse, revokeFamily,
              nextKey, Standing, signins
<1>3. CASE KeysAround
  BY <1>3 DEF KeysAround, halfMinute, expiredSessionCleanupJob
<1> QED
  BY <1>1, <1>2, <1>3 DEF KeyStep, Accepting, Idling, signins

LEMMA KeysKept ==
  ASSUME SignInsIInv, [Next]_vars
  PROVE  SignInsIInv'
<1>1. CASE part # "SIGNINS"
  BY <1>1, KeyPartOnly DEF SignInsIInv, signins
<1>2. CASE part = "SIGNINS" /\ UNCHANGED <<signins, call>>
  <2>1. SignInInv /\ admitted \in BOOLEAN
    BY <1>2 DEF SignInsIInv
  <2>2. SignInInv'
    BY <1>2, <2>1, SameMarks, KeyMarkStep DEF SignInInv, KeyJobs, signins
  <2> QED
    BY <1>2, <2>1, <2>2, KeyPartOnly DEF SignInsIInv, signins
<1>3. CASE part = "SIGNINS" /\ KeyStep
  <2>1. SignInInv /\ admitted \in BOOLEAN
    BY <1>3 DEF SignInsIInv
  <2>2. ASSUME NEW c \in Accepting, KeyRequests(c)
        PROVE  SignInInv'
    BY <2>1, <2>2, KeyRequestStep DEF Accepting, Idling
  <2>3. ASSUME NEW c \in Calls, KeyCommits(c)
        PROVE  SignInInv'
    BY <2>1, <2>3, KeyCommitStep
  <2>4. ASSUME NEW c \in Calls, Abandon(c), UNCHANGED signins
        PROVE  SignInInv'
    BY <2>1, <2>4, SameMarks, KeyEndStep DEF Abandon, signins, SignInInv
  <2>5. ASSUME KeysAround
        PROVE  SignInInv'
    BY <2>1, <2>5, KeyAroundStep
  <2>6. SignInInv'
    BY <1>3, <2>2, <2>3, <2>4, <2>5 DEF KeyStep
  <2> QED
    BY <1>3, <2>1, <2>6, AdmittedIsBoolean, KeyPartOnly DEF SignInsIInv
<1> QED
  BY <1>1, <1>2, <1>3, KeyPartOnly

-----------------------------------------------------------------------------
LEMMA OneNextKey ==
  ASSUME SignInsIInv
  PROVE  KeyUsedOnce
<1> SUFFICES ASSUME NEW k \in Keys
             PROVE  Cardinality({j \in Keys : key[j].parent = k /\ ~key[j].grace}) <= 1
  BY DEF KeyUsedOnce
<1> DEFINE next == {j \in Keys : key[j].parent = k /\ ~key[j].grace}
<1>1. \A i, j \in next : i = j
  <2>1. CASE part = "SIGNINS"
    <3>1. k # 0
      BY <2>1, KeyTypes DEF SignInsIInv, SignInInv
    <3> QED
      BY <2>1, <3>1 DEF SignInsIInv, SignInInv, OneEach, Follows
  <2>2. CASE part # "SIGNINS"
    <3>1. key = <<Key(1, 0, FALSE)>>
      BY <2>2 DEF SignInsIInv
    <3>2. Keys = {1}
      BY <3>1 DEF Keys
    <3> QED
      BY <3>2
  <2> QED
    BY <2>1, <2>2
<1> HIDE DEF next
<1>2. ASSUME next = {}
      PROVE  Cardinality(next) <= 1
  BY <1>2, FS_EmptySet
<1>3. ASSUME next # {}
      PROVE  Cardinality(next) <= 1
  <2>1. PICK j : next = {j}
    BY <1>1, <1>3
  <2>2. Cardinality({j}) = 1
    BY FS_Singleton
  <2> QED
    BY <2>1, <2>2
<1>4. Cardinality(next) <= 1
  BY <1>2, <1>3
<1> QED
  BY <1>4 DEF next

\* Whatever refreshes, sign-outs and clean-ups overlap, a refresh key (auth.ts:466-557)
\* makes one next key, but for the forgiveness of a repeat.
THEOREM KeyCorrect == Spec => []KeyUsedOnce
<1>1. Init => SignInsIInv
  BY KeyStarted
<1>2. SignInsIInv /\ [Next]_vars => SignInsIInv'
  BY KeysKept
<1>3. SignInsIInv => KeyUsedOnce
  BY OneNextKey
<1> QED
  BY <1>1, <1>2, <1>3, PTL DEF Spec

-----------------------------------------------------------------------------
(* Master data.  The counters of an upload are exact because a lead of the  *)
(* day has one number, handed out, and a take-back returns it only once.    *)

BatchRow == [received : Int, added : Int, duplicates : Int, failed : Int, assigned : Int,
             skipped : Int, done : BOOLEAN]
MasterStatus == {"NONE", "NEW", "ASSIGNED", "ALREADY_LEAD", "DO_NOT_CALL"}
MasterRow == [batch : Batches \cup {Nil}, status : MasterStatus, lead : Nat]
CrmRow == [id : Nat, owner : Telecallers \cup {Nil}, daily : BOOLEAN, called : BOOLEAN,
           doNotCall : BOOLEAN]
SliceJob == [st : {"IDLE", "READ", "INSERTED"}, b : Batches \cup {Nil}, slice : Nat,
             created : SUBSET Phones, heard : BOOLEAN]
TakeJob == [st : {"IDLE", "READ", "SEEN"}, ids : SUBSET (Nat \ {0}), rows : SUBSET Phones]

MasterRows ==
    /\ batch \in [Batches -> BatchRow]
    /\ master \in [Phones -> MasterRow]
    /\ crm \in [Phones -> CrmRow]
    /\ nextLead \in Nat \ {0}

\* A slice being worked on is one of the file's, and has created rows once they are in.
Slices ==
    /\ server \in [Servers -> SliceJob]
    /\ sent \in [Batches -> Nat]
    /\ \A b \in Batches : sent[b] <= Len(File[b])
    /\ \A s \in Servers :
         /\ server[s].st # "IDLE" => server[s].b \in Batches
         /\ server[s].st # "IDLE" => server[s].slice \in 1 .. Len(File[server[s].b])
         /\ server[s].st # "INSERTED" => server[s].created = {}

HandingOut == assigning \in [to : Telecallers \cup {Nil}, left : Nat]

\* What a take-back has read: ids that were given, and numbers of the uploads.
Takings ==
    /\ taking \in [Servers -> TakeJob]
    /\ \A s \in Servers : /\ \A id \in taking[s].ids : id < nextLead
                          /\ \A p \in taking[s].rows : master[p].batch \in Batches

\* A number is in an upload, and has a lead's id once it was looked at.
Numbered(p) ==
    /\ master[p].status = "NONE" => master[p].batch = Nil
    /\ master[p].status # "NONE" => master[p].batch \in Batches
    /\ master[p].lead = 0 <=> master[p].status \in {"NONE", "NEW"}
    /\ master[p].lead < nextLead
    /\ crm[p].id = 0 => crm[p] = NoLead
    /\ crm[p].id < nextLead

\* A number and its lead agree, also with every take-back that has read one of them.
Agree(p) ==
    /\ master[p].lead # 0 => crm[p].id = master[p].lead
    /\ crm[p].daily => master[p].status = "ASSIGNED"
    /\ \A s \in Servers :
         /\ crm[p].id \in taking[s].ids => master[p].status = "ASSIGNED"
         /\ taking[s].st = "SEEN" /\ master[p].lead \in taking[s].ids => p \in taking[s].rows
InOrder == \A p \in Phones : master[p].batch \notin amiss => Agree(p)

\* Leads have ids of their own.
LeadsApart == \A p, q \in Phones : crm[p].id # 0 /\ crm[p].id = crm[q].id => p = q

Counters(b) ==
    batch[b].added + Cardinality(InFlight(b)) - batch[b].assigned - batch[b].skipped
      = Cardinality(RowsOf(b, {"NEW"}))

CountersExact == \A b \in Batches \ amiss : Counters(b)

MasterSound ==
    /\ MasterRows /\ Slices /\ HandingOut /\ Takings
    /\ amiss \subseteq Batches
    /\ \A p \in Phones : Numbered(p)
    /\ InOrder /\ LeadsApart

MasterInv == MasterSound /\ CountersExact

LEMMA MasterExact == MasterInv => UnassignedExact
<1> SUFFICES ASSUME MasterInv PROVE UnassignedExact
  OBVIOUS
<1>1. \A b \in Batches \ amiss :
        batch[b].added + Cardinality(InFlight(b)) - batch[b].assigned - batch[b].skipped
          = Cardinality(RowsOf(b, {"NEW"}))
  BY DEF MasterInv, CountersExact, Counters
<1>2. ASSUME NEW p \in Phones, master[p].status = "ASSIGNED", master[p].batch \notin amiss
      PROVE  crm[p].id = master[p].lead
  <2>1. master[p].lead # 0
    BY <1>2 DEF MasterInv, MasterSound, Numbered
  <2> QED
    BY <1>2, <2>1 DEF MasterInv, MasterSound, InOrder, Agree
<1> QED
  BY <1>1, <1>2 DEF UnassignedExact

\* What leaves numbers, leads and take-backs alone, and may find an upload amiss.
LEMMA NumbersKept ==
  ASSUME MasterSound, UNCHANGED <<master, crm, taking, nextLead>>,
         amiss \subseteq amiss', amiss' \subseteq Batches, MasterRows', Slices', HandingOut'
  PROVE  MasterSound'
<1> USE DEF MasterSound
<1>1. Takings' /\ LeadsApart' /\ \A p \in Phones : Numbered(p)'
  BY DEF Takings, LeadsApart, Numbered
<1>2. ASSUME NEW p \in Phones, (master[p].batch \notin amiss)'
      PROVE  Agree(p)'
  BY <1>2 DEF InOrder, Agree
<1> QED
  BY <1>1, <1>2 DEF InOrder

LEMMA SlicesFinite ==
  ASSUME NEW b \in Batches, NEW n \in 1 .. Len(File[b])
  PROVE  /\ File[b][n] \in Seq(Phones \cup {Bad})
         /\ Len(File[b]) \in Nat
         /\ Len(File[b][n]) \in Nat
         /\ Cardinality({i \in DOMAIN File[b][n] : File[b][n][i] = Bad}) \in Nat
<1>1. File[b] \in Seq(Seq(Phones \cup {Bad}))
  BY MasterAssumption
<1>2. File[b][n] \in Seq(Phones \cup {Bad}) /\ Len(File[b]) \in Nat
  BY <1>1
<1>3. Len(File[b][n]) \in Nat /\ DOMAIN File[b][n] = 1 .. Len(File[b][n])
  BY <1>2
<1>4. IsFiniteSet(1 .. Len(File[b][n]))
  BY <1>3, FS_Interval
<1>5. IsFiniteSet({i \in DOMAIN File[b][n] : File[b][n][i] = Bad})
  BY <1>3, <1>4, FS_Subset
<1> QED
  BY <1>2, <1>3, <1>5, FS_CardinalityType

LEMMA PhonesFinite ==
  ASSUME NEW S \in SUBSET Phones
  PROVE  IsFiniteSet(S) /\ Cardinality(S) \in Nat
  BY MasterAssumption, FS_Subset, FS_CardinalityType

LEMMA FreshAreNew ==
  ASSUME MasterSound, NEW s \in Servers, addRowsInsert(s)
  PROVE  \E b \in Batches, fresh \in SUBSET Phones :
           /\ server[s].b = b /\ server[s].st = "READ"
           /\ \A p \in fresh : master[p].status = "NONE"
           /\ master' = [p \in Phones |-> IF p \in fresh THEN [batch |-> b, status |-> "NEW", lead |-> 0]
                                          ELSE master[p]]
           /\ server' = [server EXCEPT ![s].st = "INSERTED", ![s].created = fresh]
           /\ UNCHANGED <<batch, crm, sent, waiting, assigning, taking, nextLead, timeouts, amiss>>
<1> DEFINE b == server[s].b
           rows == File[b][server[s].slice]
           fresh == {p \in ToSet(rows) \ {Bad} : master[p].status = "NONE"}
<1>1. server[s].st = "READ" /\ b \in Batches /\ server[s].slice \in 1 .. Len(File[b])
  BY DEF addRowsInsert, MasterSound, Slices
<1>2. rows \in Seq(Phones \cup {Bad})
  BY <1>1, SlicesFinite
<1>3. ToSet(rows) \subseteq Phones \cup {Bad}
  BY <1>2 DEF ToSet
<1>4. fresh \in SUBSET Phones
  BY <1>3
<1> QED
  BY <1>1, <1>4 DEF addRowsInsert

LEMMA CountedRow ==
  ASSUME NEW row \in BatchRow, NEW b \in Batches, NEW n \in 1 .. Len(File[b]),
         NEW created \in SUBSET Phones
  PROVE  /\ Counted(row, File[b][n], created, n = Len(File[b])) \in BatchRow
         /\ Counted(row, File[b][n], created, n = Len(File[b])).added = row.added + Cardinality(created)
         /\ Counted(row, File[b][n], created, n = Len(File[b])).assigned = row.assigned
         /\ Counted(row, File[b][n], created, n = Len(File[b])).skipped = row.skipped
<1> DEFINE failed == Cardinality({i \in DOMAIN File[b][n] : File[b][n][i] = Bad})
           len == Len(File[b][n])
           added == Cardinality(created)
<1>1. failed \in Nat /\ len \in Nat /\ added \in Nat
  BY SlicesFinite, PhonesFinite
<1>2. Counted(row, File[b][n], created, n = Len(File[b])) =
        [row EXCEPT !.received = @ + len, !.added = @ + added, !.failed = @ + failed,
                    !.duplicates = @ + (len - failed - added), !.done = @ \/ n = Len(File[b])]
  BY DEF Counted
<1> HIDE DEF failed, len, added
<1>3. PICK new : new = Counted(row, File[b][n], created, n = Len(File[b]))
  OBVIOUS
<1>4. new.added = row.added + added /\ new.assigned = row.assigned /\ new.skipped = row.skipped
  BY <1>2, <1>3 DEF BatchRow
<1>5. new \in BatchRow
  <2>1. PICK done \in BOOLEAN : done = (row.done \/ n = Len(File[b]))
    OBVIOUS
  <2>2. new = [row EXCEPT !.received = @ + len, !.added = @ + added, !.failed = @ + failed,
                          !.duplicates = @ + (len - failed - added), !.done = done]
    BY <1>2, <1>3, <2>1
  <2>3. new = [received |-> row.received + len, added |-> row.added + added,
               duplicates |-> row.duplicates + (len - failed - added),
               failed |-> row.failed + failed, assigned |-> row.assigned,
               skipped |-> row.skipped, done |-> done]
    BY <2>2 DEF BatchRow
  <2>4. /\ row.received + len \in Int /\ row.added + added \in Int
        /\ row.duplicates + (len - failed - added) \in Int
        /\ row.failed + failed \in Int /\ row.assigned \in Int /\ row.skipped \in Int
    BY <1>1 DEF BatchRow
  <2> QED
    BY <2>1, <2>3, <2>4 DEF BatchRow
<1> QED
  BY <1>3, <1>4, <1>5 DEF added


\* Sets of pairs and of numbers.
LEMMA PairsFinite ==
  ASSUME NEW b
  PROVE  IsFiniteSet(InFlight(b)) /\ Cardinality(InFlight(b)) \in Nat
<1>1. IsFiniteSet(Servers \X Phones)
  BY MasterAssumption, FS_Product
<1>2. InFlight(b) \in SUBSET (Servers \X Phones)
  BY DEF InFlight
<1> QED
  BY <1>1, <1>2, FS_Subset, FS_CardinalityType

LEMMA ColumnSize ==
  ASSUME NEW s, NEW T \in SUBSET Phones
  PROVE  IsFiniteSet({s} \X T) /\ Cardinality({s} \X T) = Cardinality(T)
<1>1. IsFiniteSet(T) /\ Cardinality(T) \in Nat
  BY PhonesFinite
<1>2. IsFiniteSet({s}) /\ Cardinality({s}) = 1
  BY FS_Singleton, FS_EmptySet, FS_AddElement
<1>3. IsFiniteSet({s} \X T) /\ Cardinality({s} \X T) = Cardinality({s}) * Cardinality(T)
  BY <1>1, <1>2, FS_Product, Zenon
<1> QED
  BY <1>1, <1>2, <1>3

LEMMA SizeOfBoth ==
  ASSUME NEW S, NEW T, IsFiniteSet(S), IsFiniteSet(T), S \cap T = {}
  PROVE  Cardinality(S \cup T) = Cardinality(S) + Cardinality(T)
<1>1. Cardinality(S) \in Nat /\ Cardinality(T) \in Nat
  BY FS_CardinalityType
<1>2. Cardinality(S \cup T) = Cardinality(S) + Cardinality(T) - Cardinality(S \cap T)
  BY FS_Union
<1>3. Cardinality(S \cap T) = 0
  BY FS_EmptySet
<1> QED
  BY <1>1, <1>2, <1>3

LEMMA RowsAreNumbers ==
  ASSUME NEW b, NEW status
  PROVE  /\ RowsOf(b, status) \in SUBSET Phones /\ IsFiniteSet(RowsOf(b, status))
         /\ Cardinality(RowsOf(b, status)) \in Nat
<1>1. RowsOf(b, status) \in SUBSET Phones
  BY DEF RowsOf
<1> QED
  BY <1>1, PhonesFinite

\* What a slice has created and not yet counted goes where the slice does.
LEMMA InFlightKept ==
  ASSUME \A s \in Servers : /\ server'[s].created = server[s].created
                            /\ server[s].created # {} => server'[s].b = server[s].b
  PROVE  \A b : InFlight(b)' = InFlight(b)
<1> SUFFICES ASSUME NEW b PROVE InFlight(b)' = InFlight(b)
  OBVIOUS
<1>1. ASSUME NEW x \in Servers \X Phones
      PROVE  x \in InFlight(b)' <=> x \in InFlight(b)
  <2>1. x[1] \in Servers
    OBVIOUS
  <2> QED
    BY <2>1 DEF InFlight
<1> QED
  BY <1>1 DEF InFlight

LEMMA AddRowsKeeps ==
  ASSUME MasterInv, NEW s \in Servers, NEW b \in Batches, addRows(s, b)
  PROVE  MasterInv'
<1> USE DEF MasterInv, MasterSound
<1>1. PICK job : job = [st |-> "READ", b |-> b, slice |-> sent[b] + 1, created |-> {}, heard |-> TRUE]
  OBVIOUS
<1>2. /\ server[s] = Resting /\ sent[b] < Len(File[b])
      /\ server' = [server EXCEPT ![s] = job]
      /\ UNCHANGED <<batch, master, crm, sent, assigning, taking, nextLead, amiss>>
  BY <1>1 DEF addRows, Free
<1>3. Len(File[b]) \in Nat
  BY MasterAssumption
<1>4. /\ job \in SliceJob /\ job.st = "READ" /\ job.b = b /\ job.created = {}
      /\ job.slice \in 1 .. Len(File[b])
  BY <1>1, <1>2, <1>3 DEF SliceJob, Slices
<1>5. server'[s] = job /\ \A t \in Servers : t # s => server'[t] = server[t]
  BY <1>2 DEF Slices
<1>6. Slices'
  BY <1>2, <1>4, <1>5 DEF Slices
<1>7. MasterSound'
  BY <1>2, <1>6, NumbersKept DEF MasterRows, HandingOut
<1>8. server[s].created = {}
  BY <1>2 DEF Resting
<1>9. \A c : InFlight(c)' = InFlight(c)
  <2>1. \A t \in Servers : /\ server'[t].created = server[t].created
                           /\ server[t].created # {} => server'[t].b = server[t].b
    BY <1>4, <1>5, <1>8
  <2> QED
    BY <2>1, InFlightKept
<1>10. CountersExact'
  BY <1>2, <1>9 DEF CountersExact, Counters, RowsOf
<1> QED
  BY <1>7, <1>10

LEMMA ResumeKeeps ==
  ASSUME MasterInv, NEW b \in Batches, addRowsResume(b)
  PROVE  MasterInv'
<1> USE DEF MasterInv, MasterSound
<1>1. PICK n \in 1 .. Len(File[b]) : \E m \in {n, n - 1} : sent' = [sent EXCEPT ![b] = m]
  BY DEF addRowsResume
<1>2. PICK m \in {n, n - 1} : sent' = [sent EXCEPT ![b] = m]
  BY <1>1
<1>3. UNCHANGED <<batch, master, crm, server, assigning, taking, nextLead, amiss>>
  BY DEF addRowsResume
<1>4. Len(File[b]) \in Nat
  BY MasterAssumption
<1>5. m \in Nat /\ m <= Len(File[b])
  BY <1>2, <1>4
<1>6. Slices'
  BY <1>2, <1>3, <1>5 DEF Slices
<1>7. MasterSound'
  BY <1>3, <1>6, NumbersKept DEF MasterRows, HandingOut
<1>8. CountersExact'
  BY <1>3 DEF CountersExact, Counters, RowsOf, InFlight
<1> QED
  BY <1>7, <1>8

LEMMA TimeoutKeeps ==
  ASSUME MasterInv, NEW b \in Batches, Timeout(b)
  PROVE  MasterInv'
<1> USE DEF MasterInv, MasterSound
<1>1. /\ server' = [s \in Servers |-> IF server[s].b = b THEN [server[s] EXCEPT !.heard = FALSE]
                                      ELSE server[s]]
      /\ UNCHANGED <<batch, master, crm, sent, assigning, taking, nextLead, amiss>>
  BY DEF Timeout
<1>2. \A s \in Servers : /\ server'[s] \in SliceJob
                         /\ server'[s].st = server[s].st /\ server'[s].b = server[s].b
                         /\ server'[s].slice = server[s].slice
                         /\ server'[s].created = server[s].created
  BY <1>1 DEF Slices, SliceJob
<1>3. Slices'
  BY <1>1, <1>2 DEF Slices
<1>4. MasterSound'
  BY <1>1, <1>3, NumbersKept DEF MasterRows, HandingOut
<1>5. \A c : InFlight(c)' = InFlight(c)
  BY <1>2, InFlightKept
<1>6. CountersExact'
  BY <1>1, <1>5 DEF CountersExact, Counters, RowsOf
<1> QED
  BY <1>4, <1>6

\* A handler that stops leaves only an upload amiss of which it has created rows.
LEMMA StopsKeeps ==
  ASSUME MasterInv, NEW s \in Servers, Stops(s)
  PROVE  MasterInv'
<1> USE DEF MasterInv, MasterSound
<1>1. /\ server[s] # Resting /\ server' = [server EXCEPT ![s] = Resting]
      /\ amiss' = amiss \cup {b \in {server[s].b} : server[s].created # {}}
      /\ UNCHANGED <<batch, master, crm, sent, assigning, taking, nextLead>>
  BY DEF Stops
<1>2. /\ server'[s] = Resting /\ \A t \in Servers : t # s => server'[t] = server[t]
      /\ Resting \in SliceJob /\ Resting.st = "IDLE" /\ Resting.created = {}
  BY <1>1 DEF Slices, SliceJob, Resting
<1>3. Slices'
  BY <1>1, <1>2 DEF Slices
<1>4. server[s].created # {} => server[s].b \in Batches
  BY DEF Slices
<1>5. amiss \subseteq amiss' /\ amiss' \subseteq Batches
  BY <1>1, <1>4
<1>6. MasterSound'
  BY <1>1, <1>3, <1>5, NumbersKept DEF MasterRows, HandingOut
<1>7. ASSUME NEW c \in Batches \ amiss'
      PROVE  InFlight(c)' = InFlight(c)
  <2>1. server[s].created = {} \/ server[s].b # c
    BY <1>1, <1>7
  <2>2. ASSUME NEW x \in Servers \X Phones
        PROVE  x \in InFlight(c)' <=> x \in InFlight(c)
    <3>1. x[1] \in Servers
      OBVIOUS
    <3> QED
      BY <1>2, <2>1, <3>1 DEF InFlight
  <2> QED
    BY <2>2 DEF InFlight
<1>8. CountersExact'
  BY <1>1, <1>5, <1>7 DEF CountersExact, Counters, RowsOf
<1> QED
  BY <1>6, <1>8

LEMMA InsertKeeps ==
  ASSUME MasterInv, NEW s \in Servers, addRowsInsert(s)
  PROVE  MasterInv'
<1> USE DEF MasterInv, MasterSound
<1>1. PICK b \in Batches, fresh \in SUBSET Phones :
           /\ server[s].b = b /\ server[s].st = "READ"
           /\ \A p \in fresh : master[p].status = "NONE"
           /\ master' = [p \in Phones |-> IF p \in fresh THEN [batch |-> b, status |-> "NEW", lead |-> 0]
                                          ELSE master[p]]
           /\ server' = [server EXCEPT ![s].st = "INSERTED", ![s].created = fresh]
           /\ UNCHANGED <<batch, crm, sent, waiting, assigning, taking, nextLead, timeouts, amiss>>
  BY FreshAreNew
<1>2. server[s].created = {} /\ server[s] \in SliceJob
  BY <1>1 DEF Slices
<1>3. /\ server'[s] \in SliceJob /\ server'[s].st = "INSERTED" /\ server'[s].b = b
      /\ server'[s].slice = server[s].slice /\ server'[s].created = fresh
      /\ \A t \in Servers : t # s => server'[t] = server[t]
  BY <1>1, <1>2 DEF Slices, SliceJob
<1>4. Slices'
  BY <1>1, <1>3 DEF Slices
<1>5. \A p \in fresh : /\ master'[p] \in MasterRow /\ master'[p].batch = b
                       /\ master'[p].status = "NEW" /\ master'[p].lead = 0
  BY <1>1 DEF MasterRow, MasterStatus
<1>6. \A p \in Phones \ fresh : master'[p] = master[p]
  BY <1>1
<1>7. MasterRows'
  BY <1>1, <1>5, <1>6 DEF MasterRows
<1>8. \A p \in Phones : Numbered(p)'
  <2> SUFFICES ASSUME NEW p \in Phones PROVE Numbered(p)'
    OBVIOUS
  <2>1. CASE p \in fresh
    <3>1. 0 < nextLead'
      BY <1>1 DEF MasterRows
    <3> QED
      BY <1>1, <1>5, <2>1, <3>1 DEF Numbered
  <2>2. CASE p \notin fresh
    BY <1>1, <1>6, <2>2 DEF Numbered
  <2> QED
    BY <2>1, <2>2
<1>8a. InOrder'
  <2> SUFFICES ASSUME NEW p \in Phones, (master[p].batch \notin amiss)' PROVE Agree(p)'
    BY DEF InOrder
  <2>1. CASE p \in fresh
    <3>1. master[p].status = "NONE" /\ master[p].batch \notin amiss
      <4>1. Nil \notin amiss
        BY MasterAssumption
      <4> QED
        BY <1>1, <2>1, <4>1 DEF Numbered
    <3>2. ~crm[p].daily /\ \A t \in Servers : crm[p].id \notin taking[t].ids /\ 0 \notin taking[t].ids
      BY <3>1 DEF InOrder, Agree, Takings, TakeJob
    <3> QED
      BY <1>1, <1>5, <2>1, <3>2 DEF Agree
  <2>2. CASE p \notin fresh
    BY <1>1, <1>6, <2>2 DEF InOrder, Agree
  <2> QED
    BY <2>1, <2>2
<1>8b. Takings'
  <2>1. \A p \in Phones : master[p].batch \in Batches => master'[p].batch \in Batches
    BY <1>1, <1>5, <1>6
  <2> QED
    BY <1>1, <2>1 DEF Takings, TakeJob
<1>9. MasterSound'
  BY <1>1, <1>4, <1>7, <1>8, <1>8a, <1>8b DEF HandingOut, LeadsApart
<1>10. ASSUME NEW c \in Batches \ amiss
       PROVE  Counters(c)'
  <2>1. CASE c # b
    <3>1. InFlight(c)' = InFlight(c)
      <4>1. ASSUME NEW x \in Servers \X Phones
            PROVE  x \in InFlight(c)' <=> x \in InFlight(c)
        <5>1. x[1] \in Servers
          OBVIOUS
        <5> QED
          BY <1>1, <1>3, <2>1, <5>1 DEF InFlight
      <4> QED
        BY <4>1 DEF InFlight
    <3>2. RowsOf(c, {"NEW"})' = RowsOf(c, {"NEW"})
      BY <1>1, <1>5, <1>6, <2>1 DEF RowsOf
    <3> QED
      BY <1>1, <3>1, <3>2 DEF CountersExact, Counters
  <2>2. CASE c = b
    <3>1. InFlight(b)' = InFlight(b) \cup ({s} \X fresh) /\ InFlight(b) \cap ({s} \X fresh) = {}
      <4>1. ASSUME NEW x \in Servers \X Phones
            PROVE  /\ x \in InFlight(b)' <=> x \in InFlight(b) \/ x \in {s} \X fresh
                   /\ ~(x \in InFlight(b) /\ x \in {s} \X fresh)
        <5>1. x[1] \in Servers /\ x[2] \in Phones /\ x = <<x[1], x[2]>>
          OBVIOUS
        <5>2. x \in {s} \X fresh <=> x[1] = s /\ x[2] \in fresh
          BY <5>1
        <5> QED
          BY <1>1, <1>2, <1>3, <5>1, <5>2 DEF InFlight
      <4>2. {s} \X fresh \subseteq Servers \X Phones
        OBVIOUS
      <4>3. InFlight(b) \subseteq Servers \X Phones /\ InFlight(b)' \subseteq Servers \X Phones
        BY DEF InFlight
      <4> HIDE DEF InFlight
      <4> QED
        BY <4>1, <4>2, <4>3
    <3>2. /\ RowsOf(b, {"NEW"})' = RowsOf(b, {"NEW"}) \cup fresh
          /\ RowsOf(b, {"NEW"}) \cap fresh = {}
      BY <1>1, <1>5, <1>6 DEF RowsOf
    <3>3. Cardinality(InFlight(b)') = Cardinality(InFlight(b)) + Cardinality(fresh)
      <4>1. PICK col : col = {s} \X fresh
        OBVIOUS
      <4>2. IsFiniteSet(col) /\ Cardinality(col) = Cardinality(fresh)
        BY <4>1, ColumnSize
      <4>3. IsFiniteSet(InFlight(b))
        BY PairsFinite
      <4>4. Cardinality(InFlight(b) \cup col) = Cardinality(InFlight(b)) + Cardinality(col)
        BY <3>1, <4>1, <4>2, <4>3, SizeOfBoth
      <4> QED
        BY <3>1, <4>1, <4>2, <4>4
    <3>4. Cardinality(RowsOf(b, {"NEW"})') = Cardinality(RowsOf(b, {"NEW"})) + Cardinality(fresh)
      BY <3>2, SizeOfBoth, RowsAreNumbers, PhonesFinite
    <3>5. /\ Cardinality(InFlight(b)) \in Nat /\ Cardinality(RowsOf(b, {"NEW"})) \in Nat
          /\ Cardinality(fresh) \in Nat
      BY PairsFinite, RowsAreNumbers, PhonesFinite
    <3>6. batch[b] \in BatchRow /\ batch'[b] = batch[b]
      BY <1>1 DEF MasterRows
    <3> QED
      <4>1. Counters(b)
        BY <2>2 DEF CountersExact
      <4> QED
        BY <2>2, <3>3, <3>4, <3>5, <3>6, <4>1 DEF Counters, BatchRow
  <2> QED
    BY <2>1, <2>2
<1> QED
  BY <1>1, <1>9, <1>10 DEF CountersExact


LEMMA CountKeeps ==
  ASSUME MasterInv, NEW s \in Servers, addRowsCount(s)
  PROVE  MasterInv'
<1> USE DEF MasterInv, MasterSound
<1>1. PICK b \in Batches : server[s].b = b
  BY DEF addRowsCount, Slices
<1>2. PICK n \in 1 .. Len(File[b]) : server[s].b = b /\ server[s].slice = n
  BY <1>1 DEF addRowsCount, Slices
<1>3. PICK new, created : /\ created = server[s].created /\ created \in SUBSET Phones
                          /\ new = Counted(batch[b], File[b][n], created, n = Len(File[b]))
  BY DEF Slices, SliceJob
<1>4. /\ batch' = [batch EXCEPT ![b] = new]
      /\ server' = [server EXCEPT ![s] = Resting]
      /\ UNCHANGED sent \/ sent' = [sent EXCEPT ![b] = n]
      /\ UNCHANGED <<master, crm, assigning, taking, nextLead, amiss>>
  BY <1>2, <1>3 DEF addRowsCount
<1>5. /\ new \in BatchRow /\ new.added = batch[b].added + Cardinality(created)
      /\ new.assigned = batch[b].assigned /\ new.skipped = batch[b].skipped
  <2>1. batch[b] \in BatchRow
    BY DEF MasterRows
  <2> QED
    <3>1. created \in SUBSET Phones
      BY <1>3
    <3>2. /\ Counted(batch[b], File[b][n], created, n = Len(File[b])) \in BatchRow
          /\ Counted(batch[b], File[b][n], created, n = Len(File[b])).added
               = batch[b].added + Cardinality(created)
          /\ Counted(batch[b], File[b][n], created, n = Len(File[b])).assigned = batch[b].assigned
          /\ Counted(batch[b], File[b][n], created, n = Len(File[b])).skipped = batch[b].skipped
      BY <2>1, <3>1, CountedRow, Zenon
    <3> QED
      BY <1>3, <3>2
<1>6. MasterRows'
  BY <1>4, <1>5 DEF MasterRows
<1>7. /\ server'[s] = Resting /\ \A t \in Servers : t # s => server'[t] = server[t]
      /\ Resting \in SliceJob /\ Resting.st = "IDLE" /\ Resting.created = {}
  BY <1>4 DEF Slices, SliceJob, Resting
<1>8. n \in Nat /\ n <= Len(File[b])
  BY SlicesFinite
<1>9. Slices'
  <2>1. server' \in [Servers -> SliceJob]
    BY <1>4, <1>7 DEF Slices
  <2>2. sent' \in [Batches -> Nat] /\ \A c \in Batches : sent'[c] <= Len(File[c])
    BY <1>4, <1>8 DEF Slices
  <2> QED
    BY <1>7, <2>1, <2>2 DEF Slices
<1>10. MasterSound'
  BY <1>4, <1>6, <1>9, NumbersKept DEF HandingOut
<1>11. \A c : RowsOf(c, {"NEW"})' = RowsOf(c, {"NEW"})
  BY <1>4 DEF RowsOf
<1>12. ASSUME NEW c \in Batches \ amiss
       PROVE  Counters(c)'
  <2>1. CASE c # b
    <3>1. InFlight(c)' = InFlight(c)
      <4>1. ASSUME NEW x \in Servers \X Phones
            PROVE  x \in InFlight(c)' <=> x \in InFlight(c)
        <5>1. x[1] \in Servers
          OBVIOUS
        <5> QED
          BY <1>2, <1>7, <2>1, <5>1 DEF InFlight
      <4> QED
        BY <4>1 DEF InFlight
    <3>2. batch'[c] = batch[c]
      BY <1>4, <2>1 DEF MasterRows
    <3> QED
      BY <1>11, <3>1, <3>2 DEF CountersExact, Counters
  <2>2. CASE c = b
    <3>1. PICK col : col = {s} \X created
      OBVIOUS
    <3>2. InFlight(b) = InFlight(b)' \cup col /\ InFlight(b)' \cap col = {}
      <4>1. ASSUME NEW x \in Servers \X Phones
            PROVE  /\ x \in InFlight(b) <=> x \in InFlight(b)' \/ x \in col
                   /\ ~(x \in InFlight(b)' /\ x \in col)
        <5>1. x[1] \in Servers /\ x[2] \in Phones /\ x = <<x[1], x[2]>>
          OBVIOUS
        <5>2. x \in col <=> x[1] = s /\ x[2] \in created
          BY <3>1, <5>1
        <5> QED
          BY <1>2, <1>3, <1>7, <5>1, <5>2 DEF InFlight
      <4>2. col \subseteq Servers \X Phones
        BY <1>3, <3>1
      <4>3. InFlight(b) \subseteq Servers \X Phones /\ InFlight(b)' \subseteq Servers \X Phones
        BY DEF InFlight
      <4> HIDE DEF InFlight
      <4> QED
        BY <4>1, <4>2, <4>3
    <3>3. IsFiniteSet(col) /\ Cardinality(col) = Cardinality(created)
      BY <1>3, <3>1, ColumnSize
    <3>4. PICK rest : rest = InFlight(b)'
      OBVIOUS
    <3>5. IsFiniteSet(rest) /\ Cardinality(rest) \in Nat
      BY <3>2, <3>4, PairsFinite, FS_Subset, FS_CardinalityType
    <3>6. Cardinality(InFlight(b)) = Cardinality(rest) + Cardinality(created)
      BY <3>2, <3>3, <3>4, <3>5, SizeOfBoth
    <3>7. Cardinality(created) \in Nat /\ Cardinality(RowsOf(b, {"NEW"})) \in Nat
      BY <1>3, RowsAreNumbers, PhonesFinite
    <3>8. batch[b] \in BatchRow /\ batch'[b] = new
      BY <1>4 DEF MasterRows
    <3> QED
      <4>1. batch[b].added + Cardinality(InFlight(b)) - batch[b].assigned - batch[b].skipped
              = Cardinality(RowsOf(b, {"NEW"}))
        BY <2>2 DEF CountersExact, Counters
      <4>2. new.added + Cardinality(rest) - new.assigned - new.skipped
              = Cardinality(RowsOf(b, {"NEW"}))
        <5>1. /\ batch[b].added \in Int /\ batch[b].assigned \in Int /\ batch[b].skipped \in Int
          BY <3>8 DEF BatchRow
        <5> QED
          BY <1>5, <3>5, <3>6, <3>7, <4>1, <5>1
      <4> QED
        BY <1>11, <2>2, <3>4, <3>8, <4>2 DEF Counters
  <2> QED
    BY <2>1, <2>2
<1> QED
  BY <1>4, <1>10, <1>12 DEF CountersExact

\* Asking for numbers and running out of them change no row.
LEMMA AskingKeeps ==
  ASSUME MasterInv,
         \/ \E e \in Telecallers, n \in 1 .. MaxCount : assignDaily(e, n)
         \/ assignEmpty
  PROVE  MasterInv'
<1> USE DEF MasterInv, MasterSound
<1>1. /\ UNCHANGED <<batch, master, crm, server, sent, taking, nextLead, amiss>>
      /\ HandingOut'
  BY MasterAssumption DEF assignDaily, assignEmpty, HandingOut
<1>2. MasterSound'
  BY <1>1, NumbersKept DEF MasterRows, Slices
<1>3. CountersExact'
  BY <1>1 DEF CountersExact, Counters, RowsOf, InFlight
<1> QED
  BY <1>2, <1>3

\* A take-back reads leads of the day, whose numbers are handed out ...
LEMMA ReadKeeps ==
  ASSUME MasterInv, NEW s \in Servers, NEW e \in Telecallers, takeBack(s, e)
  PROVE  MasterInv'
<1> USE DEF MasterInv, MasterSound
<1>1. PICK ids : ids = {crm[p].id : p \in uncalledAssigned(e)}
  OBVIOUS
<1>2. /\ taking' = [taking EXCEPT ![s].st = "READ", ![s].ids = ids]
      /\ UNCHANGED <<batch, master, crm, server, sent, assigning, nextLead, amiss>>
  BY <1>1 DEF takeBack
<1>3. \A id \in ids : \E p \in Phones : crm[p].daily /\ crm[p].id = id /\ id # 0 /\ id \in Nat
                                        /\ id < nextLead
  <2> SUFFICES ASSUME NEW p \in uncalledAssigned(e)
               PROVE  /\ p \in Phones /\ crm[p].daily /\ crm[p].id # 0 /\ crm[p].id \in Nat
                      /\ crm[p].id < nextLead
    BY <1>1
  <2>1. p \in Phones /\ crm[p].daily
    BY DEF uncalledAssigned
  <2> QED
    BY <2>1 DEF Numbered, NoLead, MasterRows, CrmRow
<1>4. /\ taking[s] \in TakeJob /\ taking'[s] \in TakeJob
      /\ taking'[s].st = "READ" /\ taking'[s].ids = ids /\ taking'[s].rows = taking[s].rows
      /\ \A t \in Servers : t # s => taking'[t] = taking[t]
  BY <1>2, <1>3 DEF Takings, TakeJob
<1>5. Takings'
  BY <1>2, <1>3, <1>4 DEF Takings
<1>6. ASSUME NEW p \in Phones, crm[p].id \in ids
      PROVE  crm[p].daily
  BY <1>3, <1>6 DEF LeadsApart
<1>7. InOrder'
  <2> SUFFICES ASSUME NEW p \in Phones, (master[p].batch \notin amiss)' PROVE Agree(p)'
    BY DEF InOrder
  <2>1. Agree(p)
    BY <1>2 DEF InOrder
  <2> QED
    BY <1>2, <1>4, <1>6, <2>1 DEF Agree
<1>8. MasterSound'
  BY <1>2, <1>5, <1>7 DEF MasterRows, Slices, HandingOut, Numbered, LeadsApart
<1>9. CountersExact'
  BY <1>2 DEF CountersExact, Counters, RowsOf, InFlight
<1> QED
  BY <1>8, <1>9

\* ... and then these numbers.
LEMMA SeeKeeps ==
  ASSUME MasterInv, NEW s \in Servers, takeBackReads(s)
  PROVE  MasterInv'
<1> USE DEF MasterInv, MasterSound
<1>1. PICK rows \in SUBSET Phones : rows = {p \in Phones : master[p].lead \in taking[s].ids}
  OBVIOUS
<1>2. /\ taking' = [taking EXCEPT ![s].st = "SEEN", ![s].rows = rows]
      /\ UNCHANGED <<batch, master, crm, server, sent, assigning, nextLead, amiss>>
  BY <1>1 DEF takeBackReads
<1>3. /\ taking[s] \in TakeJob /\ taking'[s] \in TakeJob
      /\ taking'[s].ids = taking[s].ids /\ taking'[s].rows = rows
      /\ \A t \in Servers : t # s => taking'[t] = taking[t]
  BY <1>2 DEF Takings, TakeJob
<1>4. \A p \in rows : master[p].batch \in Batches
  <2> SUFFICES ASSUME NEW p \in rows PROVE master[p].batch \in Batches
    OBVIOUS
  <2>1. p \in Phones /\ master[p].lead # 0
    BY <1>1, <1>3 DEF TakeJob
  <2> QED
    BY <2>1 DEF Numbered
<1>5. Takings'
  BY <1>2, <1>3, <1>4 DEF Takings
<1>6. InOrder'
  <2> SUFFICES ASSUME NEW p \in Phones, (master[p].batch \notin amiss)' PROVE Agree(p)'
    BY DEF InOrder
  <2>1. Agree(p)
    BY <1>2 DEF InOrder
  <2> QED
    BY <1>1, <1>2, <1>3, <2>1 DEF Agree
<1>7. MasterSound'
  BY <1>2, <1>5, <1>6 DEF MasterRows, Slices, HandingOut, Numbered, LeadsApart
<1>8. CountersExact'
  BY <1>2 DEF CountersExact, Counters, RowsOf, InFlight
<1> QED
  BY <1>7, <1>8

\* One number leaves those to be assigned, and is counted.
LEMMA OneNumberLess ==
  ASSUME CountersExact, MasterRows, MasterRows', UNCHANGED <<server, amiss>>,
         NEW p \in Phones, master[p].status = "NEW", master[p].batch \in Batches,
         master'[p].status # "NEW",
         \A q \in Phones \ {p} : master'[q] = master[q],
         \A b \in Batches :
           /\ batch'[b].added = batch[b].added
           /\ batch'[b].assigned + batch'[b].skipped =
                batch[b].assigned + batch[b].skipped + (IF b = master[p].batch THEN 1 ELSE 0)
  PROVE  CountersExact'
<1> SUFFICES ASSUME NEW b \in Batches \ amiss PROVE Counters(b)'
  BY DEF CountersExact
<1>0. Counters(b)
  BY DEF CountersExact
<1>1. InFlight(b)' = InFlight(b)
  BY DEF InFlight
<1>2. batch[b] \in BatchRow /\ batch'[b] \in BatchRow
  BY DEF MasterRows
<1>3. Cardinality(InFlight(b)) \in Nat
  BY PairsFinite
<1>4. PICK old, new : old = RowsOf(b, {"NEW"}) /\ new = RowsOf(b, {"NEW"})'
  OBVIOUS
<1>5. IsFiniteSet(old) /\ Cardinality(old) \in Nat
  BY <1>4, RowsAreNumbers
<1>6. CASE b = master[p].batch
  <2>1. p \in old /\ new = old \ {p}
    BY <1>4, <1>6 DEF RowsOf
  <2>2. Cardinality(new) = Cardinality(old) - 1
    BY <1>5, <2>1, FS_RemoveElement
  <2> QED
    <3>1. /\ batch'[b].added = batch[b].added
          /\ batch'[b].assigned + batch'[b].skipped = batch[b].assigned + batch[b].skipped + 1
      BY <1>6
    <3>2. batch[b].added + Cardinality(InFlight(b)) - batch[b].assigned - batch[b].skipped
            = Cardinality(old)
      BY <1>0, <1>4 DEF Counters
    <3>3. batch'[b].added + Cardinality(InFlight(b)) - batch'[b].assigned - batch'[b].skipped
            = Cardinality(new)
      BY <1>2, <1>3, <1>5, <2>2, <3>1, <3>2 DEF BatchRow
    <3> QED
      BY <1>1, <1>4, <3>3 DEF Counters
<1>7. CASE b # master[p].batch
  <2>1. new = old
    BY <1>4, <1>7 DEF RowsOf
  <2> QED
    BY <1>0, <1>1, <1>2, <1>3, <1>4, <1>5, <1>7, <2>1 DEF Counters, BatchRow
<1> QED
  BY <1>6, <1>7

LEMMA BumpCounts ==
  ASSUME MasterRows, NEW p \in Phones, master[p].batch \in Batches,
         NEW field \in {"assigned", "skipped"}, Bump(p, field)
  PROVE  /\ batch' \in [Batches -> BatchRow]
         /\ \A b \in Batches :
              /\ batch'[b].added = batch[b].added
              /\ batch'[b].assigned + batch'[b].skipped =
                   batch[b].assigned + batch[b].skipped + (IF b = master[p].batch THEN 1 ELSE 0)
<1>1. PICK c \in Batches : c = master[p].batch
  OBVIOUS
<1>2. batch' = [batch EXCEPT ![c] = [batch[c] EXCEPT ![field] = batch[c][field] + 1]]
  BY <1>1 DEF Bump
<1>3. PICK row : row = [batch[c] EXCEPT ![field] = batch[c][field] + 1]
  OBVIOUS
<1>4. row \in BatchRow /\ row.added = batch[c].added
      /\ row.assigned + row.skipped = batch[c].assigned + batch[c].skipped + 1
  <2>1. batch[c] \in BatchRow
    BY DEF MasterRows
  <2>2. CASE field = "assigned"
    BY <1>3, <2>1, <2>2 DEF BatchRow
  <2>3. CASE field = "skipped"
    BY <1>3, <2>1, <2>3 DEF BatchRow
  <2> QED
    BY <2>2, <2>3
<1>5. batch'[c] = row /\ \A b \in Batches : b # c => batch'[b] = batch[b]
  BY <1>2, <1>3 DEF MasterRows
<1>6. \A b \in Batches : batch[b] \in BatchRow
  BY DEF MasterRows
<1>7. batch' \in [Batches -> BatchRow]
  BY <1>2, <1>3, <1>4 DEF MasterRows
<1> QED
  BY <1>1, <1>4, <1>5, <1>6, <1>7 DEF BatchRow


LEMMA FreshKeeps ==
  ASSUME MasterInv, NEW p \in Phones, assignFresh(p)
  PROVE  MasterInv'
<1> USE DEF MasterInv, MasterSound
<1>1. PICK number, customer :
        /\ customer = [id |-> nextLead, owner |-> assigning.to, daily |-> TRUE,
                       called |-> FALSE, doNotCall |-> FALSE]
        /\ number = [master[p] EXCEPT !.status = "ASSIGNED", !.lead = nextLead]
  OBVIOUS
<1>2. /\ master[p].status = "NEW" /\ crm[p] = NoLead /\ assigning.left > 0
      /\ master[p].batch \in Batches
      /\ master' = [master EXCEPT ![p] = number]
      /\ crm' = [crm EXCEPT ![p] = customer]
      /\ nextLead' = nextLead + 1
      /\ assigning' = [assigning EXCEPT !.left = @ - 1]
      /\ Bump(p, "assigned")
      /\ UNCHANGED <<server, sent, taking, amiss>>
  BY <1>1 DEF assignFresh, Numbered
<1>3. /\ customer \in CrmRow /\ customer.id = nextLead /\ customer.id # 0 /\ customer.daily
  BY <1>1 DEF CrmRow, HandingOut, MasterRows
<1>4. /\ number \in MasterRow /\ number.status = "ASSIGNED" /\ number.lead = nextLead
      /\ number.batch = master[p].batch
  BY <1>1 DEF MasterRow, MasterRows, MasterStatus
<1>5. /\ master'[p] = number /\ crm'[p] = customer
      /\ \A q \in Phones \ {p} : master'[q] = master[q] /\ crm'[q] = crm[q]
  BY <1>2 DEF MasterRows
<1>6. MasterRows'
  BY <1>2, <1>3, <1>4, BumpCounts DEF MasterRows
<1>7. HandingOut'
  BY <1>2 DEF HandingOut
<1>8. \A q \in Phones : Numbered(q)'
  <2> SUFFICES ASSUME NEW q \in Phones PROVE Numbered(q)'
    OBVIOUS
  <2>1. CASE q = p
    BY <1>2, <1>3, <1>4, <1>5, <2>1 DEF Numbered, MasterRows
  <2>2. CASE q # p
    BY <1>2, <1>5, <2>2 DEF Numbered, MasterRows, MasterRow, CrmRow
  <2> QED
    BY <2>1, <2>2
<1>9. LeadsApart'
  BY <1>3, <1>5 DEF LeadsApart, Numbered, MasterRows, CrmRow
<1>10. InOrder' /\ Takings'
  <2>1. \A t \in Servers : nextLead \notin taking[t].ids
    BY DEF Takings, MasterRows
  <2>2. InOrder'
    <3> SUFFICES ASSUME NEW q \in Phones, (master[q].batch \notin amiss)' PROVE Agree(q)'
      BY DEF InOrder
    <3>1. CASE q = p
      BY <1>2, <1>3, <1>4, <1>5, <2>1, <3>1 DEF Agree
    <3>2. CASE q # p
      BY <1>2, <1>5, <3>2 DEF InOrder, Agree
    <3> QED
      BY <3>1, <3>2
  <2>3. \A q \in Phones : master'[q].batch = master[q].batch
    BY <1>4, <1>5
  <2>4. \A id \in Nat : id < nextLead => id < nextLead'
    BY <1>2 DEF MasterRows
  <2>5. Takings'
    BY <1>2, <2>3, <2>4 DEF Takings, TakeJob
  <2> QED
    BY <2>2, <2>5
<1>11. Slices'
  BY <1>2 DEF Slices
<1>12. CountersExact'
  <2>1. \A b \in Batches :
              /\ batch'[b].added = batch[b].added
              /\ batch'[b].assigned + batch'[b].skipped =
                   batch[b].assigned + batch[b].skipped + (IF b = master[p].batch THEN 1 ELSE 0)
    BY <1>2, BumpCounts
  <2>2. master'[p].status # "NEW"
    BY <1>4, <1>5
  <2> QED
    BY <1>2, <1>5, <1>6, <2>1, <2>2, OneNumberLess
<1> QED
  BY <1>2, <1>6, <1>7, <1>8, <1>9, <1>10, <1>11, <1>12

LEMMA StaleKeeps ==
  ASSUME MasterInv, NEW p \in Phones, assignStale(p)
  PROVE  MasterInv'
<1> USE DEF MasterInv, MasterSound
<1>1. PICK status \in {"DO_NOT_CALL", "ALREADY_LEAD"} :
        master' = [master EXCEPT ![p] = [@ EXCEPT !.status = status, !.lead = crm[p].id]]
  BY DEF assignStale
<1>2. PICK number : number = [master[p] EXCEPT !.status = status, !.lead = crm[p].id]
  OBVIOUS
<1>3. /\ master[p].status = "NEW" /\ crm[p] # NoLead
      /\ master[p].batch \in Batches
      /\ master' = [master EXCEPT ![p] = number]
      /\ Bump(p, "skipped")
      /\ UNCHANGED <<crm, server, sent, assigning, taking, nextLead, amiss>>
  BY <1>1, <1>2 DEF assignStale, Numbered
<1>4. crm[p] \in CrmRow /\ crm[p].id # 0 /\ crm[p].id < nextLead
  BY <1>3 DEF Numbered, MasterRows
<1>5. /\ number \in MasterRow /\ number.status = status /\ number.lead = crm[p].id
      /\ number.batch = master[p].batch
  BY <1>2, <1>4 DEF MasterRow, MasterRows, MasterStatus, CrmRow
<1>6. master'[p] = number /\ \A q \in Phones \ {p} : master'[q] = master[q]
  BY <1>3 DEF MasterRows
<1>7. MasterRows'
  BY <1>3, <1>5, BumpCounts DEF MasterRows
<1>8. \A q \in Phones : Numbered(q)'
  BY <1>3, <1>4, <1>5, <1>6 DEF Numbered
<1>9. HandingOut' /\ LeadsApart' /\ Slices'
  BY <1>3 DEF HandingOut, LeadsApart, Slices
<1>9a. InOrder'
  <2> SUFFICES ASSUME NEW q \in Phones, (master[q].batch \notin amiss)' PROVE Agree(q)'
    BY DEF InOrder
  <2>1. CASE q = p
    <3>1. Agree(p)
      BY <1>3, <1>5, <1>6, <2>1 DEF InOrder
    <3>2. ~crm[p].daily /\ \A t \in Servers : crm[p].id \notin taking[t].ids
      BY <1>3, <3>1 DEF Agree
    <3> QED
      BY <1>3, <1>5, <1>6, <2>1, <3>2 DEF Agree
  <2>2. CASE q # p
    BY <1>3, <1>6, <2>2 DEF InOrder, Agree
  <2> QED
    BY <2>1, <2>2
<1>9b. Takings'
  <2>1. \A q \in Phones : master'[q].batch = master[q].batch
    BY <1>5, <1>6
  <2> QED
    BY <1>3, <2>1 DEF Takings, TakeJob
<1>10. CountersExact'
  <2>1. \A b \in Batches :
              /\ batch'[b].added = batch[b].added
              /\ batch'[b].assigned + batch'[b].skipped =
                   batch[b].assigned + batch[b].skipped + (IF b = master[p].batch THEN 1 ELSE 0)
    BY <1>3, BumpCounts
  <2>2. master'[p].status # "NEW"
    BY <1>5, <1>6
  <2> QED
    BY <1>3, <1>6, <1>7, <2>1, <2>2, OneNumberLess
<1> QED
  BY <1>3, <1>7, <1>8, <1>9, <1>9a, <1>9b, <1>10

\* What a take-back writes: the numbers it has seen, the leads it has read.
LEMMA TakenBack ==
  ASSUME MasterSound, NEW s \in Servers, takeBackTx(s)
  PROVE  \E ids \in SUBSET (Nat \ {0}), rows \in SUBSET Phones :
           /\ taking[s].ids = ids /\ taking[s].rows = rows /\ taking[s].st = "SEEN"
           /\ \A p \in rows : master[p].batch \in Batches
           /\ \A p \in Phones :
                /\ p \in rows => /\ master'[p] \in MasterRow /\ master'[p].status = "NEW"
                                 /\ master'[p].lead = 0
                /\ p \notin rows => master'[p] = master[p]
                /\ master'[p].batch = master[p].batch
                /\ crm[p].id \in ids => crm'[p] = NoLead
                /\ crm[p].id \notin ids => crm'[p] = crm[p]
           /\ master' = [p \in Phones |-> master'[p]] /\ crm' = [p \in Phones |-> crm'[p]]
           /\ batch' = [b \in Batches |-> Returned(b, rows)]
           /\ taking' = [taking EXCEPT ![s] = NotTaking]
           /\ amiss' = amiss \cup {master[p].batch : p \in {q \in rows : master[q].lead \notin ids}}
           /\ UNCHANGED <<server, sent, assigning, nextLead>>
<1> USE DEF MasterSound
<1>1. PICK ids \in SUBSET (Nat \ {0}), rows \in SUBSET Phones :
        taking[s].ids = ids /\ taking[s].rows = rows
  BY DEF Takings, TakeJob
<1>2. /\ taking[s].st = "SEEN"
      /\ master' = [p \in Phones |-> IF p \in rows
                                     THEN [master[p] EXCEPT !.status = "NEW", !.lead = 0]
                                     ELSE master[p]]
      /\ batch' = [b \in Batches |-> Returned(b, rows)]
      /\ crm' = [p \in Phones |-> IF crm[p].id \in ids THEN NoLead ELSE crm[p]]
      /\ taking' = [taking EXCEPT ![s] = NotTaking]
      /\ amiss' = amiss \cup {master[p].batch : p \in {q \in rows : master[q].lead \notin ids}}
      /\ UNCHANGED <<server, sent, assigning, nextLead>>
  BY <1>1 DEF takeBackTx
<1>3. \A p \in rows : master[p].batch \in Batches
  BY <1>1 DEF Takings
<1>4. ASSUME NEW p \in Phones
      PROVE  /\ p \in rows => /\ master'[p] \in MasterRow /\ master'[p].status = "NEW"
                              /\ master'[p].lead = 0 /\ master'[p].batch = master[p].batch
             /\ p \notin rows => master'[p] = master[p]
             /\ crm[p].id \in ids => crm'[p] = NoLead
             /\ crm[p].id \notin ids => crm'[p] = crm[p]
  <2>1. master[p] \in MasterRow
    BY DEF MasterRows
  <2>2. p \in rows => master'[p] = [master[p] EXCEPT !.status = "NEW", !.lead = 0]
    BY <1>2
  <2>3. p \notin rows => master'[p] = master[p]
    BY <1>2
  <2>4. ASSUME p \in rows
        PROVE  /\ master'[p] \in MasterRow /\ master'[p].status = "NEW"
               /\ master'[p].lead = 0 /\ master'[p].batch = master[p].batch
    <3>1. master'[p] = [master[p] EXCEPT !.status = "NEW", !.lead = 0]
      BY <2>2, <2>4
    <3>2. master'[p] = [batch |-> master[p].batch, status |-> "NEW", lead |-> 0]
      BY <2>1, <3>1 DEF MasterRow
    <3> QED
      BY <2>1, <3>2 DEF MasterRow, MasterStatus
  <2> QED
    BY <1>2, <2>3, <2>4
<1>5. master' = [p \in Phones |-> master'[p]] /\ crm' = [p \in Phones |-> crm'[p]]
  BY <1>2
<1>6. \A p \in Phones :
        /\ p \in rows => /\ master'[p] \in MasterRow /\ master'[p].status = "NEW"
                         /\ master'[p].lead = 0
        /\ p \notin rows => master'[p] = master[p]
        /\ master'[p].batch = master[p].batch
        /\ crm[p].id \in ids => crm'[p] = NoLead
        /\ crm[p].id \notin ids => crm'[p] = crm[p]
  BY <1>4
<1> HIDE DEF MasterSound
<1> WITNESS ids \in SUBSET (Nat \ {0}), rows \in SUBSET Phones
<1> QED
  BY <1>1, <1>2, <1>3, <1>5, <1>6

\* Of an upload that is not amiss the numbers it returns are those of the leads it removes, all
\* handed out.
LEMMA ReturnedOnce ==
  ASSUME MasterSound, NEW s \in Servers, taking[s].st = "SEEN",
         NEW p \in Phones, master[p].batch \notin amiss,
         p \in taking[s].rows => master[p].lead \in taking[s].ids
  PROVE  /\ p \in taking[s].rows <=> crm[p].id \in taking[s].ids
         /\ p \in taking[s].rows => master[p].status = "ASSIGNED"
<1>1. Agree(p) /\ Numbered(p) /\ taking[s] \in TakeJob
  BY DEF MasterSound, InOrder, Takings
<1>2. ASSUME p \in taking[s].rows
      PROVE  crm[p].id \in taking[s].ids /\ master[p].status = "ASSIGNED"
  <2>1. master[p].lead # 0 /\ master[p].lead \in taking[s].ids
    BY <1>1, <1>2 DEF TakeJob
  <2> QED
    BY <1>1, <2>1 DEF Agree
<1>3. ASSUME crm[p].id \in taking[s].ids
      PROVE  p \in taking[s].rows
  <2>1. master[p].status = "ASSIGNED"
    BY <1>1, <1>3 DEF Agree
  <2>2. master[p].lead # 0
    BY <1>1, <2>1 DEF Numbered
  <2> QED
    BY <1>1, <1>3, <2>2 DEF Agree
<1> QED
  BY <1>2, <1>3

LEMMA TakeBackKeeps ==
  ASSUME MasterInv, NEW s \in Servers, takeBackTx(s)
  PROVE  MasterInv'
<1> USE DEF MasterInv, MasterSound
<1>1. PICK ids \in SUBSET (Nat \ {0}), rows \in SUBSET Phones :
           /\ taking[s].ids = ids /\ taking[s].rows = rows /\ taking[s].st = "SEEN"
           /\ \A p \in rows : master[p].batch \in Batches
           /\ \A p \in Phones :
                /\ p \in rows => /\ master'[p] \in MasterRow /\ master'[p].status = "NEW"
                                 /\ master'[p].lead = 0
                /\ p \notin rows => master'[p] = master[p]
                /\ master'[p].batch = master[p].batch
                /\ crm[p].id \in ids => crm'[p] = NoLead
                /\ crm[p].id \notin ids => crm'[p] = crm[p]
           /\ master' = [p \in Phones |-> master'[p]] /\ crm' = [p \in Phones |-> crm'[p]]
           /\ batch' = [b \in Batches |-> Returned(b, rows)]
           /\ taking' = [taking EXCEPT ![s] = NotTaking]
           /\ amiss' = amiss \cup {master[p].batch : p \in {q \in rows : master[q].lead \notin ids}}
           /\ UNCHANGED <<server, sent, assigning, nextLead>>
  BY TakenBack
<1>2. amiss \subseteq amiss' /\ amiss' \subseteq Batches
  BY <1>1
<1>3. ASSUME NEW p \in Phones, master[p].batch \notin amiss'
      PROVE  /\ p \in rows <=> crm[p].id \in ids
             /\ p \in rows => master[p].status = "ASSIGNED"
  <2>1. master[p].batch \notin amiss /\ (p \in rows => master[p].lead \in ids)
    BY <1>1, <1>3
  <2> QED
    BY <1>1, <2>1, ReturnedOnce
<1>4. NoLead \in CrmRow /\ NoLead.id = 0 /\ ~NoLead.daily
  BY DEF NoLead, CrmRow
<1>5. \A b \in Batches :
        /\ Cardinality({p \in rows : master[p].batch = b}) \in Nat
        /\ batch'[b] = [batch[b] EXCEPT !.assigned = @ - Cardinality({p \in rows : master[p].batch = b})]
  <2> SUFFICES ASSUME NEW b \in Batches
               PROVE  /\ Cardinality({p \in rows : master[p].batch = b}) \in Nat
                      /\ batch'[b] = [batch[b] EXCEPT !.assigned =
                                        @ - Cardinality({p \in rows : master[p].batch = b})]
    OBVIOUS
  <2>1. {p \in rows : master[p].batch = b} \in SUBSET Phones
    OBVIOUS
  <2>2. Cardinality({p \in rows : master[p].batch = b}) \in Nat
    BY <2>1, PhonesFinite
  <2> QED
    BY <1>1, <2>2 DEF Returned
<1>6. MasterRows'
  <2>1. \A b \in Batches : batch'[b] \in BatchRow
    <3> SUFFICES ASSUME NEW b \in Batches PROVE batch'[b] \in BatchRow
      OBVIOUS
    <3>1. PICK n \in Nat : batch'[b] = [batch[b] EXCEPT !.assigned = @ - n]
      BY <1>5
    <3>2. batch[b] \in BatchRow
      BY DEF MasterRows
    <3> QED
      BY <3>1, <3>2 DEF BatchRow
  <2>2. \A p \in Phones : master'[p] \in MasterRow /\ crm'[p] \in CrmRow
    BY <1>1, <1>4 DEF MasterRows
  <2>3. master' \in [Phones -> MasterRow] /\ crm' \in [Phones -> CrmRow]
    BY <1>1, <2>2
  <2>4. batch' \in [Batches -> BatchRow]
    BY <1>1, <2>1
  <2>5. nextLead' \in Nat \ {0}
    BY <1>1 DEF MasterRows
  <2> QED
    BY <2>3, <2>4, <2>5 DEF MasterRows
<1>7. /\ taking'[s] = NotTaking /\ \A t \in Servers : t # s => taking'[t] = taking[t]
      /\ NotTaking \in TakeJob /\ NotTaking.ids = {} /\ NotTaking.rows = {}
  BY <1>1 DEF Takings, TakeJob, NotTaking
<1>8. Takings'
  <2>1. taking' \in [Servers -> TakeJob]
    BY <1>1, <1>7 DEF Takings
  <2>2. ASSUME NEW t \in Servers
        PROVE  /\ \A id \in taking'[t].ids : id < nextLead'
               /\ \A p \in taking'[t].rows : master'[p].batch \in Batches
    <3>1. CASE t = s
      BY <1>7, <3>1
    <3>2. CASE t # s
      <4>1. taking'[t] = taking[t] /\ taking[t] \in TakeJob /\ nextLead' = nextLead
        BY <1>1, <1>7, <3>2 DEF Takings
      <4>2. \A p \in taking[t].rows : p \in Phones
        BY <4>1 DEF TakeJob
      <4> QED
        BY <1>1, <4>1, <4>2 DEF Takings
    <3> QED
      BY <3>1, <3>2
  <2> QED
    BY <2>1, <2>2 DEF Takings
<1>9. \A p \in Phones : Numbered(p)'
  <2> SUFFICES ASSUME NEW p \in Phones PROVE Numbered(p)'
    OBVIOUS
  <2>1. nextLead' = nextLead /\ 0 < nextLead
    BY <1>1 DEF MasterRows
  <2>2. /\ crm'[p].id = 0 => crm'[p] = NoLead
        /\ crm'[p].id < nextLead'
    BY <1>1, <1>4, <2>1 DEF Numbered
  <2>3. CASE p \in rows
    BY <1>1, <2>1, <2>2, <2>3 DEF Numbered
  <2>4. CASE p \notin rows
    BY <1>1, <2>1, <2>2, <2>4 DEF Numbered
  <2> QED
    BY <2>3, <2>4
<1>10. InOrder'
  <2> SUFFICES ASSUME NEW p \in Phones, (master[p].batch \notin amiss)' PROVE Agree(p)'
    BY DEF InOrder
  <2>1. master[p].batch \notin amiss' /\ Agree(p)
    BY <1>1, <1>2 DEF InOrder
  <2>2. ASSUME NEW t \in Servers
        PROVE  taking'[t] = taking[t] \/ taking'[t].ids = {}
    BY <1>7
  <2>3. \A t \in Servers : 0 \notin taking'[t].ids
    BY <1>8 DEF Takings, TakeJob
  <2>4. CASE p \in rows
    <3>1. crm'[p] = NoLead /\ master'[p].lead = 0
      BY <1>1, <1>3, <2>1, <2>4
    <3> QED
      BY <1>4, <2>3, <3>1 DEF Agree
  <2>5. CASE p \notin rows
    <3>1. crm'[p] = crm[p] /\ master'[p] = master[p]
      BY <1>1, <1>3, <2>1, <2>5
    <3> QED
      BY <2>1, <2>2, <3>1 DEF Agree
  <2> QED
    BY <2>4, <2>5
<1>11. LeadsApart'
  BY <1>1, <1>4 DEF LeadsApart
<1>12. Slices' /\ HandingOut'
  BY <1>1 DEF Slices, HandingOut
<1>13. ASSUME NEW b \in Batches \ amiss'
       PROVE  Counters(b)'
  <2>1. PICK back : back = {p \in rows : master[p].batch = b}
    OBVIOUS
  <2>2. back \in SUBSET Phones
    BY <2>1
  <2>3. IsFiniteSet(back) /\ Cardinality(back) \in Nat
    BY <2>2, PhonesFinite
  <2>4. PICK old : old = RowsOf(b, {"NEW"})
    OBVIOUS
  <2>5. IsFiniteSet(old) /\ Cardinality(old) \in Nat
    BY <2>4, RowsAreNumbers
  <2>6. \A p \in back : master[p].status = "ASSIGNED"
    BY <1>3, <1>13, <2>1
  <2>7. RowsOf(b, {"NEW"})' = old \cup back /\ old \cap back = {}
    BY <1>1, <2>1, <2>4, <2>6 DEF RowsOf
  <2>8. Cardinality(RowsOf(b, {"NEW"})') = Cardinality(old) + Cardinality(back)
    BY <2>3, <2>5, <2>7, SizeOfBoth
  <2>9. InFlight(b)' = InFlight(b) /\ Cardinality(InFlight(b)) \in Nat
    BY <1>1, PairsFinite DEF InFlight
  <2>10. /\ batch'[b].added = batch[b].added /\ batch'[b].skipped = batch[b].skipped
         /\ batch'[b].assigned = batch[b].assigned - Cardinality(back)
         /\ batch[b].added \in Int /\ batch[b].skipped \in Int /\ batch[b].assigned \in Int
    <3>1. batch[b] \in BatchRow /\ batch'[b] = [batch[b] EXCEPT !.assigned = @ - Cardinality(back)]
      BY <1>5, <2>1 DEF MasterRows
    <3> QED
      BY <3>1 DEF BatchRow
  <2>11. batch[b].added + Cardinality(InFlight(b)) - batch[b].assigned - batch[b].skipped
           = Cardinality(old)
    BY <1>2, <1>13, <2>4 DEF CountersExact, Counters
  <2> QED
    BY <2>3, <2>5, <2>8, <2>9, <2>10, <2>11 DEF Counters
<1> QED
  BY <1>2, <1>6, <1>8, <1>9, <1>10, <1>11, <1>12, <1>13 DEF CountersExact

\* What happens to a lead elsewhere leaves its id, and makes none the day's.
LEMMA ElsewhereKeeps ==
  ASSUME MasterInv, NEW p \in Phones, LogCall(p) \/ \E e \in Telecallers : Reassign(p, e)
  PROVE  MasterInv'
<1> USE DEF MasterInv, MasterSound
<1>1. PICK e \in Telecallers \cup {Nil} :
        /\ crm[p] # NoLead
        /\ \/ crm' = [crm EXCEPT ![p].called = TRUE]
           \/ e \in Telecallers /\ crm' = [crm EXCEPT ![p].owner = e, ![p].daily = FALSE]
        /\ UNCHANGED <<batch, master, server, sent, assigning, taking, nextLead, amiss>>
  BY DEF LogCall, Reassign
<1>2. \A q \in Phones : /\ crm'[q] \in CrmRow /\ crm'[q].id = crm[q].id
                        /\ crm'[q].daily => crm[q].daily
                        /\ crm'[q] = crm[q] \/ q = p
  <2>1. CASE crm' = [crm EXCEPT ![p].called = TRUE]
    BY <2>1 DEF MasterRows, CrmRow
  <2>2. CASE e \in Telecallers /\ crm' = [crm EXCEPT ![p].owner = e, ![p].daily = FALSE]
    BY <2>2 DEF MasterRows, CrmRow
  <2> QED
    BY <1>1, <2>1, <2>2
<1>3. crm[p].id # 0
  BY <1>1 DEF Numbered
<1>4. crm' \in [Phones -> CrmRow]
  BY <1>1, <1>2 DEF MasterRows
<1>5. MasterRows'
  BY <1>1, <1>4 DEF MasterRows
<1>6. \A q \in Phones : Numbered(q)'
  BY <1>1, <1>2, <1>3 DEF Numbered
<1>7. InOrder'
  <2> SUFFICES ASSUME NEW q \in Phones, (master[q].batch \notin amiss)' PROVE Agree(q)'
    BY DEF InOrder
  <2>1. Agree(q)
    BY <1>1 DEF InOrder
  <2> QED
    BY <1>1, <1>2, <2>1 DEF Agree
<1>8. HandingOut' /\ LeadsApart' /\ Takings' /\ Slices'
  BY <1>1, <1>2 DEF HandingOut, LeadsApart, Takings, Slices
<1>9. CountersExact'
  BY <1>1 DEF CountersExact, Counters, RowsOf, InFlight
<1> QED
  BY <1>1, <1>5, <1>6, <1>7, <1>8, <1>9

LEMMA OtherLeadKeeps ==
  ASSUME MasterInv, NEW p \in Phones, NEW dnc \in BOOLEAN, OtherLead(p, dnc)
  PROVE  MasterInv'
<1> USE DEF MasterInv, MasterSound
<1>1. PICK customer : customer = [NoLead EXCEPT !.id = nextLead, !.doNotCall = dnc]
  OBVIOUS
<1>2. /\ crm[p] = NoLead /\ crm' = [crm EXCEPT ![p] = customer] /\ nextLead' = nextLead + 1
      /\ UNCHANGED <<batch, master, server, sent, assigning, taking, amiss>>
  BY <1>1 DEF OtherLead
<1>3. customer \in CrmRow /\ customer.id = nextLead /\ customer.id # 0 /\ ~customer.daily
  BY <1>1 DEF CrmRow, NoLead, MasterRows
<1>4. crm'[p] = customer /\ \A q \in Phones \ {p} : crm'[q] = crm[q]
  BY <1>2 DEF MasterRows
<1>5. crm[p].id = 0 /\ ~crm[p].daily
  BY <1>2 DEF NoLead
<1>6. MasterRows'
  BY <1>2, <1>3 DEF MasterRows
<1>7. \A q \in Phones : Numbered(q)'
  <2> SUFFICES ASSUME NEW q \in Phones PROVE Numbered(q)'
    OBVIOUS
  <2>1. nextLead \in Nat /\ master[q].lead \in Nat /\ crm[q].id \in Nat
    BY DEF MasterRows, MasterRow, CrmRow
  <2> QED
    BY <1>2, <1>3, <1>4, <2>1 DEF Numbered
<1>8. LeadsApart'
  BY <1>3, <1>4 DEF LeadsApart, Numbered, MasterRows, CrmRow
<1>9. InOrder'
  <2> SUFFICES ASSUME NEW q \in Phones, (master[q].batch \notin amiss)' PROVE Agree(q)'
    BY DEF InOrder
  <2>1. Agree(q)
    BY <1>2 DEF InOrder
  <2>2. CASE q = p
    <3>1. master[p].lead = 0
      BY <1>5, <2>1, <2>2 DEF Agree
    <3>2. \A t \in Servers : nextLead \notin taking[t].ids /\ 0 \notin taking[t].ids
      BY DEF Takings, TakeJob, MasterRows
    <3> QED
      BY <1>2, <1>3, <1>4, <2>2, <3>1, <3>2 DEF Agree
  <2>3. CASE q # p
    BY <1>2, <1>4, <2>1, <2>3 DEF Agree
  <2> QED
    BY <2>2, <2>3
<1>10. HandingOut' /\ Slices' /\ Takings'
  <2>1. \A id \in Nat : id < nextLead => id < nextLead'
    BY <1>2 DEF MasterRows
  <2> QED
    BY <1>2, <2>1 DEF HandingOut, Slices, Takings, TakeJob
<1>11. CountersExact'
  BY <1>2 DEF CountersExact, Counters, RowsOf, InFlight
<1> QED
  BY <1>2, <1>6, <1>7, <1>8, <1>9, <1>10, <1>11

LEMMA MasterStep ==
  ASSUME MasterInv, MasterNext \/ UNCHANGED masterdata
  PROVE  MasterInv'
<1>1. CASE UNCHANGED masterdata
  <2>1. UNCHANGED <<batch, master, crm, server, sent, assigning, taking, nextLead, amiss>>
    BY <1>1 DEF masterdata
  <2>2. MasterSound'
    BY <2>1, NumbersKept DEF MasterInv, MasterSound, MasterRows, Slices, HandingOut
  <2>3. CountersExact'
    BY <2>1 DEF MasterInv, CountersExact, Counters, InFlight, RowsOf
  <2> QED
    BY <2>2, <2>3 DEF MasterInv
<1> QED
  BY <1>1, AddRowsKeeps, InsertKeeps, CountKeeps, StopsKeeps, ResumeKeeps, TimeoutKeeps, AskingKeeps,
     ReadKeeps, SeeKeeps, TakeBackKeeps, FreshKeeps, StaleKeeps, ElsewhereKeeps, OtherLeadKeeps
     DEF MasterNext

LEMMA MasterBegins == ASSUME MasterInit PROVE MasterInv
<1>1. MasterRows
  BY DEF MasterInit, MasterRows, BatchRow, MasterRow, MasterStatus, CrmRow, NoRows, NoMaster, NoLead
<1>2. \A b \in Batches : Len(File[b]) \in Nat
  BY MasterAssumption
<1>3. Slices
  BY <1>2 DEF MasterInit, Slices, SliceJob, Resting
<1>4. MasterSound
  <2>1. Takings
    BY DEF MasterInit, Takings, TakeJob, NotTaking
  <2>2. \A p \in Phones : Numbered(p)
    BY DEF MasterInit, Numbered, NoMaster, NoLead
  <2>3. InOrder /\ LeadsApart
    BY DEF MasterInit, InOrder, Agree, LeadsApart, NoMaster, NoLead, NotTaking
  <2> QED
    BY <1>1, <1>3, <2>1, <2>2, <2>3 DEF MasterInit, MasterSound, HandingOut
<1>5. ASSUME NEW b \in Batches
      PROVE  Counters(b)
  <2>1. InFlight(b) = {} /\ RowsOf(b, {"NEW"}) = {}
    BY DEF MasterInit, InFlight, RowsOf, Resting, NoMaster
  <2>2. batch[b] = NoRows
    BY DEF MasterInit
  <2> QED
    BY <2>1, <2>2, FS_EmptySet DEF Counters, NoRows
<1> QED
  BY <1>4, <1>5 DEF MasterInv, CountersExact

\* The overview's arithmetic (masterLeads.ts:189-194) is exact, through retried slices,
\* assignments, transfers and take-backs in any order, for every upload of which no stopped
\* handler left a slice uncounted and no number was returned by two take-backs; and a number of
\* it that was handed out is a lead until it is taken back.
THEOREM UnassignedCorrect == Spec => []UnassignedExact
<1>1. Init => MasterInv
  BY MasterBegins DEF Init
<1>2. MasterInv /\ [Next]_vars => MasterInv'
  BY MasterStep DEF Next, vars, DealsNext, ExpensesNext, ComplaintsNext, TasksNext, PeopleNext,
                    SignInsNext, MasterDataNext
<1>3. MasterInv => UnassignedExact
  BY MasterExact
<1> QED
  BY <1>1, <1>2, <1>3, PTL DEF Spec

-----------------------------------------------------------------------------
(* Types.  Each part's rows keep their type because its running handlers    *)
(* carry what the checks before them admitted.                              *)

\* Refunds: the decider of each kind is one who may decide so.
RightDecider(action, e) ==
    /\ action \in {"ACCOUNTANT_APPROVE", "ACCOUNTANT_REJECT", "MARK_REFUNDED"} => e \in Accountants
    /\ action \in {"MD_APPROVE", "MD_REJECT"} => e \in Approvers

ExpensesTyped ==
    /\ ExpenseJobs /\ ExpensesTypeOK
    /\ \A c \in Calls : call[c] # Idle => RightDecider(call[c].action, call[c].who)

LEMMA ExpensesTypeStep ==
  ASSUME part = "EXPENSES", ExpensesTyped, [Next]_vars
  PROVE  ExpensesTyped'
<1>1. CASE UNCHANGED <<running, expenses>>
  BY <1>1 DEF ExpensesTyped, ExpenseJobs, ExpensesTypeOK, running, expenses
<1>2. ASSUME NEW c \in Calls, NEW e \in Claimants, NEW r \in Refunds, createRefund(c, e, r)
      PROVE  ExpensesTyped'
  <2>1. /\ refund' = [refund EXCEPT ![r] = Refund("PENDING", e)] /\ trail' = trail
        /\ call' = [call EXCEPT ![c] = Idle]
    BY <1>2 DEF createRefund, Serve, Begin
  <2> QED
    BY <2>1 DEF ExpensesTyped, ExpenseJobs, ExpensesTypeOK, Refund
<1>3. ASSUME NEW c \in Calls, NEW e \in Deciders, NEW r \in Refunds, NEW action \in DecisionActions,
             RightDecider(action, e), Decide(c, e, r, action)
      PROVE  ExpensesTyped'
  <2>1. PICK job : job = [op |-> "decide", on |-> r, who |-> e, action |-> action, then |-> <<>>]
    OBVIOUS
  <2>2. /\ call' = [call EXCEPT ![c] = job] /\ refund' = refund /\ trail' = trail
        /\ job \in ExpenseJob /\ job.action = action /\ job.who = e
    BY <1>3, <2>1 DEF Decide, Begin, expenses, ExpenseJob
  <2> QED
    BY <1>3, <2>2 DEF ExpensesTyped, ExpenseJobs, ExpensesTypeOK
<1>4. ASSUME NEW c \in Calls, NEW e \in Accountants, NEW r \in Refunds,
             accountantReview(c, e, r) \/ markRefunded(c, e, r)
      PROVE  ExpensesTyped'
  <2>1. \E action \in {"ACCOUNTANT_APPROVE", "ACCOUNTANT_REJECT", "MARK_REFUNDED"} :
          Decide(c, e, r, action)
    BY <1>4 DEF accountantReview, markRefunded
  <2> QED
    BY <1>3, <2>1 DEF RightDecider, Deciders, DecisionActions
<1>5. ASSUME NEW c \in Calls, NEW e \in Approvers, NEW r \in Refunds, mdReview(c, e, r)
      PROVE  ExpensesTyped'
  BY <1>3, <1>5 DEF mdReview, RightDecider, Deciders, DecisionActions
<1>6. ASSUME NEW c \in Calls, decide(c)
      PROVE  ExpensesTyped'
  <2>1. call[c] \in ExpenseJob /\ call[c] # Idle
    BY <1>6 DEF decide, ExpensesTyped, ExpenseJobs, ExpenseJob, Idle
  <2>2. PICK r \in Refunds, e \in Deciders, action \in DecisionActions :
          call[c].on = r /\ call[c].who = e /\ call[c].action = action /\ call[c].then = <<>>
    BY <2>1 DEF ExpenseJob
  <2>3. RightDecider(action, e)
    BY <2>1, <2>2 DEF ExpensesTyped
  <2>4. PICK new : new = Ruled(refund[r], action, e)
    OBVIOUS
  <2>5. /\ refund' = [refund EXCEPT ![r] = new]
        /\ trail' = trail \cup {[on |-> r, action |-> action, who |-> e]}
        /\ call' = [call EXCEPT ![c] = Idle]
    BY <1>6, <2>2, <2>4 DEF decide, Done, Continue
  <2>6. new \in [status : {"ACCOUNTANT_APPROVED", "REJECTED_BY_ACCOUNTANT", "MD_APPROVED",
                           "REJECTED_BY_MD", "REFUNDED"},
                 by : Claimants \cup {Absent}, accountant : Accountants \cup {Absent},
                 md : Approvers \cup {Absent}, payer : Accountants \cup {Absent}]
    <3>1. refund[r] \in [status : {"ABSENT", "PENDING", "ACCOUNTANT_APPROVED",
                                   "REJECTED_BY_ACCOUNTANT", "MD_APPROVED", "REJECTED_BY_MD",
                                   "REFUNDED"},
                         by : Claimants \cup {Absent}, accountant : Accountants \cup {Absent},
                         md : Approvers \cup {Absent}, payer : Accountants \cup {Absent}]
      BY <2>2 DEF ExpensesTyped, ExpensesTypeOK
    <3>2. CASE action = "ACCOUNTANT_APPROVE"
      BY <2>3, <2>4, <3>1, <3>2 DEF Ruled, Outcome, RightDecider
    <3>3. CASE action = "ACCOUNTANT_REJECT"
      BY <2>3, <2>4, <3>1, <3>3 DEF Ruled, Outcome, RightDecider
    <3>4. CASE action = "MD_APPROVE"
      BY <2>3, <2>4, <3>1, <3>4 DEF Ruled, Outcome, RightDecider
    <3>5. CASE action = "MD_REJECT"
      BY <2>3, <2>4, <3>1, <3>5 DEF Ruled, Outcome, RightDecider
    <3>6. CASE action = "MARK_REFUNDED"
      BY <2>3, <2>4, <3>1, <3>6 DEF Ruled, Outcome, RightDecider
    <3> QED
      BY <2>2, <3>2, <3>3, <3>4, <3>5, <3>6 DEF DecisionActions
  <2>7. ExpensesTypeOK'
    BY <2>2, <2>5, <2>6 DEF ExpensesTyped, ExpensesTypeOK
  <2> QED
    BY <2>5, <2>7 DEF ExpensesTyped, ExpenseJobs
<1>7. ASSUME NEW c \in Calls, Abandon(c), UNCHANGED expenses
      PROVE  ExpensesTyped'
  BY <1>7 DEF Abandon, expenses, ExpensesTyped, ExpenseJobs, ExpensesTypeOK
<1>8. Accepting \subseteq Calls
  BY DEF Accepting, Idling
<1> QED
  BY <1>1, <1>2, <1>4, <1>5, <1>6, <1>7, <1>8, PartOnly DEF ExpensesNext, ExpenseRequests

\* Complaints.
LEMMA ComplaintsTypeStep ==
  ASSUME part = "COMPLAINTS", ComplaintsInv, ComplaintsTypeOK, [Next]_vars
  PROVE  ComplaintsTypeOK'
<1>1. complaint' \in [Complaint -> ComplaintRow]
  BY ComplaintsStep DEF ComplaintsInv
<1>2. ASSUME NEW c \in Calls, ComplaintCommits(c)
      PROVE  settled' \subseteq Complaint /\ answers' \in [Complaint -> Nat]
  <2>1. call[c].op # "IDLE"
    BY <1>2 DEF ComplaintCommits, assignTx, statusTx, resolveTx, closeTx
  <2>2. call[c] \in ComplaintJobs
    BY <2>1 DEF ComplaintsInv, CallsAre, Idle
  <2>3. PICK k \in Complaint : call[c].on = k
    BY <2>2 DEF ComplaintJobs
  <2>4. \/ settled' = settled
        \/ \E to : settled' = Settled(k, to)
    BY <1>2, <2>3 DEF ComplaintCommits, assignTx, statusTx, resolveTx, closeTx
  <2>5. settled' \subseteq Complaint
    BY <2>4 DEF ComplaintsTypeOK, Settled
  <2>6. answers' = answers \/ answers' = [answers EXCEPT ![k] = answers[k] + 1]
    BY <1>2, <2>3 DEF ComplaintCommits, assignTx, statusTx, resolveTx, closeTx
  <2> QED
    BY <2>5, <2>6 DEF ComplaintsTypeOK
<1>3. ASSUME NEW c \in Calls, ComplaintRequests(c)
      PROVE  UNCHANGED <<settled, answers>>
  BY <1>3 DEF ComplaintRequests, createComplaint, assign, changeStatus, resolve, close, Asked,
              complaints
<1>4. settled' \subseteq Complaint /\ answers' \in [Complaint -> Nat]
  BY <1>2, <1>3, PartOnly, AcceptingAreCalls DEF ComplaintsNext, complaints, ComplaintsTypeOK
<1> QED
  BY <1>1, <1>4 DEF ComplaintsTypeOK, ComplaintRow, ComplaintStatus

\* Tasks: a report that asks for more time is written as PENDING.
TasksTyped ==
    /\ TasksTypeOK
    /\ \A c \in Calls : call[c] # Idle => call[c].status # "NEED_MORE_TIME"

TaskStatus == {"ABSENT", "OVERDUE", "COMPLETED", "CANCELLED"} \cup OPEN_TASK_STATUSES
              \cup REVIEWABLE_TASK_STATUSES
TaskRow == [status : TaskStatus, by : SUBSET Doers, for : SUBSET Doers, reviewed : BOOLEAN]

LEMMA TasksTypeStep ==
  ASSUME part = "TASKS", TasksInv, TasksTyped, [Next]_vars
  PROVE  TasksTyped'
<1>0. call \in [Calls -> TaskJobs \cup {Idle}] /\ awards' \in [Tasks -> Nat]
  BY TasksStep DEF TasksInv, CallsAre
<1>00. task \in [Tasks -> TaskRow]
  BY DEF TasksTyped, TasksTypeOK, TaskRow, TaskStatus
<1>01. ASSUME task' \in [Tasks -> TaskRow] PROVE TasksTypeOK'
  BY <1>0, <1>01 DEF TasksTypeOK, TaskRow, TaskStatus
<1>1. CASE UNCHANGED <<running, worktasks>>
  BY <1>1 DEF TasksTyped, TasksTypeOK, running, worktasks
<1>2. ASSUME NEW c \in Calls, NEW job, call' = [call EXCEPT ![c] = job],
             job # Idle => job.status # "NEED_MORE_TIME", task' \in [Tasks -> TaskRow]
      PROVE  TasksTyped'
  BY <1>0, <1>01, <1>2 DEF TasksTyped
<1>3. ASSUME NEW c \in Calls, TaskRequests(c)
      PROVE  TasksTyped'
  <2>1. PICK e \in Doers, t \in Tasks :
          \/ \E to \in Doers : createTask(c, e, to, t)
          \/ \E to \in {"PENDING", "IN_PROGRESS", "COMPLETED", "OVERDUE"} : patchStatus(c, e, t, to)
          \/ \E outcome \in {"COMPLETED", "NEED_MORE_TIME"} \cup REVIEWABLE_TASK_STATUSES :
               finishTask(c, e, t, outcome)
          \/ reviewTask(c, e, t)
    BY <1>3 DEF TaskRequests
  <2>2. ASSUME NEW to \in Doers, createTask(c, e, to, t)
        PROVE  TasksTyped'
    <3>1. /\ call' = [call EXCEPT ![c] = Idle]
          /\ task' = [task EXCEPT ![t] = [status |-> "PENDING", by |-> {e}, for |-> {to},
                                          reviewed |-> FALSE]]
      BY <2>2 DEF createTask, Serve, Begin
    <3>2. task' \in [Tasks -> TaskRow]
      BY <1>00, <3>1 DEF TaskRow, TaskStatus, OPEN_TASK_STATUSES
    <3> QED
      BY <1>2, <3>1, <3>2
  <2>3. ASSUME NEW op, NEW status, NEW reviewed, NEW then, status # "NEED_MORE_TIME",
               Look(c, TaskJob(op, t, status, reviewed, then))
        PROVE  TasksTyped'
    <3>1. PICK job : job = TaskJob(op, t, status, reviewed, then)
      OBVIOUS
    <3>2. /\ call' = [call EXCEPT ![c] = job] /\ task' = task /\ job.status # "NEED_MORE_TIME"
      BY <2>3, <3>1 DEF Look, Begin, worktasks, TaskJob
    <3> QED
      BY <1>00, <1>2, <3>2
  <2>4. ASSUME NEW to \in {"PENDING", "IN_PROGRESS", "COMPLETED", "OVERDUE"}, patchStatus(c, e, t, to)
        PROVE  TasksTyped'
    BY <2>3, <2>4 DEF patchStatus
  <2>5. ASSUME NEW outcome \in {"COMPLETED", "NEED_MORE_TIME"} \cup REVIEWABLE_TASK_STATUSES,
               finishTask(c, e, t, outcome)
        PROVE  TasksTyped'
    <3>1. PICK to, own :
            /\ to = IF outcome = "NEED_MORE_TIME" THEN "PENDING" ELSE outcome
            /\ Look(c, TaskJob("finish", t, to, own, Awarded(task[t], to)))
      BY <2>5 DEF finishTask
    <3> QED
      BY <2>3, <3>1
  <2>6. CASE reviewTask(c, e, t)
    BY <2>3, <2>6 DEF reviewTask
  <2> QED
    BY <2>1, <2>2, <2>4, <2>5, <2>6
<1>4. ASSUME NEW c \in Calls, TaskCommits(c)
      PROVE  TasksTyped'
  <2>0. call[c].op # "IDLE"
    BY <1>4 DEF TaskCommits, writeTask, awardTaskCompletion, givePoint
  <2>1. call[c] \in TaskJobs /\ call[c] # Idle /\ call[c].status # "NEED_MORE_TIME"
    BY <1>0, <2>0 DEF TasksTyped, Idle
  <2>2. PICK t \in Tasks, status \in Outcomes, reviewed \in BOOLEAN :
          call[c].on = t /\ call[c].status = status /\ call[c].reviewed = reviewed
    BY <2>1 DEF TaskJobs
  <2>3. task' \in [Tasks -> TaskRow]
    <3>1. CASE writeTask(c)
      <4>1. PICK row \in TaskRow : row = task[t]
        BY <1>00
      <4>2. PICK to, mark : /\ to = IF status = "AS_REPORTED" THEN row.status ELSE status
                            /\ mark \in BOOLEAN
                            /\ mark = IF call[c].op = "status" THEN row.reviewed ELSE reviewed
        BY <4>1 DEF TaskRow
      <4>3. task' = [task EXCEPT ![t] = [row EXCEPT !.status = to, !.reviewed = mark]]
        BY <3>1, <2>2, <4>1, <4>2 DEF writeTask
      <4>4. to \in TaskStatus
        BY <2>1, <2>2, <4>1, <4>2 DEF Outcomes, TaskRow, TaskStatus, OPEN_TASK_STATUSES,
                                     REVIEWABLE_TASK_STATUSES
      <4>5. [row EXCEPT !.status = to, !.reviewed = mark] \in TaskRow
        BY <4>2, <4>4 DEF TaskRow
      <4> QED
        BY <1>00, <4>3, <4>5
    <3>2. CASE awardTaskCompletion(c) \/ givePoint(c)
      BY <1>00, <3>2 DEF awardTaskCompletion, givePoint, worktasks
    <3> QED
      BY <1>4, <3>1, <3>2 DEF TaskCommits
  <2>4. PICK job : call' = [call EXCEPT ![c] = job] /\ (job # Idle => job.status # "NEED_MORE_TIME")
    <3>1. CASE writeTask(c) \/ givePoint(c)
      <4>1. Done(c)
        BY <3>1 DEF writeTask, givePoint
      <4>2. PICK next : next = [call[c] EXCEPT !.op = Head(call[c].then), !.then = Tail(call[c].then)]
        OBVIOUS
      <4>3. next.status = call[c].status
        BY <2>1, <4>2 DEF TaskJobs
      <4> QED
        BY <2>1, <4>1, <4>2, <4>3 DEF Done, Continue
    <3>2. CASE awardTaskCompletion(c)
      BY <3>2 DEF awardTaskCompletion, Finish, Continue, TaskJob
    <3> QED
      BY <1>4, <3>1, <3>2 DEF TaskCommits
  <2> QED
    BY <1>2, <2>3, <2>4
<1>5. ASSUME NEW c \in Calls, Abandon(c), UNCHANGED worktasks
      PROVE  TasksTyped'
  BY <1>00, <1>2, <1>5 DEF Abandon, worktasks
<1>6. ASSUME NEW t \in Tasks, sweepOverdueTasks(t)
      PROVE  TasksTyped'
  <2>1. task' = [task EXCEPT ![t].status = "OVERDUE"] /\ call' = call
    BY <1>6 DEF sweepOverdueTasks, running
  <2>2. task' \in [Tasks -> TaskRow]
    BY <1>00, <2>1 DEF TaskRow, TaskStatus
  <2> QED
    BY <1>01, <2>1, <2>2 DEF TasksTyped
<1> QED
  BY <1>1, <1>3, <1>4, <1>5, <1>6, PartOnly, AcceptingAreCalls DEF TasksNext

\* Leavers: whom a handler is about works here.
LEMMA PeopleTypeStep ==
  ASSUME part = "PEOPLE", PeopleInv, PeopleTypeOK, [Next]_vars
  PROVE  PeopleTypeOK'
<1>1. PeopleTyped'
  BY PeopleStep DEF PeopleInv
<1>2. ASSUME NEW c \in Calls, PeopleCommits(c)
      PROVE  (told' \cup promised') \subseteq Workers /\ stranded' \subseteq Workers \X Work
  <2>1. call[c].op # "IDLE"
    BY <1>2 DEF PeopleCommits, recordResignation, changeTx, withdrawTx, offboardEmployee, lockOut,
                chooseTarget, moveLeadOwnership, moveRest, handOverFails, summary, notifyManagement, offboarded
  <2>2. PICK e \in Workers : call[c].on = e
    BY <2>1 DEF PeopleInv, CallsAre, Idle, PeopleJobs
  <2>3. /\ told' \in {told, told \cup {e}}
        /\ stranded' \in {stranded, stranded \cup ({e} \X WorkOf(e))}
        /\ promised' \in {promised, promised \cup {e}}
    BY <1>2, <2>2
       DEF PeopleCommits, recordResignation, changeTx, withdrawTx, offboardEmployee, lockOut,
           chooseTarget, moveLeadOwnership, moveRest, handOverFails, summary, notifyManagement, offboarded,
           Others, Answered, people
  <2>4. ({e} \X WorkOf(e)) \subseteq Workers \X Work
    BY DEF WorkOf
  <2> QED
    BY <2>3, <2>4 DEF PeopleTypeOK
<1>3. ASSUME NEW c \in Calls, PeopleRequests(c)
      PROVE  UNCHANGED <<told, stranded, promised>>
  BY <1>3 DEF PeopleRequests, resign, changeResignation, withdraw, offboardDueLeavers, handOver,
              updateEmployee, changeRole, Opens, people, Others
<1>4. ASSUME NEW e \in Workers, lastDayPasses(e)
      PROVE  UNCHANGED <<told, stranded, promised>>
  BY <1>4 DEF lastDayPasses, Others
<1>5. (told' \cup promised') \subseteq Workers /\ stranded' \subseteq Workers \X Work
  BY <1>2, <1>3, <1>4, PartOnly, AcceptingAreCalls DEF PeopleNext, people, PeopleTypeOK
<1> QED
  BY <1>1, <1>5 DEF PeopleTyped, PeopleTypeOK

\* Deals: a demo is reassigned to an agent.
DealsTyped ==
    /\ lead \in LeadStatus /\ Len(opportunity) <= MaxOpps
    /\ demo \in [Demos -> Demo \cup {NoDemo}]
    /\ \A c \in Calls : call[c] # Idle /\ call[c].op = "reassign" => call[c].who \in Agents

LEMMA DealsTypes ==
  ASSUME DealsInv, DealsTyped
  PROVE  DealsTypeOK
<1>1. \A o \in DOMAIN opportunity : /\ opportunity[o] \in OppRow
                                   /\ opportunity[o].booking \in {0} \cup DOMAIN sale
  BY RowTypes DEF DealsInv, Linked, OppRow
<1>2. \A o \in DOMAIN opportunity :
        opportunity[o] \in [owner : Agents, item : Items \cup {None}, booking : {0} \cup DOMAIN sale]
  BY <1>1 DEF OppRow
<1>3. \A b \in DOMAIN sale : sale[b] \in [item : Items, live : BOOLEAN]
  BY RowTypes DEF DealsInv, SaleRow
<1> QED
  BY <1>2, <1>3 DEF DealsTypeOK, DealsTyped, DealsInv, DealRows

LEMMA DealsTypesBegin ==
  ASSUME Init, part = "DEALS"
  PROVE  DealsTyped
<1>1. PICK s \in StartDeals : lead = s.lead /\ opportunity = s.opps /\ demo = s.demos
  BY DEF Init, DealsInit
<1>2. call = [c \in Calls |-> Idle]
  BY DEF Init, HandlersInit
<1> QED
  BY <1>1, <1>2, StartDealsAssumption DEF DealsTyped

LEMMA DealsTypeStep ==
  ASSUME part = "DEALS", DealsInv, DealsTyped, [Next]_vars
  PROVE  DealsTyped'
<1>0. Len(opportunity) \in Nat /\ MaxOpps \in Nat /\ call = [c \in Calls |-> call[c]]
  BY RowTypes, DealsAssumption DEF DealsInv
<1>1. CASE UNCHANGED <<running, deals>>
  BY <1>1 DEF DealsTyped, running, deals
<1>2. ASSUME NEW c \in Calls, NEW job, call' = [call EXCEPT ![c] = job],
             job # Idle => job.op # "reassign" \/ job.who \in Agents
      PROVE  \A d \in Calls : call'[d] # Idle /\ call'[d].op = "reassign" => call'[d].who \in Agents
  BY <1>0, <1>2 DEF DealsTyped
<1>3. ASSUME NEW c \in Calls, DealRequests(c)
      PROVE  DealsTyped'
  <2>1. ASSUME NEW job, Read(c, job), job # Idle => job.op # "reassign" \/ job.who \in Agents
        PROVE  DealsTyped'
    <3>1. call' = [call EXCEPT ![c] = job] /\ UNCHANGED <<lead, opportunity, demo>>
      BY <2>1 DEF Read, Begin, deals
    <3>2. \A d \in Calls : call'[d] # Idle /\ call'[d].op = "reassign" => call'[d].who \in Agents
      BY <1>2, <2>1, <3>1
    <3> QED
      BY <3>1, <3>2 DEF DealsTyped
  <2>2. ASSUME NEW op \in {"convert", "accept", "decline", "complete", "remove"},
               NEW on, NEW item, NEW then, Read(c, DealJob(op, on, item, then))
        PROVE  DealsTyped'
    <3>1. PICK job : job = DealJob(op, on, item, then)
      OBVIOUS
    <3>2. job.op # "reassign"
      BY <3>1 DEF DealJob
    <3> QED
      BY <2>1, <2>2, <3>1, <3>2
  <2>3. ASSUME NEW e \in Agents, NEW item, createFromLead(c, e, item)
        PROVE  DealsTyped'
    <3>1. PICK job : job = [DealJob("open", 0, item, <<>>) EXCEPT !.who = e]
      OBVIOUS
    <3>2. job.op # "reassign"
      BY <3>1 DEF DealJob
    <3> QED
      BY <2>1, <2>3, <3>1, <3>2 DEF createFromLead
  <2>4. ASSUME NEW e, NEW d, NEW to \in Agents, reassignDemo(c, e, d, to)
        PROVE  DealsTyped'
    <3>1. PICK job : job = [DealJob("reassign", d, None, <<>>) EXCEPT !.who = to]
      OBVIOUS
    <3>2. job.who = to
      BY <3>1 DEF DealJob
    <3> QED
      BY <2>1, <2>4, <3>1, <3>2 DEF reassignDemo
  <2>5. ASSUME NEW e, NEW o, NEW item, updateOpportunity(c, e, o, item)
        PROVE  DealsTyped'
    <3>1. /\ opportunity' = [opportunity EXCEPT ![o].item = item] /\ UNCHANGED <<lead, demo>>
          /\ call' = [call EXCEPT ![c] = Idle]
      BY <2>5 DEF updateOpportunity, Serve, Begin
    <3>2. Len(opportunity') = Len(opportunity)
      BY <3>1 DEF DealsInv, DealRows
    <3>3. \A d \in Calls : call'[d] # Idle /\ call'[d].op = "reassign" => call'[d].who \in Agents
      BY <1>2, <3>1
    <3> QED
      BY <3>1, <3>2, <3>3 DEF DealsTyped
  <2>6. ASSUME NEW e, NEW d,
               \/ acceptDemo(c, e, d) \/ declineDemo(c, e, d) \/ completeDemo(c, e, d)
               \/ cancelDemo(c, e, d)
        PROVE  DealsTyped'
    BY <2>2, <2>6 DEF acceptDemo, declineDemo, completeDemo, cancelDemo
  <2>7. ASSUME NEW e, NEW o, convertToBooking(c, e, o)
        PROVE  DealsTyped'
    BY <2>2, <2>7 DEF convertToBooking
  <2> QED
    BY <1>3, <2>3, <2>4, <2>5, <2>6, <2>7 DEF DealRequests
<1>4. ASSUME NEW c \in Calls, DealCommits(c)
      PROVE  DealsTyped'
  <2>0. call[c].op # "IDLE" /\ Done(c)
    BY <1>4 DEF DealCommits, openOpportunity, convertTx, rewriteDemo, completeDemoTx, removeDemo,
                revertLead
  <2>1. call[c] # Idle /\ Going(call[c])
    BY <2>0 DEF DealsInv, Idle
  <2>2. PICK job : call' = [call EXCEPT ![c] = job] /\ (job # Idle => job.op # "reassign")
    <3>1. CASE call[c].then = <<>>
      BY <2>0, <3>1 DEF Done, Continue
    <3>2. CASE call[c].then = <<"revert">>
      <4>1. PICK next : next = [call[c] EXCEPT !.op = Head(call[c].then), !.then = Tail(call[c].then)]
        OBVIOUS
      <4>2. PICK op, on, seen, item, who, then :
              call[c] = [op |-> op, on |-> on, seen |-> seen, item |-> item, who |-> who, then |-> then]
        BY <2>1 DEF Going
      <4>3. PICK once : once = [call[c] EXCEPT !.op = "revert"]
        OBVIOUS
      <4>4. next = [once EXCEPT !.then = <<>>]
        BY <3>2, <4>1, <4>3
      <4>5. once = [op |-> "revert", on |-> on, seen |-> seen, item |-> item, who |-> who,
                    then |-> then]
        BY <4>2, <4>3
      <4>6. next.op = "revert"
        BY <4>4, <4>5
      <4> QED
        BY <2>0, <3>2, <4>1, <4>6 DEF Done, Continue
    <3> QED
      BY <2>1, <3>1, <3>2 DEF Going
  <2>3. \A d \in Calls : call'[d] # Idle /\ call'[d].op = "reassign" => call'[d].who \in Agents
    BY <1>2, <2>2
  <2>4. lead' \in LeadStatus
    <3>1. lead' = lead \/ lead' \in {"NEGOTIATION", "DEMO_COMPLETED", "QUALIFIED"}
      <4>1. CASE completeDemoTx(c)
        BY <4>1 DEF completeDemoTx
      <4>2. CASE openOpportunity(c)
        BY <4>2 DEF openOpportunity
      <4> QED
        BY <1>4, <4>1, <4>2 DEF DealCommits, convertTx, rewriteDemo, removeDemo, revertLead
    <3> QED
      BY <3>1 DEF DealsTyped, LeadStatus, Working
  <2>5. Len(opportunity') <= MaxOpps
    <3>1. CASE openOpportunity(c)
      <4>1. PICK row : opportunity' = Append(opportunity, row) /\ Len(opportunity) < MaxOpps
        BY <3>1 DEF openOpportunity
      <4>2. Len(opportunity') = Len(opportunity) + 1
        BY <4>1 DEF DealsInv, DealRows
      <4> QED
        BY <1>0, <4>1, <4>2
    <3>2. CASE convertTx(c)
      <4>1. \/ opportunity' = opportunity
            \/ \E o, row : opportunity' = [opportunity EXCEPT ![o] = row]
        BY <3>2 DEF convertTx
      <4> QED
        BY <4>1 DEF DealsTyped, DealsInv, DealRows
    <3>3. CASE UNCHANGED opportunity
      BY <3>3 DEF DealsTyped
    <3> QED
      BY <1>4, <3>1, <3>2, <3>3 DEF DealCommits, rewriteDemo, completeDemoTx, removeDemo, revertLead,
                                    HeldLead
  <2>6. demo' \in [Demos -> Demo \cup {NoDemo}]
    <3>1. CASE rewriteDemo(c)
      <4>1. /\ call[c].op \in {"accept", "decline", "reassign"} /\ demo[call[c].on] # NoDemo
            /\ demo' = [demo EXCEPT ![call[c].on] = Rewritten(call[c], demo[call[c].on])]
        BY <3>1 DEF rewriteDemo
      <4>2. ASSUME call[c].on \in Demos
            PROVE  Rewritten(call[c], demo[call[c].on]) \in Demo
        <5>1. demo[call[c].on] \in Demo
          BY <4>1, <4>2 DEF DealsTyped
        <5>2. CASE call[c].op = "accept"
          BY <5>1, <5>2 DEF Rewritten, Demo
        <5>3. CASE call[c].op = "decline"
          BY <5>1, <5>3 DEF Rewritten, Demo
        <5>4. CASE call[c].op = "reassign"
          <6>1. call[c].who \in Agents
            BY <2>1, <5>4 DEF DealsTyped
          <6> QED
            BY <5>1, <5>4, <6>1 DEF Rewritten, Demo
        <5> QED
          BY <4>1, <5>2, <5>3, <5>4
      <4> QED
        BY <4>1, <4>2 DEF DealsTyped
    <3>2. CASE removeDemo(c)
      BY <3>2 DEF removeDemo, DealsTyped
    <3>3. CASE UNCHANGED demo
      BY <3>3 DEF DealsTyped
    <3> QED
      BY <1>4, <3>1, <3>2, <3>3 DEF DealCommits, openOpportunity, convertTx, completeDemoTx,
                                    revertLead, HeldLead
  <2> QED
    BY <2>3, <2>4, <2>5, <2>6 DEF DealsTyped
<1>5. ASSUME NEW c \in Calls, Abandon(c), UNCHANGED deals
      PROVE  DealsTyped'
  <2>1. \A d \in Calls : call'[d] # Idle /\ call'[d].op = "reassign" => call'[d].who \in Agents
    BY <1>2, <1>5 DEF Abandon
  <2> QED
    BY <1>5, <2>1 DEF DealsTyped, deals
<1>6. ASSUME DealsAround
      PROVE  DealsTyped'
  <2>1. ASSUME NEW b, bookingEnds(b)
        PROVE  DealsTyped'
    BY <2>1 DEF bookingEnds, running, DealsTyped
  <2>2. ASSUME NEW to \in LeadStatus, leadMoves(to)
        PROVE  DealsTyped'
    <3>1. lead' = to /\ call' = call
      BY <2>2 DEF leadMoves, running
    <3>2. Len(opportunity') <= MaxOpps
      <4>1. CASE opportunity' = opportunity
        BY <4>1 DEF DealsTyped
      <4>2. ASSUME MaxOpps > 0, NEW row, opportunity' = <<row>>
            PROVE  Len(opportunity') <= MaxOpps
        BY <1>0, <4>2
      <4> QED
        BY <2>2, <4>1, <4>2 DEF leadMoves, createFromLeadTx
    <3>3. demo' \in [Demos -> Demo \cup {NoDemo}]
      <4>1. \/ demo' = demo
            \/ \E d \in Demos, e \in Agents : demo' = [demo EXCEPT ![d] = Scheduled(e)]
        BY <2>2 DEF leadMoves
      <4>2. \A e \in Agents : Scheduled(e) \in Demo
        BY DEF Scheduled, Demo
      <4> QED
        BY <4>1, <4>2 DEF DealsTyped
    <3> QED
      BY <3>1, <3>2, <3>3 DEF DealsTyped
  <2> QED
    BY <1>6, <2>1, <2>2 DEF DealsAround
<1> QED
  BY <1>1, <1>3, <1>4, <1>5, <1>6, PartOnly, AcceptingAreCalls DEF DealsNext

\* Sign-ins: there are never more families than keys.
KeysTyped ==
    /\ Len(key) <= MaxKeys
    /\ \A k \in Keys : key[k].family \in 1 .. Len(key)
    /\ recent \subseteq Keys /\ quarrels \subseteq Keys

LEMMA KeysTypes ==
  ASSUME SignInInv, admitted \in BOOLEAN, KeysTyped
  PROVE  SignInsTypeOK
<1>1. Keys = 1 .. Len(key) /\ Len(key) \in Nat /\ MaxKeys \in Nat
  BY KeyTypes, SignInsAssumption DEF SignInInv
<1>2. ASSUME NEW k \in Keys
      PROVE  key[k] \in [family : 1..MaxKeys, consumed : BOOLEAN, revoked : BOOLEAN,
                        kept : BOOLEAN, parent : 0..MaxKeys, grace : BOOLEAN]
  <2>1. key[k] \in KeyRow /\ key[k].family \in 1 .. Len(key) /\ key[k].parent < k
    BY KeyTypes DEF SignInInv, KeyParents, KeysTyped
  <2>2. key[k].family \in 1 .. MaxKeys /\ key[k].parent \in 0 .. MaxKeys
    BY <1>1, <2>1 DEF KeyRow, KeysTyped
  <2> QED
    BY <2>1, <2>2 DEF KeyRow
<1> QED
  BY <1>2 DEF SignInsTypeOK, KeysTyped

LEMMA KeysTypesBegin ==
  ASSUME Init
  PROVE  KeysTyped
<1>1. key = <<Key(1, 0, FALSE)>> /\ recent = {} /\ quarrels = {}
  BY DEF Init, SignInsInit
<1>2. Len(key) = 1 /\ key[1].family = 1 /\ \A k \in Keys : k = 1
  BY <1>1 DEF Keys, Key
<1>3. 1 \in 1 .. MaxKeys /\ Len(key) <= MaxKeys
  BY <1>2, SignInsAssumption
<1>4. \A k \in Keys : key[k].family \in 1 .. Len(key)
  BY <1>2
<1>5. recent \subseteq Keys /\ quarrels \subseteq Keys
  BY <1>1
<1> HIDE DEF Keys
<1> QED
  BY <1>3, <1>4, <1>5 DEF KeysTyped

LEMMA FewFamilies ==
  ASSUME KeyRows
  PROVE  NewFamily \in 1 .. Len(key) + 1
<1> DEFINE f == [k \in Keys |-> key[k].family]
           T == {key[k].family : k \in Keys}
<1>1. Len(key) \in Nat /\ IsFiniteSet(Keys) /\ Cardinality(Keys) = Len(key)
  BY KeyTypes, FS_Interval
<1>2. f \in Surjection(Keys, T)
  BY DEF Surjection
<1>3. IsFiniteSet(T) /\ Cardinality(T) <= Len(key)
  <2> HIDE DEF f, T
  <2> QED
    BY <1>1, <1>2, FS_Surjection
<1>4. Cardinality(T) \in Nat
  <2> HIDE DEF T
  <2> QED
    BY <1>3, FS_CardinalityType
<1> QED
  BY <1>1, <1>3, <1>4 DEF NewFamily, Families

\* Rows are changed and none is added.
LEMMA SameFamilies ==
  ASSUME KeyRows, KeysTyped, Len(key') = Len(key), DOMAIN key' = DOMAIN key,
         \A k \in Keys : key'[k].family = key[k].family,
         recent' \subseteq Keys, quarrels' \subseteq Keys
  PROVE  KeysTyped'
  BY DEF KeysTyped, Keys

LEMMA RevokedFamilies ==
  ASSUME KeyRows, KeysTyped, NEW S, key' = Revoked(S),
         recent' \subseteq Keys, quarrels' \subseteq Keys
  PROVE  KeysTyped'
<1>1. key' = [k \in Keys |-> IF k \in S THEN [key[k] EXCEPT !.revoked = TRUE] ELSE key[k]]
  BY DEF Revoked
<1>2. \A k \in Keys : key'[k].family = key[k].family
  BY <1>1, KeyTypes DEF KeyRow
<1>3. Len(key') = Len(key)
  BY RevokedMarks DEF KeysMarked
<1>4. DOMAIN key' = DOMAIN key
  BY <1>1 DEF Keys
<1> QED
  BY <1>2, <1>3, <1>4, SameFamilies

LEMMA AddedFamilies ==
  ASSUME KeyRows, KeysTyped, NEW f \in 1 .. Len(key) + 1, NEW p, NEW g, Len(key) < MaxKeys,
         key' = Append(key, Key(f, p, g)), UNCHANGED <<recent, quarrels>>
  PROVE  KeysTyped'
<1>1. PICK n \in Nat : n = Len(key) /\ Keys = 1 .. n
  BY KeyTypes
<1>2. PICK row : row = Key(f, p, g)
  OBVIOUS
<1>3. row.family = f
  BY <1>2 DEF Key
<1>4. /\ Len(key') = n + 1 /\ DOMAIN key' = 1 .. n + 1 /\ key'[n + 1] = row
      /\ \A k \in 1 .. n : key'[k] = key[k]
  BY <1>1, <1>2 DEF KeyRows
<1>5. \A k \in 1 .. n : key'[k].family \in 1 .. n + 1
  BY <1>1, <1>4 DEF KeysTyped
<1>6. \A k \in 1 .. n + 1 : key'[k].family \in 1 .. n + 1
  BY <1>1, <1>3, <1>4, <1>5
<1>7. n + 1 <= MaxKeys
  BY <1>1, SignInsAssumption
<1> QED
  BY <1>1, <1>4, <1>6, <1>7 DEF KeysTyped, Keys

LEMMA KeysTypeStep ==
  ASSUME part = "SIGNINS", SignInsIInv, KeysTyped, [Next]_vars
  PROVE  KeysTyped'
<1>1. SignInInv /\ KeyRows
  BY DEF SignInsIInv, SignInInv
<1>2. /\ recent \subseteq Keys /\ quarrels \subseteq Keys /\ Unrevoked \subseteq Keys
  BY DEF KeysTyped, Unrevoked
<1>3. CASE UNCHANGED signins
  BY <1>3 DEF signins, KeysTyped, Keys
<1>4. ASSUME NEW c \in Calls, KeyRequests(c)
      PROVE  KeysTyped'
  <2>1. CASE login(c)
    BY <1>1, <2>1, FewFamilies, AddedFamilies DEF login, PostLogin, Standing
  <2>2. CASE changePassword(c)
    BY <1>1, <1>2, <2>2, RevokedFamilies DEF changePassword
  <2>3. ASSUME NEW k \in Keys, logout(c, k)
        PROVE  KeysTyped'
    BY <1>1, <1>2, <2>3, RevokedFamilies DEF logout
  <2>4. ASSUME EndSignIns(c)
        PROVE  KeysTyped'
    BY <1>1, <1>2, <2>4, RevokedFamilies DEF EndSignIns
  <2> QED
    BY <1>3, <1>4, <2>1, <2>2, <2>3, <2>4
       DEF KeyRequests, resetPassword, deleteOverride, putOverride, setStatus, signOutOthers, refresh
<1>5. ASSUME NEW c \in Calls, KeyCommits(c)
      PROVE  KeysTyped'
  <2>1. call[c].op # "IDLE"
    BY <1>5 DEF KeyCommits, signInAgain, signOutOthersTx, consume, look, refuse, revokeFamily,
                nextKey, Answering
  <2>2. PICK k \in Keys : call[c].key = k
    BY <1>1, <2>1 DEF SignInInv, KeyJobs, Idle
  <2>3. CASE signInAgain(c)
    BY <1>1, <2>3, FewFamilies, AddedFamilies DEF signInAgain, Standing
  <2>4. CASE signOutOthersTx(c)
    <3>1. PICK others \in SUBSET Keys :
            key' = Revoked(others) /\ recent' = recent \cup others /\ quarrels' = quarrels
      BY <1>2, <2>4 DEF signOutOthersTx
    <3> QED
      BY <1>1, <1>2, <3>1, RevokedFamilies
  <2>5. CASE consume(c)
    <3>1. UNCHANGED quarrels
      BY <2>5 DEF consume
    <3>2. CASE UNCHANGED <<key, recent>>
      BY <1>3, <3>1, <3>2 DEF KeysTyped, Keys
    <3>3. CASE key' = [key EXCEPT ![k].consumed = TRUE] /\ recent' = recent \cup {k}
      <4>1. /\ Len(key') = Len(key) /\ DOMAIN key' = DOMAIN key
            /\ \A j \in Keys : key'[j].family = key[j].family
        BY <1>1, <3>3, KeyTypes DEF KeyRows, Keys, KeyRow
      <4> QED
        BY <1>1, <1>2, <3>1, <3>3, <4>1, SameFamilies
    <3> QED
      BY <2>2, <2>5, <3>2, <3>3 DEF consume
  <2>6. CASE revokeFamily(c)
    <3>1. PICK family \in SUBSET Keys : key' = Revoked(family) /\ recent' = recent \cup family
      BY <2>6 DEF revokeFamily
    <3>2. quarrels' = quarrels \/ quarrels' = quarrels \cup {k}
      BY <2>2, <2>6 DEF revokeFamily
    <3> QED
      BY <1>1, <1>2, <3>1, <3>2, RevokedFamilies
  <2>7. CASE nextKey(c)
    <3>1. PICK g : key' = Append(key, Key(key[k].family, k, g))
      BY <2>2, <2>7 DEF nextKey
    <3>2. Len(key) < MaxKeys /\ UNCHANGED <<recent, quarrels>>
      BY <2>7 DEF nextKey, Standing
    <3>3. key[k].family \in 1 .. Len(key) + 1
      BY <1>1, KeyTypes DEF KeysTyped
    <3> QED
      BY <1>1, <3>1, <3>2, <3>3, AddedFamilies
  <2> QED
    BY <1>3, <1>5, <2>3, <2>4, <2>5, <2>6, <2>7 DEF KeyCommits, look, refuse
<1>6. ASSUME KeysAround
      PROVE  KeysTyped'
  <2>1. CASE halfMinute
    BY <2>1 DEF halfMinute, KeysTyped, Keys
  <2>2. CASE expiredSessionCleanupJob
    <3>1. PICK old : key' = [k \in Keys |-> IF k \in old THEN [key[k] EXCEPT !.kept = FALSE] ELSE key[k]]
      BY <2>2 DEF expiredSessionCleanupJob
    <3>2. \A k \in Keys : key'[k].family = key[k].family
      BY <1>1, <3>1, KeyTypes DEF KeyRow
    <3>3. DOMAIN key' = DOMAIN key /\ Len(key') = Len(key)
      BY <1>1, <3>1, KeyTypes DEF Keys
    <3> QED
      BY <1>1, <1>2, <2>2, <3>2, <3>3, SameFamilies DEF expiredSessionCleanupJob
  <2> QED
    BY <1>6, <2>1, <2>2 DEF KeysAround
<1> QED
  BY <1>3, <1>4, <1>5, <1>6, KeyPartOnly, AcceptingAreCalls DEF KeyStep

\* Master data: a slice creates no more rows than it has numbers.
MasterTyped ==
    /\ \A b \in Batches :
         /\ batch[b].received \in Nat /\ batch[b].added \in Nat /\ batch[b].failed \in Nat
         /\ batch[b].duplicates \in Nat /\ batch[b].skipped \in Nat
    /\ \A s \in Servers :
         server[s].st = "INSERTED" =>
           server[s].created \subseteq ToSet(File[server[s].b][server[s].slice]) \ {Bad}
    /\ nextLead <= MaxLeads + 1

LEMMA MasterTypes ==
  ASSUME MasterInv, MasterTyped
  PROVE  MasterTypeOK
<1> USE DEF MasterInv, MasterSound
<1>1. MaxLeads \in Nat /\ nextLead \in Nat \ {0} /\ nextLead <= MaxLeads + 1
  BY MasterAssumption DEF MasterTyped, MasterRows
<1>2. ASSUME NEW b \in Batches
      PROVE  batch[b] \in [received : Nat, added : Nat, duplicates : Nat, failed : Nat,
                           assigned : Int, skipped : Nat, done : BOOLEAN]
  <2>1. batch[b] \in BatchRow
    BY DEF MasterRows
  <2> QED
    BY <2>1 DEF BatchRow, MasterTyped
<1>3. ASSUME NEW p \in Phones
      PROVE  crm[p].id \in 0 .. MaxLeads /\ master[p].lead \in 0 .. MaxLeads
  <2>1. crm[p] \in CrmRow /\ master[p] \in MasterRow
    BY DEF MasterRows
  <2>2. crm[p].id < nextLead /\ master[p].lead < nextLead
    BY DEF Numbered
  <2> QED
    BY <1>1, <2>1, <2>2 DEF CrmRow, MasterRow
<1>4. batch \in [Batches -> [received : Nat, added : Nat, duplicates : Nat, failed : Nat,
                             assigned : Int, skipped : Nat, done : BOOLEAN]]
  BY <1>2 DEF MasterRows
<1>5. master \in [Phones -> [batch : Batches \cup {Nil}, lead : 0 .. MaxLeads,
                             status : {"NONE", "NEW", "ASSIGNED", "ALREADY_LEAD", "DO_NOT_CALL"}]]
  BY <1>3 DEF MasterRows, MasterRow, MasterStatus
<1>6. crm \in [Phones -> [id : 0 .. MaxLeads, owner : Telecallers \cup {Nil}, daily : BOOLEAN,
                          called : BOOLEAN, doNotCall : BOOLEAN]]
  BY <1>3 DEF MasterRows, CrmRow
<1>7. taking \in [Servers -> [st : {"IDLE", "READ", "SEEN"}, ids : SUBSET (1 .. MaxLeads),
                              rows : SUBSET Phones]]
  <2>1. ASSUME NEW s \in Servers
        PROVE  taking[s].ids \in SUBSET (1 .. MaxLeads)
    <3> SUFFICES ASSUME NEW id \in taking[s].ids PROVE id \in 1 .. MaxLeads
      OBVIOUS
    <3>1. id \in Nat \ {0} /\ id < nextLead
      BY DEF Takings, TakeJob
    <3> QED
      BY <1>1, <3>1
  <2> QED
    BY <2>1 DEF Takings, TakeJob
<1>8. nextLead \in 1 .. MaxLeads + 1
  BY <1>1
<1> QED
  BY <1>4, <1>5, <1>6, <1>7, <1>8 DEF MasterTypeOK

LEMMA MasterTypesBegin ==
  ASSUME MasterInit
  PROVE  MasterTyped
<1>1. \A b \in Batches : batch[b] = NoRows
  BY DEF MasterInit
<1>2. \A s \in Servers : server[s].st = "IDLE"
  BY DEF MasterInit, Resting
<1>3. nextLead = 1 /\ MaxLeads \in Nat
  BY MasterAssumption DEF MasterInit
<1>4. nextLead <= MaxLeads + 1
  BY <1>3
<1>5. \A b \in Batches :
         /\ batch[b].received = 0 /\ batch[b].added = 0 /\ batch[b].failed = 0
         /\ batch[b].duplicates = 0 /\ batch[b].skipped = 0
  BY <1>1 DEF NoRows
<1> QED
  BY <1>2, <1>4, <1>5 DEF MasterTyped

\* Of a slice's rows some are refused, and each number created is in one of the others.
LEMMA NumbersInSlice ==
  ASSUME NEW rows \in Seq(Phones \cup {Bad}), NEW created \in SUBSET (ToSet(rows) \ {Bad})
  PROVE  Cardinality({i \in DOMAIN rows : rows[i] = Bad}) + Cardinality(created) <= Len(rows)
<1> DEFINE all == 1 .. Len(rows)
           refused == {i \in all : rows[i] = Bad}
           good == {i \in all : rows[i] \in created}
           f == [i \in good |-> rows[i]]
<1>1. Len(rows) \in Nat /\ DOMAIN rows = all
  OBVIOUS
<1>2. IsFiniteSet(all) /\ Cardinality(all) = Len(rows)
  BY <1>1, FS_Interval
<1>3. refused \subseteq all /\ good \subseteq all /\ refused \cap good = {}
  OBVIOUS
<1>4. IsFiniteSet(refused) /\ IsFiniteSet(good) /\ IsFiniteSet(refused \cup good)
  BY <1>2, <1>3, FS_Subset
<1>5. Cardinality(refused \cup good) = Cardinality(refused) + Cardinality(good)
  BY <1>3, <1>4, SizeOfBoth
<1>6. refused \cup good \subseteq all
  OBVIOUS
<1>7. Cardinality(refused \cup good) <= Len(rows)
  BY <1>2, <1>6, FS_Subset
<1>8. \A p \in created : \E i \in good : f[i] = p
  BY <1>1 DEF ToSet
<1>9. f \in Surjection(good, created)
  <2>1. f \in [good -> created]
    OBVIOUS
  <2> QED
    BY <1>8, <2>1 DEF Surjection
<1>10. Cardinality(created) <= Cardinality(good)
  BY <1>4, <1>9, FS_Surjection
<1>11. Cardinality(refused) \in Nat /\ Cardinality(good) \in Nat /\ Cardinality(created) \in Nat
  BY <1>4, <1>9, FS_Surjection, FS_CardinalityType
<1>12. refused = {i \in DOMAIN rows : rows[i] = Bad}
  BY <1>1
<1> HIDE DEF refused, good, all, f
<1> QED
  BY <1>1, <1>5, <1>7, <1>10, <1>11, <1>12

\* The first-line steps of an upload.
LEMMA InsertTypes ==
  ASSUME MasterInv, MasterTyped, NEW s \in Servers, addRowsInsert(s)
  PROVE  MasterTyped'
<1> USE DEF MasterInv, MasterSound
<1>1. PICK b \in Batches, n \in Nat :
        /\ server[s].b = b /\ server[s].slice = n /\ server[s].st = "READ"
        /\ server[s] \in SliceJob
  BY DEF addRowsInsert, Slices, SliceJob
<1>2. PICK fresh : fresh = {p \in ToSet(File[b][n]) \ {Bad} : master[p].status = "NONE"}
  OBVIOUS
<1>3. /\ master' = [p \in Phones |-> IF p \in fresh THEN [batch |-> b, status |-> "NEW", lead |-> 0]
                                     ELSE master[p]]
      /\ server' = [server EXCEPT ![s].st = "INSERTED", ![s].created = fresh]
      /\ UNCHANGED <<batch, nextLead>>
  BY <1>1, <1>2 DEF addRowsInsert
<1>4. /\ server'[s].b = b /\ server'[s].slice = n /\ server'[s].created = fresh
      /\ \A t \in Servers : t # s => server'[t] = server[t]
  BY <1>1, <1>3 DEF Slices, SliceJob
<1>5. fresh \subseteq ToSet(File[b][n]) \ {Bad}
  BY <1>2
<1>6. \A t \in Servers :
         server'[t].st = "INSERTED" =>
           server'[t].created \subseteq ToSet(File[server'[t].b][server'[t].slice]) \ {Bad}
  BY <1>4, <1>5 DEF MasterTyped
<1> QED
  BY <1>3, <1>6 DEF MasterTyped

LEMMA CountTypes ==
  ASSUME MasterInv, MasterTyped, NEW s \in Servers, addRowsCount(s)
  PROVE  MasterTyped'
<1> USE DEF MasterInv, MasterSound
<1>1. PICK b \in Batches : server[s].b = b
  BY DEF addRowsCount, Slices
<1>2. PICK n \in 1 .. Len(File[b]) : server[s].b = b /\ server[s].slice = n
  BY <1>1 DEF addRowsCount, Slices
<1>3. PICK rows \in Seq(Phones \cup {Bad}) : rows = File[b][n]
  BY SlicesFinite
<1>4. PICK created \in SUBSET (ToSet(rows) \ {Bad}) : created = server[s].created
  BY <1>2, <1>3 DEF MasterTyped, addRowsCount
<1>5. PICK failed : failed = Cardinality({i \in DOMAIN rows : rows[i] = Bad})
  OBVIOUS
<1>6. PICK added : added = Cardinality(created)
  OBVIOUS
<1>7. PICK len : len = Len(rows)
  OBVIOUS
<1>8. failed \in Nat /\ added \in Nat /\ len \in Nat /\ failed + added <= len
  <2>1. failed \in Nat /\ len \in Nat
    BY <1>3, <1>5, <1>7, SlicesFinite
  <2>2. created \in SUBSET Phones
    BY <1>4 DEF Slices, SliceJob
  <2>3. added \in Nat
    BY <1>6, <2>2, PhonesFinite
  <2>4. failed + added <= len
    BY <1>3, <1>4, <1>5, <1>6, <1>7, NumbersInSlice
  <2> QED
    BY <2>1, <2>3, <2>4
<1>9. PICK done : done = (batch[b].done \/ n = Len(File[b]))
  OBVIOUS
<1>10. batch' = [batch EXCEPT ![b] =
                   [batch[b] EXCEPT !.received = @ + len, !.added = @ + added, !.failed = @ + failed,
                                    !.duplicates = @ + (len - failed - added), !.done = done]]
  BY <1>2, <1>3, <1>4, <1>5, <1>6, <1>7, <1>9 DEF addRowsCount, Counted
<1>11. batch[b] \in BatchRow
  BY DEF MasterRows
<1>12. batch'[b] = [received |-> batch[b].received + len, added |-> batch[b].added + added,
                    duplicates |-> batch[b].duplicates + (len - failed - added),
                    failed |-> batch[b].failed + failed, assigned |-> batch[b].assigned,
                    skipped |-> batch[b].skipped, done |-> done]
  BY <1>10, <1>11 DEF MasterRows, BatchRow
<1>13. \A c \in Batches : c # b => batch'[c] = batch[c]
  BY <1>10 DEF MasterRows
<1>14. /\ UNCHANGED <<master, nextLead>>
       /\ server' = [server EXCEPT ![s] = Resting]
  BY DEF addRowsCount
<1>15. /\ batch'[b].received \in Nat /\ batch'[b].added \in Nat /\ batch'[b].failed \in Nat
       /\ batch'[b].duplicates \in Nat /\ batch'[b].skipped \in Nat
  <2>1. /\ batch[b].received \in Nat /\ batch[b].added \in Nat /\ batch[b].failed \in Nat
        /\ batch[b].duplicates \in Nat /\ batch[b].skipped \in Nat
    BY DEF MasterTyped
  <2>2. /\ batch'[b].received = batch[b].received + len /\ batch'[b].added = batch[b].added + added
        /\ batch'[b].failed = batch[b].failed + failed
        /\ batch'[b].duplicates = batch[b].duplicates + (len - failed - added)
        /\ batch'[b].skipped = batch[b].skipped
    BY <1>12
  <2>3. PICK more \in Nat : more = len - failed - added
    BY <1>8
  <2>4. batch'[b].duplicates \in Nat
    BY <2>1, <2>2, <2>3
  <2>5. \A m, n1 \in Nat : m + n1 \in Nat
    OBVIOUS
  <2>6. batch'[b].received \in Nat
    BY <1>8, <2>1, <2>2, <2>5
  <2>7. batch'[b].added \in Nat
    BY <1>8, <2>1, <2>2, <2>5
  <2>8. batch'[b].failed \in Nat
    BY <1>8, <2>1, <2>2, <2>5
  <2> QED
    BY <2>1, <2>2, <2>4, <2>6, <2>7, <2>8
<1>16. \A t \in Servers :
         server'[t].st = "INSERTED" =>
           server'[t].created \subseteq ToSet(File[server'[t].b][server'[t].slice]) \ {Bad}
  <2>1. server'[s].st = "IDLE" /\ \A t \in Servers : t # s => server'[t] = server[t]
    BY <1>14 DEF Slices, Resting
  <2> QED
    BY <2>1 DEF MasterTyped
<1> QED
  BY <1>13, <1>14, <1>15, <1>16 DEF MasterTyped

\* An upload's other steps, and what changes no number and no counter.
Quiet ==
    /\ batch' = batch /\ master' = master
    /\ \/ nextLead' = nextLead
       \/ nextLead <= MaxLeads /\ nextLead' = nextLead + 1
    /\ \A s \in Servers :
         server'[s].st = "INSERTED" => /\ server[s].st = "INSERTED" /\ server'[s].b = server[s].b
                                       /\ server'[s].slice = server[s].slice
                                       /\ server'[s].created = server[s].created

LEMMA QuietTypes ==
  ASSUME MasterInv, MasterTyped, Quiet
  PROVE  MasterTyped'
<1> USE DEF Quiet
<1>1. nextLead' <= MaxLeads + 1
  <2>1. nextLead \in Nat /\ MaxLeads \in Nat /\ nextLead <= MaxLeads + 1
    BY MasterAssumption DEF MasterTyped, MasterInv, MasterSound, MasterRows
  <2> QED
    BY <2>1
<1>2. \A t \in Servers :
         server'[t].st = "INSERTED" =>
           server'[t].created \subseteq ToSet(File[server'[t].b][server'[t].slice]) \ {Bad}
  BY DEF MasterTyped
<1> QED
  BY <1>1, <1>2 DEF MasterTyped

\* A number handed out or passed over adds one, one returned takes one from what was handed out.
LEMMA AssignTypes ==
  ASSUME MasterInv, MasterTyped, NEW p \in Phones, assignFresh(p) \/ assignStale(p)
  PROVE  MasterTyped'
<1> USE DEF MasterInv, MasterSound
<1>1. PICK b \in Batches : b = master[p].batch
  BY DEF assignFresh, assignStale, Numbered
<1>2. /\ \/ batch' = [batch EXCEPT ![b].assigned = @ + 1]
         \/ batch' = [batch EXCEPT ![b].skipped = @ + 1]
      /\ nextLead' = nextLead \/ (nextLead <= MaxLeads /\ nextLead' = nextLead + 1)
      /\ server' = server
  BY <1>1 DEF assignFresh, assignStale, Bump
<1>3. \A c \in Batches : c # b => batch'[c] = batch[c]
  BY <1>2 DEF MasterRows
<1>4. /\ batch'[b].received = batch[b].received /\ batch'[b].added = batch[b].added
      /\ batch'[b].failed = batch[b].failed /\ batch'[b].duplicates = batch[b].duplicates
      /\ batch'[b].skipped \in {batch[b].skipped, batch[b].skipped + 1}
  <2>1. batch[b] \in BatchRow
    BY DEF MasterRows
  <2>2. CASE batch' = [batch EXCEPT ![b].assigned = @ + 1]
    BY <2>1, <2>2 DEF MasterRows, BatchRow
  <2>3. CASE batch' = [batch EXCEPT ![b].skipped = @ + 1]
    BY <2>1, <2>3 DEF MasterRows, BatchRow
  <2> QED
    BY <1>2, <2>2, <2>3
<1>5. nextLead' <= MaxLeads + 1
  <2>1. nextLead \in Nat /\ MaxLeads \in Nat /\ nextLead <= MaxLeads + 1
    BY MasterAssumption DEF MasterTyped, MasterRows
  <2> QED
    BY <1>2, <2>1
<1>6. batch'[b].skipped \in Nat
  BY <1>4 DEF MasterTyped
<1> QED
  BY <1>2, <1>3, <1>4, <1>5, <1>6 DEF MasterTyped

LEMMA TakeBackTypes ==
  ASSUME MasterInv, MasterTyped, NEW s \in Servers, takeBackTx(s)
  PROVE  MasterTyped'
<1> USE DEF MasterInv, MasterSound
<1>1. PICK rows : rows = taking[s].rows
  OBVIOUS
<1>2. batch' = [b \in Batches |-> Returned(b, rows)] /\ UNCHANGED <<server, nextLead>>
  BY <1>1 DEF takeBackTx
<1>3. ASSUME NEW b \in Batches
      PROVE  /\ batch'[b].received = batch[b].received /\ batch'[b].added = batch[b].added
             /\ batch'[b].failed = batch[b].failed /\ batch'[b].duplicates = batch[b].duplicates
             /\ batch'[b].skipped = batch[b].skipped
  <2>1. PICK n : n = batch[b].assigned - Cardinality({p \in rows : master[p].batch = b})
    OBVIOUS
  <2>2. batch[b] \in BatchRow /\ batch'[b] = [batch[b] EXCEPT !.assigned = n]
    BY <1>2, <2>1 DEF MasterRows, Returned
  <2> QED
    BY <2>2 DEF BatchRow
<1> QED
  BY <1>2, <1>3 DEF MasterTyped

LEMMA MasterTypeStep ==
  ASSUME MasterInv, MasterTyped, MasterNext \/ UNCHANGED masterdata
  PROVE  MasterTyped'
<1>1. CASE UNCHANGED masterdata
  BY <1>1, QuietTypes DEF Quiet, masterdata
<1>2. ASSUME NEW s \in Servers, NEW b \in Batches, addRows(s, b)
      PROVE  MasterTyped'
  <2>1. PICK job : job = [st |-> "READ", b |-> b, slice |-> sent[b] + 1, created |-> {}, heard |-> TRUE]
    OBVIOUS
  <2>2. server' = [server EXCEPT ![s] = job] /\ UNCHANGED <<batch, master, nextLead>>
    BY <1>2, <2>1 DEF addRows
  <2>3. job.st = "READ"
    BY <2>1
  <2>4. server'[s] = job /\ \A t \in Servers : t # s => server'[t] = server[t]
    BY <2>2 DEF MasterInv, MasterSound, Slices
  <2> QED
    BY <2>2, <2>3, <2>4, QuietTypes DEF Quiet
<1>3. ASSUME NEW b \in Batches, Timeout(b)
      PROVE  MasterTyped'
  <2>1. /\ server' = [s \in Servers |-> IF server[s].b = b THEN [server[s] EXCEPT !.heard = FALSE]
                                        ELSE server[s]]
        /\ UNCHANGED <<batch, master, nextLead>>
    BY <1>3 DEF Timeout
  <2>2. \A s \in Servers : /\ server'[s].st = server[s].st /\ server'[s].b = server[s].b
                           /\ server'[s].slice = server[s].slice
                           /\ server'[s].created = server[s].created
    BY <2>1 DEF MasterInv, MasterSound, Slices, SliceJob
  <2> QED
    BY <2>1, <2>2, QuietTypes DEF Quiet
<1>4. ASSUME NEW p \in Phones, NEW dnc \in BOOLEAN, OtherLead(p, dnc)
      PROVE  MasterTyped'
  BY <1>4, QuietTypes DEF Quiet, OtherLead
<1>5. ASSUME NEW b \in Batches, addRowsResume(b)
      PROVE  MasterTyped'
  BY <1>5, QuietTypes DEF Quiet, addRowsResume
<1>6. ASSUME NEW p \in Phones, LogCall(p) \/ \E e \in Telecallers : Reassign(p, e)
      PROVE  MasterTyped'
  BY <1>6, QuietTypes DEF Quiet, LogCall, Reassign
<1>7. ASSUME NEW s \in Servers, takeBackReads(s) \/ \E e \in Telecallers : takeBack(s, e)
      PROVE  MasterTyped'
  BY <1>7, QuietTypes DEF Quiet, takeBack, takeBackReads
<1>8. ASSUME NEW e, NEW n, assignDaily(e, n)
      PROVE  MasterTyped'
  BY <1>8, QuietTypes DEF Quiet, assignDaily
<1>9. ASSUME assignEmpty
      PROVE  MasterTyped'
  BY <1>9, QuietTypes DEF Quiet, assignEmpty
<1>10. ASSUME NEW s \in Servers, Stops(s)
       PROVE  MasterTyped'
  <2>1. server' = [server EXCEPT ![s] = Resting] /\ UNCHANGED <<batch, master, nextLead>>
    BY <1>10 DEF Stops
  <2>2. server'[s].st = "IDLE" /\ \A t \in Servers : t # s => server'[t] = server[t]
    BY <2>1 DEF MasterInv, MasterSound, Slices, Resting
  <2> QED
    BY <2>1, <2>2, QuietTypes DEF Quiet
<1> QED
  BY <1>1, <1>2, <1>3, <1>4, <1>5, <1>6, <1>7, <1>8, <1>9, <1>10, InsertTypes, CountTypes,
     AssignTypes, TakeBackTypes DEF MasterNext

\* The part a behaviour is about keeps its own invariant and its types.
TypesInv ==
    /\ part \in Parts
    /\ MasterInv /\ MasterTyped
    /\ part = "DEALS" => DealsInv /\ DealsTyped
    /\ part = "EXPENSES" => ExpensesTyped
    /\ part = "COMPLAINTS" => ComplaintsInv /\ ComplaintsTypeOK
    /\ part = "TASKS" => TasksInv /\ TasksTyped
    /\ part = "PEOPLE" => PeopleInv /\ PeopleTypeOK
    /\ SignInsIInv /\ (part = "SIGNINS" => KeysTyped)

LEMMA TypesBegin ==
  ASSUME Init
  PROVE  TypesInv
<1>1. call = [c \in Calls |-> Idle]
  BY DEF Init, HandlersInit
<1>2. ExpensesTyped
  BY <1>1, ExpensesBegin
     DEF Init, ExpensesInit, ExpensesTyped, ExpenseJobs, ExpensesTypeOK, NoRefund, Refund
<1>3. ComplaintsTypeOK
  BY DEF Init, ComplaintsInit, ComplaintsTypeOK, NoComplaint
<1>4. TasksTyped
  BY <1>1 DEF Init, TasksInit, TasksTyped, TasksTypeOK, NoTask
<1>5. PeopleTypeOK
  BY PeopleBegin DEF Init, PeopleInit, PeopleTypeOK, PeopleInv, PeopleTyped
<1>6. MasterInv /\ MasterTyped
  BY MasterBegins, MasterTypesBegin DEF Init
<1>7. part \in Parts
  BY DEF Init
<1> QED
  BY <1>2, <1>3, <1>4, <1>5, <1>6, <1>7, ComplaintsBegin, TasksBegin, PeopleBegin, DealsBegin,
     DealsTypesBegin, KeyStarted, KeysTypesBegin DEF TypesInv

LEMMA TypesStep ==
  ASSUME TypesInv, [Next]_vars
  PROVE  TypesInv'
<1>1. part' = part
  BY PartOnly
<1>2. MasterNext \/ UNCHANGED masterdata
  BY DEF Next, vars, DealsNext, ExpensesNext, ComplaintsNext, TasksNext, PeopleNext, SignInsNext,
         MasterDataNext
<1>3. MasterInv' /\ MasterTyped'
  BY <1>2, MasterStep, MasterTypeStep DEF TypesInv
<1>4. part = "DEALS" => DealsInv' /\ DealsTyped'
  BY DealsStep, DealsTypeStep DEF TypesInv
<1>5. part = "EXPENSES" => ExpensesTyped'
  BY ExpensesTypeStep DEF TypesInv
<1>6. part = "COMPLAINTS" => ComplaintsInv' /\ ComplaintsTypeOK'
  BY ComplaintsStep, ComplaintsTypeStep DEF TypesInv
<1>7. part = "TASKS" => TasksInv' /\ TasksTyped'
  BY TasksStep, TasksTypeStep DEF TypesInv
<1>8. part = "PEOPLE" => PeopleInv' /\ PeopleTypeOK'
  BY PeopleStep, PeopleTypeStep DEF TypesInv
<1>9. SignInsIInv' /\ (part = "SIGNINS" => KeysTyped')
  BY KeysKept, KeysTypeStep DEF TypesInv
<1> QED
  BY <1>1, <1>3, <1>4, <1>5, <1>6, <1>7, <1>8, <1>9 DEF TypesInv

LEMMA TypesSound ==
  ASSUME TypesInv
  PROVE  TypeOK
<1>1. part = "DEALS" => DealsTypeOK
  BY DealsTypes DEF TypesInv
<1>2. part = "EXPENSES" => ExpensesTypeOK
  BY DEF TypesInv, ExpensesTyped
<1>3. part = "COMPLAINTS" => ComplaintsTypeOK
  BY DEF TypesInv
<1>4. part = "TASKS" => TasksTypeOK
  BY DEF TypesInv, TasksTyped
<1>5. part = "PEOPLE" => PeopleTypeOK
  BY DEF TypesInv
<1>6. part = "SIGNINS" => SignInsTypeOK
  BY KeysTypes DEF TypesInv, SignInsIInv
<1>7. part = "MASTER" => MasterTypeOK
  BY MasterTypes DEF TypesInv
<1>8. part \in Parts
  BY DEF TypesInv
<1> QED
  BY <1>1, <1>2, <1>3, <1>4, <1>5, <1>6, <1>7, <1>8 DEF TypeOK, Parts

\* Whatever overlaps and wherever a handler stops, the rows of the part a behaviour is about
\* keep their type: a status one of its workflow's, a decider one who may decide, a helper, an
\* agent or a colleague one of those, a key one of its owner's, and no counter of an upload
\* below zero but the one that two overlapping take-backs decrement twice.
THEOREM TypeCorrect == Spec => []TypeOK
<1> QED
  BY TypesBegin, TypesStep, TypesSound, PTL DEF Spec

=============================================================================
