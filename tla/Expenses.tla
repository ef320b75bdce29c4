------------------------------ MODULE Expenses ------------------------------
(***************************************************************************)
(* Expense refunds (expenseRefund.service.ts): an employee's claim is      *)
(* reviewed by an accountant, approved by the MD and marked as paid.  Each *)
(* decision is checked on the row as read and written by id.               *)
(*                                                                         *)
(* Abstracted: the purpose, the amount and the proof image, notes and      *)
(* notifications, the lists.                                               *)
(***************************************************************************)
EXTENDS Handlers

CONSTANTS
    Claimants,     \* whose claims these are
    Accountants,   \* FINANCE: expenses.review and expenses.mark_refunded
    Approvers,     \* MD: expenses.md_approve
    Refunds,
    Absent

VARIABLES
    refund,        \* ExpenseRefund rows
    trail          \* their audit rows: [on, action, who]

expenses == <<refund, trail>>

Refund(status, e) ==
    [status |-> status, by |-> e, accountant |-> Absent, md |-> Absent, payer |-> Absent]
NoRefund == Refund("ABSENT", Absent)
Deciders == Accountants \cup Approvers
DecisionActions ==
    {"ACCOUNTANT_APPROVE", "ACCOUNTANT_REJECT", "MD_APPROVE", "MD_REJECT", "MARK_REFUNDED"}

ExpensesTypeOK ==
    /\ refund \in [Refunds ->
         [status : {"ABSENT", "PENDING", "ACCOUNTANT_APPROVED", "REJECTED_BY_ACCOUNTANT",
                    "MD_APPROVED", "REJECTED_BY_MD", "REFUNDED"},
          by : Claimants \cup {Absent}, accountant : Accountants \cup {Absent},
          md : Approvers \cup {Absent}, payer : Accountants \cup {Absent}]]
    /\ trail \subseteq [on : Refunds, action : DecisionActions, who : Deciders]

ExpensesInit ==
    /\ refund = [r \in Refunds |-> NoRefund]
    /\ trail = {}

-----------------------------------------------------------------------------
(* workflows/expenseRefund.workflow.ts and policies/expenseRefund.policy.ts *)

validExpenseTransitions ==
    {<<"PENDING", "ACCOUNTANT_APPROVE">>, <<"PENDING", "ACCOUNTANT_REJECT">>,
     <<"ACCOUNTANT_APPROVED", "MD_APPROVE">>, <<"ACCOUNTANT_APPROVED", "MD_REJECT">>,
     <<"MD_APPROVED", "MARK_REFUNDED">>}

\* Nobody decides on a claim of their own.
canAccountantReview_Own(e, r) == e \in Accountants /\ refund[r].status = "PENDING"
canAccountantReview(e, r) == e \in Accountants /\ refund[r].by # e /\ refund[r].status = "PENDING"
canMdReview(e, r) == e \in Approvers /\ refund[r].by # e /\ refund[r].status = "ACCOUNTANT_APPROVED"
canMarkRefunded(e, r) == e \in Accountants /\ refund[r].by # e /\ refund[r].status = "MD_APPROVED"

(* The routes.                                                              *)
PostExpense(e) == e \in Claimants
PatchAccountantReview(e) == e \in Accountants
PatchMdReview(e) == e \in Approvers
PatchMarkRefunded(e) == e \in Accountants

-----------------------------------------------------------------------------
\* createRefund
createRefund(c, e, r) ==
    /\ PostExpense(e)
    /\ refund[r] = NoRefund
    /\ refund' = [refund EXCEPT ![r] = Refund("PENDING", e)]
    /\ Serve(c)
    /\ UNCHANGED trail

\* The read half of a decision.
Decide(c, e, r, action) ==
    /\ <<refund[r].status, action>> \in validExpenseTransitions
    /\ Begin(c, [op |-> "decide", on |-> r, who |-> e, action |-> action, then |-> <<>>])
    /\ UNCHANGED expenses

accountantReview(c, e, r) ==
    /\ PatchAccountantReview(e) /\ canAccountantReview(e, r)
    /\ \E action \in {"ACCOUNTANT_APPROVE", "ACCOUNTANT_REJECT"} : Decide(c, e, r, action)

mdReview(c, e, r) ==
    /\ PatchMdReview(e) /\ canMdReview(e, r)
    /\ \E action \in {"MD_APPROVE", "MD_REJECT"} : Decide(c, e, r, action)

markRefunded(c, e, r) ==
    /\ PatchMarkRefunded(e) /\ canMarkRefunded(e, r)
    /\ Decide(c, e, r, "MARK_REFUNDED")

Outcome(action) ==
    CASE action = "ACCOUNTANT_APPROVE" -> "ACCOUNTANT_APPROVED"
      [] action = "ACCOUNTANT_REJECT"  -> "REJECTED_BY_ACCOUNTANT"
      [] action = "MD_APPROVE"         -> "MD_APPROVED"
      [] action = "MD_REJECT"          -> "REJECTED_BY_MD"
      [] action = "MARK_REFUNDED"      -> "REFUNDED"

Ruled(row, action, e) ==
    [status     |-> Outcome(action), by |-> row.by,
     accountant |-> IF action \in {"ACCOUNTANT_APPROVE", "ACCOUNTANT_REJECT"} THEN e
                    ELSE row.accountant,
     md         |-> IF action \in {"MD_APPROVE", "MD_REJECT"} THEN e ELSE row.md,
     payer      |-> IF action = "MARK_REFUNDED" THEN e ELSE row.payer]

\* The row and its audit are written together.
decide(c) ==
    LET job == call[c] IN
    /\ job.op = "decide"
    /\ refund' = [refund EXCEPT ![job.on] = Ruled(refund[job.on], job.action, job.who)]
    /\ trail' = trail \cup {[on |-> job.on, action |-> job.action, who |-> job.who]}
    /\ Done(c)

ExpenseRequests(c) ==
    \E r \in Refunds :
        \/ \E e \in Claimants : createRefund(c, e, r)
        \/ \E e \in Accountants : accountantReview(c, e, r) \/ markRefunded(c, e, r)
        \/ \E e \in Approvers : mdReview(c, e, r)

-----------------------------------------------------------------------------
(* Properties.                                                              *)

\* A refund is paid out only after an accountant and the MD each approved it, and
\* neither of them, nor the one who paid, is the claimant -- whichever decisions
\* overlapped on the way.
PaidAfterBothApprovals ==
    \A r \in Refunds :
        refund[r].status = "REFUNDED" =>
            /\ refund[r].payer # refund[r].by
            /\ \A needed \in {"ACCOUNTANT_APPROVE", "MD_APPROVE"} :
                 \E row \in trail : row.on = r /\ row.action = needed /\ row.who # refund[r].by

\* What one decision settled, a decision taken meanwhile does not undo.
RefusedOrPaid ==
    \A r \in Refunds :
        ~(/\ refund[r].status \in {"REJECTED_BY_ACCOUNTANT", "REJECTED_BY_MD"}
          /\ refund[r].payer # Absent)
=============================================================================
