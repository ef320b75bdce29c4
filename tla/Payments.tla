------------------------------ MODULE Payments ------------------------------
(***************************************************************************)
(* The money of one booking: the payments recorded on it, the instalments  *)
(* they pay, the balance that direct payments reduce, the outbox events    *)
(* that tell the customer portal, and the cancellation that turns          *)
(* collected money into money owed back.  src/services/payment.service.ts  *)
(* and the payment part of cancelBooking / mdRejectBooking in              *)
(* src/services/booking.service.ts.  Bookings share none of these rows.    *)
(*                                                                         *)
(* As in Bookings, a handler acts on rows it read before its transaction,  *)
(* a transaction's plain SELECTs read the snapshot of its first statement, *)
(* and UPDATE ... WHERE id writes whatever the row holds by then.          *)
(*                                                                         *)
(* Abstracted: amounts are whole numbers; instalments exist from the start *)
(* (createInstallment only inserts them); references, notes and audit rows *)
(* are left out.                                                           *)
(***************************************************************************)
EXTENDS Integers, FiniteSetsExt

CONSTANTS
    PaymentIds,  \* ids of Payment rows that may be created
    Insts,       \* the booking's instalments
    Expected,    \* Expected[i]: what instalment i asks for
    Amounts,     \* amounts a payment may have
    Price,       \* the balance when the booking is made
    Targets,     \* bound: what payments are recorded for (None: the booking itself)
    Procs,       \* requests that may be in flight at once
    None         \* SQL NULL

ASSUME PaymentsAssumption ==
    /\ Amounts \subseteq Nat \ {0}
    /\ Expected \in [Insts -> Nat \ {0}]
    /\ Price \in Nat
    /\ Targets \subseteq Insts \cup {None}
    /\ None \notin PaymentIds \cup Insts
    /\ PaymentIds \cap Insts = {}
    /\ IsFiniteSet(PaymentIds)

VARIABLES
    payment,   \* Payment rows
    inst,      \* Installment rows: received_amount and status
    balance,   \* Booking.balance_amount
    cancelled, \* the booking is cancelled
    told,      \* told[x]: the status in the last outbox event about payment or instalment x
    successes, \* successes[x]: number of SUCCESS events written for payment x
    proc,      \* requests in flight
    overlapped, \* two requests have been in flight at the same time
    undercut   \* instalments one of whose refunds overlapped another verification on it

rows == <<payment, inst, balance, cancelled, told, successes>>
vars == <<rows, proc, overlapped, undercut>>

-----------------------------------------------------------------------------
PaymentStatus == {"ABSENT", "PENDING", "SUCCESS", "FAILED", "REFUNDED", "REFUND_DUE"}
InstStatus    == {"PENDING", "PARTIALLY_RECEIVED", "RECEIVED"}
Verdict       == {"SUCCESS", "FAILED", "REFUNDED"}

ASSUME NullAssumption == None \notin Verdict \cup InstStatus

PaymentRow == [status : PaymentStatus, amount : Nat, inst : Insts \cup {None}]
InstRow    == [received : Nat, status : InstStatus]

\* A request in flight and what it has read: the payment's status, the booking's
\* balance, the instalment, and the payments a cancellation will flag.
Request == [op : {"IDLE", "RECORD", "VERIFY", "CANCEL"}, st : {"READ", "CHECKED", "TX"},
            pay : PaymentIds \cup {None}, amount : Nat, inst : Insts \cup {None},
            to : Verdict, was : PaymentStatus, balance : Nat, seen : InstRow,
            due : SUBSET PaymentIds]

NewInst == [received |-> 0, status |-> "PENDING"]

Idle == [op |-> "IDLE", st |-> "READ", pay |-> None, amount |-> 0, inst |-> None,
         to |-> "SUCCESS", was |-> "ABSENT", balance |-> 0, seen |-> NewInst, due |-> {}]

TypeOK ==
    /\ payment \in [PaymentIds -> PaymentRow]
    /\ inst \in [Insts -> InstRow]
    /\ balance \in Nat
    /\ cancelled \in BOOLEAN
    /\ told \in [PaymentIds \cup Insts -> Verdict \cup InstStatus \cup {None}]
    /\ successes \in [PaymentIds -> Nat]
    /\ proc \in [Procs -> Request]
    /\ overlapped \in BOOLEAN
    /\ undercut \subseteq Insts

Init ==
    /\ payment = [x \in PaymentIds |-> [status |-> "ABSENT", amount |-> 0, inst |-> None]]
    /\ inst = [i \in Insts |-> NewInst]
    /\ balance = Price
    /\ cancelled = FALSE
    /\ told = [x \in PaymentIds \cup Insts |-> None]
    /\ successes = [x \in PaymentIds |-> 0]
    /\ proc = [p \in Procs |-> Idle]
    /\ overlapped = FALSE
    /\ undercut = {}

-----------------------------------------------------------------------------
\* Operators named X_Y are mutants of X: X with the plausible mistake Y.

Verifies(r, i) == r.op = "VERIFY" /\ r.inst = i

Refunds(r) == r.was = "SUCCESS" /\ r.to = "REFUNDED"

Undercuts(r, i) ==
    \E q \in Procs : Verifies(r, i) /\ Verifies(proc[q], i) /\ (Refunds(r) \/ Refunds(proc[q]))

Start(p, r) ==
    /\ proc[p] = Idle
    /\ proc' = [proc EXCEPT ![p] = r]
    /\ overlapped' = (overlapped \/ \E q \in Procs : proc[q] # Idle)
    /\ undercut' = undercut \cup {i \in Insts : Undercuts(r, i)}
    /\ UNCHANGED rows

Continue(p, r) ==
    /\ proc' = [proc EXCEPT ![p] = r]
    /\ UNCHANGED <<overlapped, undercut>>

Finish(p) == Continue(p, Idle)

AtLeastZero_Unclipped(n) == n

AtLeastZero(n) == IF n < 0 THEN 0 ELSE n

Remaining(i) == Expected[i] - inst[i].received

-----------------------------------------------------------------------------
(* recordPayment: checks on the rows as read, then an insert.  Amounts are  *)
(* bounded by the instalment's rest only; a direct payment has no bound.    *)

ReadForRecord(p, x, amount, i) ==
    /\ payment[x].status = "ABSENT"
    /\ i # None => amount <= Remaining(i)
    /\ ~cancelled
    /\ Start(p, [Idle EXCEPT !.op = "RECORD", !.pay = x, !.amount = amount, !.inst = i])

RecordPayment(p) ==
    /\ proc[p].op = "RECORD"
    /\ payment[proc[p].pay].status = "ABSENT"
    /\ payment' = [payment EXCEPT ![proc[p].pay] =
                     [status |-> "PENDING", amount |-> proc[p].amount, inst |-> proc[p].inst]]
    /\ Finish(p)
    /\ UNCHANGED <<inst, balance, cancelled, told, successes>>

-----------------------------------------------------------------------------
(* verifyPayment.                                                           *)

\* The changes Finance may make.
Allowed_FromRefunded(was, to) ==
    to \in CASE was = "PENDING" -> {"SUCCESS", "FAILED"}
             [] was \in {"FAILED", "REFUNDED"} -> {"SUCCESS"}
             [] was = "SUCCESS" -> {"REFUNDED"}
             [] was = "REFUND_DUE" -> {"REFUNDED", "FAILED"}
             [] OTHER -> {}

Allowed(was, to) ==
    to \in CASE was = "PENDING" -> {"SUCCESS", "FAILED"}
             [] was = "FAILED" -> {"SUCCESS"}
             [] was = "SUCCESS" -> {"REFUNDED"}
             [] was = "REFUND_DUE" -> {"REFUNDED", "FAILED"}
             [] OTHER -> {}

\* The payment and, in a second query, its booking are read before the check.
ReadPayment(p, x, to) ==
    /\ payment[x].status # "ABSENT"
    /\ Start(p, [Idle EXCEPT !.op = "VERIFY", !.pay = x, !.to = to,
                             !.amount = payment[x].amount, !.inst = payment[x].inst,
                             !.was = payment[x].status])

ReadBooking(p) ==
    /\ proc[p].op = "VERIFY" /\ proc[p].st = "READ"
    /\ IF Allowed(proc[p].was, proc[p].to)
       THEN Continue(p, [proc[p] EXCEPT !.st = "CHECKED",
                                        !.balance = IF proc[p].inst = None THEN balance ELSE @])
       ELSE Finish(p)
    /\ UNCHANGED rows

BeginVerify(p) ==
    /\ proc[p].op = "VERIFY" /\ proc[p].st = "CHECKED"
    /\ Continue(p, [proc[p] EXCEPT !.st = "TX",
                                   !.seen = IF proc[p].inst # None THEN inst[proc[p].inst] ELSE @])
    /\ UNCHANGED rows

InstStatusOf(i, received) ==
    IF received >= Expected[i] THEN "RECEIVED"
    ELSE IF received > 0 THEN "PARTIALLY_RECEIVED" ELSE "PENDING"

\* Collecting on an instalment: the rest is checked on the snapshot, and the
\* update counts only if received_amount is still what the snapshot said.
MayCollect_NoCompare(r) == r.amount <= Expected[r.inst] - r.seen.received

MayCollect_NoLimit(r) == inst[r.inst].received = r.seen.received

MayCollect(r) ==
    /\ r.amount <= Expected[r.inst] - r.seen.received
    /\ inst[r.inst].received = r.seen.received

Collect(r) ==
    LET received == r.seen.received + r.amount
        status   == InstStatusOf(r.inst, received)
    IN /\ MayCollect(r)
       /\ inst' = [inst EXCEPT ![r.inst] = [received |-> received, status |-> status]]
       /\ told' = [told EXCEPT ![r.pay] = "SUCCESS",
                               ![r.inst] = IF status = r.seen.status THEN @ ELSE status]
       /\ UNCHANGED balance

\* Refunding a collected instalment payment writes back the snapshot's amount,
\* and tells the portal about the payment only.
GiveBack(r) ==
    LET received == AtLeastZero(r.seen.received - r.amount)
    IN /\ inst' = [inst EXCEPT ![r.inst] =
                     [received |-> received,
                      status |-> IF received <= 0 THEN "PENDING" ELSE "PARTIALLY_RECEIVED"]]
       /\ told' = [told EXCEPT ![r.pay] = "REFUNDED"]
       /\ UNCHANGED balance

\* A payment without an instalment moves the booking's balance, from the value
\* read before the transaction.
ReducedBalance(r) == AtLeastZero(r.balance - r.amount)

RestoredBalance_Kept(r) == r.balance

RestoredBalance(r) == r.balance + r.amount

MoveBalance(r) ==
    /\ balance' = IF r.to = "SUCCESS" THEN ReducedBalance(r) ELSE RestoredBalance(r)
    /\ told' = [told EXCEPT ![r.pay] = r.to]
    /\ UNCHANGED inst

\* Marking a payment FAILED, or one whose refund is due REFUNDED, moves no money
\* between the rows; only the refund is told to the portal.
NoMoneyMoves_Untold(r) == UNCHANGED <<inst, balance, told>>

NoMoneyMoves(r) ==
    /\ told' = IF r.to = "REFUNDED" THEN [told EXCEPT ![r.pay] = "REFUNDED"] ELSE told
    /\ UNCHANGED <<inst, balance>>

CommitVerify(p) ==
    LET r == proc[p]
        refund == Refunds(r)
    IN /\ r.op = "VERIFY" /\ r.st = "TX"
       /\ \/ r.to = "SUCCESS" /\ r.inst # None /\ Collect(r)
          \/ refund /\ r.inst # None /\ GiveBack(r)
          \/ (r.to = "SUCCESS" \/ refund) /\ r.inst = None /\ MoveBalance(r)
          \/ r.to # "SUCCESS" /\ ~refund /\ NoMoneyMoves(r)
       /\ successes' = [successes EXCEPT ![r.pay] = IF r.to = "SUCCESS" THEN @ + 1 ELSE @]
       /\ payment' = [payment EXCEPT ![r.pay].status = r.to]
       /\ Finish(p)
       /\ UNCHANGED cancelled

-----------------------------------------------------------------------------
(* cancelBooking and mdRejectBooking: everything collected or waiting to be *)
(* verified, as the transaction's snapshot shows it, becomes REFUND_DUE.    *)

Refundable_OnlyVerified == {"SUCCESS"}

Refundable == {"PENDING", "SUCCESS"}

ReadForCancel(p) ==
    /\ ~cancelled
    /\ Start(p, [Idle EXCEPT !.op = "CANCEL", !.st = "CHECKED"])

BeginCancel(p) ==
    /\ proc[p].op = "CANCEL" /\ proc[p].st = "CHECKED"
    /\ Continue(p, [proc[p] EXCEPT !.st = "TX",
                                   !.due = {x \in PaymentIds : payment[x].status \in Refundable}])
    /\ UNCHANGED rows

CommitCancel(p) ==
    /\ proc[p].op = "CANCEL" /\ proc[p].st = "TX"
    /\ cancelled' = TRUE
    /\ payment' = [x \in PaymentIds |->
                     IF x \in proc[p].due THEN [payment[x] EXCEPT !.status = "REFUND_DUE"]
                     ELSE payment[x]]
    /\ Finish(p)
    /\ UNCHANGED <<inst, balance, told, successes>>

\* Any refusal or error, and the death of the process, leaves the rows alone.
Fail(p) ==
    /\ proc[p].op # "IDLE"
    /\ Finish(p)
    /\ UNCHANGED rows

-----------------------------------------------------------------------------
Next ==
    \E p \in Procs :
        \/ \E x \in PaymentIds, a \in Amounts, i \in Targets : ReadForRecord(p, x, a, i)
        \/ \E x \in PaymentIds, to \in Verdict : ReadPayment(p, x, to)
        \/ ReadForCancel(p)
        \/ RecordPayment(p) \/ ReadBooking(p) \/ BeginVerify(p) \/ CommitVerify(p)
        \/ BeginCancel(p) \/ CommitCancel(p) \/ Fail(p)

Spec == Init /\ [][Next]_vars

-----------------------------------------------------------------------------
(* What must hold.  The first two hold however requests overlap, the others *)
(* as long as no two requests on the booking have overlapped.               *)

\* However verifications and refunds race, an instalment is never collected
\* beyond what it asks for, and its status says how much of it has arrived: the
\* compare in the update refuses a collection computed from a stale row.
InstalmentsSound ==
    \A i \in Insts :
        /\ inst[i].received <= Expected[i]
        /\ inst[i].status = InstStatusOf(i, inst[i].received)

Paid(S) == MapThenSumSet(LAMBDA x : payment[x].amount, S)

Collected(i) == {x \in PaymentIds : payment[x].status = "SUCCESS" /\ payment[x].inst = i}

\* No collection is lost: however payments of an instalment are verified at once, and
\* whatever is cancelled meanwhile, it has received at least what its SUCCESS payments
\* add up to.  The compare on received_amount in the update keeps one collection from
\* overwriting another.  A refund has no such compare, so one that overlapped another
\* verification on the instalment is excepted.
NoCollectionLost ==
    \A i \in Insts \ undercut : inst[i].received >= Paid(Collected(i))

\* The instalments and the balance are exactly what the SUCCESS payments of a
\* live booking make them, as long as no more than the price was paid directly.
LedgerExact ==
    ~cancelled /\ ~overlapped =>
        /\ \A i \in Insts :
             inst[i].received = Paid(Collected(i))
        /\ LET direct == {x \in PaymentIds : payment[x].inst = None}
           IN Paid(direct) <= Price =>
                balance = Price - Paid({x \in direct : payment[x].status = "SUCCESS"})

\* What the portal was told of a payment is what Finance decided: a collected
\* payment was last reported as SUCCESS, a refund is reported exactly when it was
\* made, and on a live booking each is reported once.  What it was told of an
\* instalment is its status as long as none of its payments was refunded.
OutcomeTold ==
    ~overlapped =>
        /\ \A x \in PaymentIds :
             /\ payment[x].status = "SUCCESS" => told[x] = "SUCCESS"
             /\ payment[x].status = "REFUNDED" <=> told[x] = "REFUNDED"
             /\ ~cancelled => successes[x] <= 1
        /\ \A i \in Insts :
             \/ told[i] = inst[i].status
             \/ told[i] = None /\ inst[i] = NewInst
             \/ \E x \in PaymentIds : payment[x].inst = i /\ payment[x].status = "REFUNDED"

\* Money that went back stays back: a refunded payment never changes again.
RefundedIsFinal ==
    [][~overlapped => \A x \in PaymentIds :
          payment[x].status = "REFUNDED" => payment'[x].status = "REFUNDED"]_vars

\* No payment of a cancelled booking waits to be verified: cancelling flags all
\* of it for Finance.
NothingPendingAfterCancel ==
    cancelled /\ ~overlapped => \A x \in PaymentIds : payment[x].status # "PENDING"

-----------------------------------------------------------------------------
(* What comments in the code state of the same steps.                       *)

\* "A duplicate verifyPayment call is blocked earlier (already-SUCCESS guard) so
\* no second event can be emitted for the same payment."
NoSecondEvent == \A x \in PaymentIds : successes[x] <= 1

\* "undo exactly what the SUCCESS step added (installment received amount, or the
\* booking balance)": no refund leaves the customer owing more than the price.
RefundUndoesExactly == balance <= Price

=============================================================================
