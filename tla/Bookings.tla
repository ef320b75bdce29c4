------------------------------ MODULE Bookings ------------------------------
(***************************************************************************)
(* Bookings of saleable items (a standalone Property or a ProjectUnit) and *)
(* the lock each booking takes on its item: src/services/booking.service.ts *)
(* and src/services/inventory/reference.ts, together with the job and the  *)
(* admin operations that write the same rows: the expiry sweep of          *)
(* src/jobs/tasks.ts, ProjectUnitService.changeStatus / updateUnit and     *)
(* PropertyService.archiveProperty.                                        *)
(*                                                                         *)
(* The service is one Node process over MySQL (InnoDB, REPEATABLE READ).   *)
(* A request is a chain of awaits, so two requests interleave between any  *)
(* two database calls.  A handler is therefore split exactly where it      *)
(* awaits: a read outside a transaction whose result it acts on later      *)
(* ("CHECKED"), the start of a transaction, which fixes the snapshot its   *)
(* plain SELECTs read from ("TX"), and its commit.  UPDATE ... WHERE id    *)
(* writes the latest row whatever the snapshot says.  A transaction that   *)
(* reads with FOR UPDATE (the claim) is one atomic step.                   *)
(*                                                                         *)
(* Abstracted: companies, customers, prices and texts.  A refusal that     *)
(* depends on them (404, KYC, a project on hold) only stops a handler      *)
(* early, so the model lets every handler stop wherever the code may.      *)
(***************************************************************************)
EXTENDS Naturals, FiniteSets

CONSTANTS
    Items,       \* the saleable items
    Units,       \* those that are ProjectUnits; the others are Properties
    BookingIds,  \* ids of Booking rows that may be created
    Procs,       \* requests that may be in flight at once
    MaxCrashes,  \* bound: how often the server process dies
    Ops,         \* bound: the kinds of request callers make
    None         \* SQL NULL

ASSUME BookingsAssumption ==
    /\ Units \subseteq Items
    /\ None \notin BookingIds \cup Items
    /\ MaxCrashes \in Nat

VARIABLES
    item,     \* Property / ProjectUnit rows
    booking,  \* Booking rows
    money,    \* money[b]: the booking has a payment row that is not FAILED
    mapped,   \* mapped[b]: b has a BookingPortalMapping row (unique per booking)
    handoffs, \* number of BOOKING_PORTAL_HANDOFF events written for b
    proc,     \* requests in flight
    sweep,    \* the run of the lock and hold expiry sweep in progress
    crashes,
    overtaken \* history: the items some reader of which was overtaken (see Overtakes)

system == <<item, booking, money, mapped, handoffs, proc, sweep, crashes>>
vars   == <<item, booking, money, mapped, handoffs, proc, sweep, crashes, overtaken>>

-----------------------------------------------------------------------------
(* Rows.  The names are those of ProjectUnit.sales_status; of a Property    *)
(* LIVE is AVAILABLE, LOCKED is RESERVED and ARCHIVED is WITHDRAWN, as are  *)
(* a unit's BLOCKED and UNAVAILABLE.                                        *)

ItemState   == {"AVAILABLE", "RESERVED", "BOOKED", "SOLD", "HOLD", "WITHDRAWN"}
ManualState == {"AVAILABLE", "SOLD", "HOLD", "WITHDRAWN"}

\* locked_until: null, within 24 hours, past, or ten years ahead
\* (HOLD_UNTIL_DECIDED_MS), which never passes.
LockTime == {"NULL", "AHEAD", "PAST", "DECIDED"}
HoldTime == {"NULL", "AHEAD", "PAST"}

ItemRow == [state : ItemState, until : LockTime, hold : HoldTime,
            by : BookingIds \cup {None}]

Undecided == {"PENDING", "TOKEN_RECEIVED"}
Confirmed == {"CONFIRMED", "COMPLETED"}
Status    == {"ABSENT", "CANCELLED"} \cup Undecided \cup Confirmed
Form      == {"DRAFT", "SUBMITTED", "MD_APPROVED", "MD_REJECTED"}

BookingRow == [status : Status, form : Form, item : Items \cup {None}]

\* A request in flight: what it is, how far it is, and what it has read.
Op    == {"IDLE", "TOKEN", "COMPLETE", "CONFIRM", "APPROVE", "REJECT", "CANCEL",
          "SUBMIT", "PAY", "SET_STATUS", "EDIT", "ARCHIVE"}
Stage == {"READ", "APPROVED", "CHECKED", "TX", "EXTEND", "REVERT"}

Request == [op : Op, st : Stage, b : BookingIds \cup {None}, i : Items \cup {None},
            md : BOOLEAN,              \* the caller is the MD
            state : ItemState,         \* item state read, or the one to set
            by : BookingIds \cup {None},
            others : BOOLEAN,          \* another live booking on the item was read
            mapped : BOOLEAN]          \* a portal mapping was read

Idle == [op |-> "IDLE", st |-> "READ", b |-> None, i |-> None, md |-> FALSE,
         state |-> "AVAILABLE", by |-> None, others |-> FALSE, mapped |-> FALSE]

\* The sweep: the expired locks and holds it has listed, and the lock whose
\* transaction is open.
ListedLock == [i : Items, by : BookingIds \cup {None}]
Verdict    == {"KEEP", "CANCEL", "RELEASE"}
RowTx      == [i : Items, by : BookingIds \cup {None}, verdict : Verdict]
NoTx       == [i |-> None, by |-> None, verdict |-> "RELEASE"]
NoSweep    == [on |-> FALSE, locks |-> {}, holds |-> {}, tx |-> NoTx]

TypeOK ==
    /\ item \in [Items -> ItemRow]
    /\ booking \in [BookingIds -> BookingRow]
    /\ money \in [BookingIds -> BOOLEAN]
    /\ mapped \in [BookingIds -> BOOLEAN]
    /\ handoffs \in [BookingIds -> Nat]
    /\ proc \in [Procs -> Request]
    /\ sweep \in [on : BOOLEAN, locks : SUBSET ListedLock, holds : SUBSET Items,
                  tx : RowTx \cup {NoTx}]
    /\ crashes \in 0 .. MaxCrashes
    /\ overtaken \subseteq Items

Init ==
    /\ item = [i \in Items |->
                 [state |-> "AVAILABLE", until |-> "NULL", hold |-> "NULL", by |-> None]]
    /\ booking = [b \in BookingIds |->
                    [status |-> "ABSENT", form |-> "DRAFT", item |-> None]]
    /\ money = [b \in BookingIds |-> FALSE]
    /\ mapped = [b \in BookingIds |-> FALSE]
    /\ handoffs = [b \in BookingIds |-> 0]
    /\ proc = [p \in Procs |-> Idle]
    /\ sweep = NoSweep
    /\ crashes = 0
    /\ overtaken = {}

rows == <<item, booking, money, mapped, handoffs>>

-----------------------------------------------------------------------------
(* The database operations the handlers share (inventory/reference.ts).     *)

\* Operators named X_Y below are mutants of X: X with the plausible mistake Y.
\* No action uses them; each shows that some property notices the mistake.

\* assertClaimable, on the row read FOR UPDATE: the sellable state, or a lock
\* that is no longer active.
Claimable_IgnoresLockTime(row) == row.state \in {"AVAILABLE", "RESERVED"}

Claimable(row) ==
    \/ row.state = "AVAILABLE"
    \/ row.state = "RESERVED" /\ row.until \in {"NULL", "PAST"}

\* claimInventoryLock
ClaimedRow(row, b, until) ==
    [row EXCEPT !.state = "RESERVED", !.until = until, !.by = b]

\* The two 409s of markInventoryBooked, decided on the snapshot in r.
MayBook_AnyOwner(r) == r.state # "SOLD"

MayBook(r) ==
    /\ r.by \in {None, r.b}
    /\ r.state \in {"BOOKED", "SOLD"} => r.by = r.b

\* Whether releaseInventoryLock writes, decided on the snapshot in r: the item
\* is held, by this booking or by nobody known with no other live booking on it.
MayRelease_AnyHolder(r) == r.state \in {"RESERVED", "BOOKED"}

MayRelease(r) ==
    /\ r.state \in {"RESERVED", "BOOKED"}
    /\ r.by = r.b \/ (r.by = None /\ ~r.others)

ReleasedRow_KeepsOwner(row) == [row EXCEPT !.state = "AVAILABLE", !.until = "NULL"]

ReleasedRow_NullsStatus(row) == [row EXCEPT !.state = None, !.until = "NULL", !.by = None]

ReleasedRow(row) ==
    [row EXCEPT !.state = "AVAILABLE", !.until = "NULL", !.by = None]

\* BookingPortalMapping.crms_booking_id is unique: a mapping that another
\* transaction inserted after the snapshot in r makes the insert fail.
MappingInsertable_NotUnique(r) == TRUE

MappingInsertable(r) == mapped[r.b] => r.mapped

Start(p, r) ==
    /\ r.op \in Ops
    /\ proc[p] = Idle
    /\ proc' = [proc EXCEPT ![p] = r]
    /\ UNCHANGED <<rows, sweep, crashes>>

Advance(p, st) == proc' = [proc EXCEPT ![p].st = st]
Finish(p)      == proc' = [proc EXCEPT ![p] = Idle]

OnBooking(op, st, b) ==
    [Idle EXCEPT !.op = op, !.st = st, !.b = b, !.i = booking[b].item]

-----------------------------------------------------------------------------
(* New bookings: one transaction, whose FOR UPDATE read makes it atomic.    *)

Claim(b, i, form, until) ==
    /\ booking[b].status = "ABSENT"
    /\ Claimable(item[i])
    /\ booking' = [booking EXCEPT ![b] = [status |-> "PENDING", form |-> form, item |-> i]]
    /\ item' = [item EXCEPT ![i] = ClaimedRow(item[i], b, until)]
    /\ UNCHANGED <<money, mapped, handoffs, proc, sweep, crashes>>

\* createBooking -> claimAndCreate: a quick booking, held for 24 hours.
CreateBooking(b, i) == Claim(b, i, "DRAFT", "AHEAD")

\* initiateBooking: the wizard's form is already submitted, so the item is
\* held until the MD decides.
InitiateBooking(b, i) == Claim(b, i, "SUBMITTED", "DECIDED")

-----------------------------------------------------------------------------
(* updateBookingStatus for TOKEN_RECEIVED and COMPLETED: a guard on the     *)
(* booking as read, then an unconditional update.                           *)

ReadTokenReceived(p, b) ==
    /\ booking[b].status = "PENDING"
    /\ Start(p, OnBooking("TOKEN", "CHECKED", b))

ReadCompleted(p, b) ==
    /\ booking[b].status = "CONFIRMED"
    /\ Start(p, OnBooking("COMPLETE", "CHECKED", b))

WriteStatus(p) ==
    /\ proc[p].op \in {"TOKEN", "COMPLETE"}
    /\ booking' = [booking EXCEPT ![proc[p].b].status =
                     IF proc[p].op = "TOKEN" THEN "TOKEN_RECEIVED" ELSE "COMPLETED"]
    /\ Finish(p)
    /\ UNCHANGED <<item, money, mapped, handoffs, sweep, crashes>>

-----------------------------------------------------------------------------
(* submitBookingForm: two separate updates, the form and then the lock.     *)

ReadForm(p, b) ==
    /\ booking[b].status \notin {"ABSENT", "CANCELLED"}
    /\ booking[b].form \in {"DRAFT", "MD_REJECTED"}
    /\ Start(p, OnBooking("SUBMIT", "CHECKED", b))

SubmitForm(p) ==
    /\ proc[p].op = "SUBMIT" /\ proc[p].st = "CHECKED"
    /\ booking' = [booking EXCEPT ![proc[p].b].form = "SUBMITTED"]
    /\ Advance(p, "EXTEND")
    /\ UNCHANGED <<item, money, mapped, handoffs, sweep, crashes>>

ExtendLock(p) ==
    /\ proc[p].op = "SUBMIT" /\ proc[p].st = "EXTEND"
    /\ item' = [item EXCEPT ![proc[p].i].until =
                  IF item[proc[p].i].by = proc[p].b THEN "DECIDED" ELSE @]
    /\ Finish(p)
    /\ UNCHANGED <<booking, money, mapped, handoffs, sweep, crashes>>

-----------------------------------------------------------------------------
(* recordPayment, as far as the sweep sees it: a pending payment on a       *)
(* booking that was not cancelled when read; and verifyPayment marking the  *)
(* booking's only payment FAILED.                                           *)

ReadForPayment(p, b) ==
    /\ booking[b].status \notin {"ABSENT", "CANCELLED"}
    /\ Start(p, OnBooking("PAY", "CHECKED", b))

RecordPayment(p) ==
    /\ proc[p].op = "PAY"
    /\ money' = [money EXCEPT ![proc[p].b] = TRUE]
    /\ Finish(p)
    /\ UNCHANGED <<item, booking, mapped, handoffs, sweep, crashes>>

PaymentFailed(b) ==
    /\ money[b]
    /\ money' = [money EXCEPT ![b] = FALSE]
    /\ UNCHANGED <<item, booking, mapped, handoffs, proc, sweep, crashes>>

-----------------------------------------------------------------------------
(* confirmBooking, cancelBooking, mdApproveBooking, mdRejectBooking: checks *)
(* on the booking as read, then a transaction.                              *)

ReadForConfirm_AnyStatus(p, b) ==
    /\ booking[b].status # "ABSENT"
    /\ Start(p, OnBooking("CONFIRM", "CHECKED", b))

ReadForConfirm(p, b) ==
    /\ booking[b].status \in Undecided
    /\ Start(p, OnBooking("CONFIRM", "CHECKED", b))

\* assertCanCancel: a confirmed booking only by the MD.
ReadForCancel_AnyCaller(p, b, md) ==
    /\ booking[b].status \notin {"ABSENT", "CANCELLED"}
    /\ Start(p, [OnBooking("CANCEL", "CHECKED", b) EXCEPT !.md = md])

ReadForCancel(p, b, md) ==
    /\ booking[b].status \notin {"ABSENT", "CANCELLED"}
    /\ booking[b].status \in Confirmed => md
    /\ Start(p, [OnBooking("CANCEL", "CHECKED", b) EXCEPT !.md = md])

ReadForReject(p, b) ==
    /\ booking[b].form = "SUBMITTED"
    /\ Start(p, [OnBooking("REJECT", "CHECKED", b) EXCEPT !.md = TRUE])

ReadForApprove(p, b) ==
    /\ booking[b].form = "SUBMITTED"
    /\ Start(p, [OnBooking("APPROVE", "READ", b) EXCEPT !.md = TRUE])

\* mdApproveBooking marks the form first, outside any transaction ...
ApproveForm(p) ==
    /\ proc[p].op = "APPROVE" /\ proc[p].st = "READ"
    /\ booking' = [booking EXCEPT ![proc[p].b].form = "MD_APPROVED"]
    /\ Advance(p, "APPROVED")
    /\ UNCHANGED <<item, money, mapped, handoffs, sweep, crashes>>

\* ... then calls confirmBooking, which reads the booking again ...
ReadForApprovedConfirm(p) ==
    /\ proc[p].op = "APPROVE" /\ proc[p].st = "APPROVED"
    /\ booking[proc[p].b].status \in Undecided
    /\ Advance(p, "CHECKED")
    /\ UNCHANGED <<rows, sweep, crashes>>

\* ... and refuses when it is decided already, or KYC is incomplete ...
ApprovedConfirmRefused(p) ==
    /\ proc[p].op = "APPROVE" /\ proc[p].st = "APPROVED"
    /\ Advance(p, "REVERT")
    /\ UNCHANGED <<rows, sweep, crashes>>

\* ... and on any error puts the form back to SUBMITTED.
RevertForm(p) ==
    /\ proc[p].op = "APPROVE" /\ proc[p].st = "REVERT"
    /\ booking' = [booking EXCEPT ![proc[p].b].form = "SUBMITTED"]
    /\ Finish(p)
    /\ UNCHANGED <<item, money, mapped, handoffs, sweep, crashes>>

\* The first statement of each of these transactions fixes its snapshot.
Snapshot(r) ==
    [r EXCEPT !.st = "TX",
              !.state = item[r.i].state,
              !.by = item[r.i].by,
              !.mapped = mapped[r.b],
              !.others = \E c \in BookingIds \ {r.b} :
                           booking[c].item = r.i /\ booking[c].status # "CANCELLED"]

BeginTx(p) ==
    /\ proc[p].op \in {"CONFIRM", "APPROVE", "CANCEL", "REJECT"}
    /\ proc[p].st = "CHECKED"
    /\ proc' = [proc EXCEPT ![p] = Snapshot(@)]
    /\ UNCHANGED <<rows, sweep, crashes>>

\* confirmBooking's transaction: the status, markInventoryBooked, and the
\* portal event and mapping when the snapshot shows none.
CommitConfirm(p) ==
    /\ proc[p].op \in {"CONFIRM", "APPROVE"} /\ proc[p].st = "TX"
    /\ MayBook(proc[p])
    /\ MappingInsertable(proc[p])
    /\ LET b == proc[p].b
           i == proc[p].i
       IN /\ booking' = [booking EXCEPT ![b].status = "CONFIRMED"]
          /\ item' = [item EXCEPT ![i].state = "BOOKED", ![i].by = b]
          /\ mapped' = [mapped EXCEPT ![b] = TRUE]
          /\ handoffs' = [handoffs EXCEPT ![b] = IF proc[p].mapped THEN @ ELSE @ + 1]
    /\ Finish(p)
    /\ UNCHANGED <<money, sweep, crashes>>

\* cancelBooking's transaction; mdRejectBooking's also marks the form.  The
\* payments become REFUND_DUE, which still counts as money on the booking.
CommitCancel(p) ==
    /\ proc[p].op \in {"CANCEL", "REJECT"} /\ proc[p].st = "TX"
    /\ booking' = [booking EXCEPT
                     ![proc[p].b].status = "CANCELLED",
                     ![proc[p].b].form = IF proc[p].op = "REJECT" THEN "MD_REJECTED" ELSE @]
    /\ item' = IF MayRelease(proc[p])
               THEN [item EXCEPT ![proc[p].i] = ReleasedRow(@)]
               ELSE item
    /\ Finish(p)
    /\ UNCHANGED <<money, mapped, handoffs, sweep, crashes>>

\* A refusal inside the transaction, a broken unique key, a timeout or a lost
\* connection: the transaction is rolled back and the handler gets an error.
RollbackTx_LeavesForm(p) ==
    /\ proc[p].st = "TX"
    /\ Finish(p)
    /\ UNCHANGED <<rows, sweep, crashes>>

RollbackTx(p) ==
    /\ proc[p].st = "TX"
    /\ IF proc[p].op = "APPROVE" THEN Advance(p, "REVERT") ELSE Finish(p)
    /\ UNCHANGED <<rows, sweep, crashes>>

-----------------------------------------------------------------------------
(* Admin operations on the rows: a guard on the row as read, then an        *)
(* unconditional update.                                                    *)

OnItem(op, i, state) ==
    [Idle EXCEPT !.op = op, !.st = "CHECKED", !.i = i, !.state = state]

\* ProjectUnitService.changeStatus
ReadForSetStatus(p, i, s) ==
    /\ i \in Units
    /\ s \in ManualState
    /\ s = "SOLD" => item[i].state = "BOOKED"
    /\ item[i].by # None => s = "SOLD"
    /\ Start(p, OnItem("SET_STATUS", i, s))

SetStatus(p) ==
    /\ proc[p].op = "SET_STATUS"
    /\ item' = [item EXCEPT ![proc[p].i].state = proc[p].state,
                            ![proc[p].i].hold = IF proc[p].state = "HOLD"
                                                THEN "AHEAD" ELSE "NULL"]
    /\ Finish(p)
    /\ UNCHANGED <<booking, money, mapped, handoffs, sweep, crashes>>

\* ProjectUnitService.updateUnit: the request's sales_status is dropped, but
\* the row as read is merged in and toCreateData writes its sales_status back.
ReadForEdit(p, i) ==
    /\ i \in Units
    /\ Start(p, OnItem("EDIT", i, item[i].state))

EditUnit(p) ==
    /\ proc[p].op = "EDIT"
    /\ item' = [item EXCEPT ![proc[p].i].state = proc[p].state]
    /\ Finish(p)
    /\ UNCHANGED <<booking, money, mapped, handoffs, sweep, crashes>>

\* PropertyService.archiveProperty
ReadForArchive(p, i) ==
    /\ i \in Items \ Units
    /\ item[i].state \notin {"RESERVED", "BOOKED", "SOLD", "WITHDRAWN"}
    /\ Start(p, OnItem("ARCHIVE", i, "WITHDRAWN"))

Archive(p) ==
    /\ proc[p].op = "ARCHIVE"
    /\ item' = [item EXCEPT ![proc[p].i].state = "WITHDRAWN"]
    /\ Finish(p)
    /\ UNCHANGED <<booking, money, mapped, handoffs, sweep, crashes>>

-----------------------------------------------------------------------------
(* inventoryLockAndHoldExpirySweepJob, every 15 minutes.                    *)

ExpiredLocks == {i \in Items : item[i].state = "RESERVED" /\ item[i].until = "PAST"}
ExpiredHolds == {i \in Units : item[i].state = "HOLD" /\ item[i].hold = "PAST"}

KeptRow_SameExpiry(row) == row

KeptRow(row) == [row EXCEPT !.until = "DECIDED"]

FreedHold_LeavesStatus(row) == row

FreedHold(row) == [row EXCEPT !.state = "AVAILABLE", !.hold = "NULL"]

\* The job lists the expired rows first, outside any transaction.
SweepList ==
    /\ ~sweep.on
    /\ ExpiredLocks \cup ExpiredHolds # {}
    /\ sweep' = [on |-> TRUE,
                 locks |-> {[i |-> i, by |-> item[i].by] : i \in ExpiredLocks},
                 holds |-> ExpiredHolds,
                 tx |-> NoTx]
    /\ UNCHANGED <<rows, proc, crashes>>

\* decide(): what to do with the booking that owned the listed lock.
Decide_IgnoresToken(b) ==
    IF b = None \/ booking[b].status \notin Undecided THEN "RELEASE"
    ELSE IF booking[b].form = "SUBMITTED" \/ money[b] THEN "KEEP" ELSE "CANCEL"

Decide(b) ==
    IF b = None \/ booking[b].status \notin Undecided THEN "RELEASE"
    ELSE IF \/ booking[b].form = "SUBMITTED"
            \/ booking[b].status = "TOKEN_RECEIVED"
            \/ money[b]
         THEN "KEEP"
         ELSE "CANCEL"

\* One transaction per listed row; its snapshot decides ...
SweepBeginRow(l) ==
    /\ sweep.tx = NoTx
    /\ l \in sweep.locks
    /\ sweep' = [sweep EXCEPT !.locks = @ \ {l},
                              !.tx = [i |-> l.i, by |-> l.by, verdict |-> Decide(l.by)]]
    /\ UNCHANGED <<rows, proc, crashes>>

\* ... and its commit writes the booking and the item by id.
SweepCommitRow ==
    /\ sweep.tx # NoTx
    /\ LET t == sweep.tx
       IN /\ item' = [item EXCEPT ![t.i] =
                        IF t.verdict = "KEEP" THEN KeptRow(@) ELSE ReleasedRow(@)]
          /\ booking' = IF t.verdict = "CANCEL"
                        THEN [booking EXCEPT ![t.by].status = "CANCELLED"]
                        ELSE booking
    /\ sweep' = [sweep EXCEPT !.tx = NoTx]
    /\ UNCHANGED <<money, mapped, handoffs, proc, crashes>>

\* A failed row transaction ends the whole run: nothing catches the error.
SweepAbort ==
    /\ sweep.tx # NoTx
    /\ sweep' = NoSweep
    /\ UNCHANGED <<rows, proc, crashes>>

\* Last, one updateMany puts every listed hold back on sale.
SweepReleaseHolds ==
    /\ sweep.on /\ sweep.locks = {} /\ sweep.tx = NoTx
    /\ item' = [i \in Items |-> IF i \in sweep.holds THEN FreedHold(item[i]) ELSE item[i]]
    /\ sweep' = NoSweep
    /\ UNCHANGED <<booking, money, mapped, handoffs, proc, crashes>>

-----------------------------------------------------------------------------
(* The environment: time passes a lock or a hold; the process dies, and     *)
(* with it every request in flight and every open transaction.              *)

LockExpires(i) ==
    /\ item[i].until = "AHEAD"
    /\ item' = [item EXCEPT ![i].until = "PAST"]
    /\ UNCHANGED <<booking, money, mapped, handoffs, proc, sweep, crashes>>

HoldExpires(i) ==
    /\ item[i].hold = "AHEAD"
    /\ item' = [item EXCEPT ![i].hold = "PAST"]
    /\ UNCHANGED <<booking, money, mapped, handoffs, proc, sweep, crashes>>

Crash ==
    /\ crashes < MaxCrashes
    /\ crashes' = crashes + 1
    /\ proc' = [p \in Procs |-> Idle]
    /\ sweep' = NoSweep
    /\ UNCHANGED rows

-----------------------------------------------------------------------------
ClaimStep == \E b \in BookingIds, i \in Items : CreateBooking(b, i) \/ InitiateBooking(b, i)

ReadStep(p) ==
    \/ \E b \in BookingIds :
         \/ ReadTokenReceived(p, b) \/ ReadCompleted(p, b)
         \/ ReadForm(p, b) \/ ReadForPayment(p, b)
         \/ ReadForConfirm(p, b) \/ ReadForReject(p, b) \/ ReadForApprove(p, b)
         \/ \E md \in BOOLEAN : ReadForCancel(p, b, md)
    \/ \E i \in Items :
         \/ ReadForEdit(p, i) \/ ReadForArchive(p, i)
         \/ \E s \in ManualState : ReadForSetStatus(p, i, s)

BookingStep(p) ==
    \/ WriteStatus(p) \/ SubmitForm(p) \/ ExtendLock(p) \/ RecordPayment(p)
    \/ ApproveForm(p) \/ ReadForApprovedConfirm(p) \/ ApprovedConfirmRefused(p)
    \/ RevertForm(p) \/ BeginTx(p) \/ CommitConfirm(p) \/ CommitCancel(p) \/ RollbackTx(p)

AdminStep(p) == SetStatus(p) \/ EditUnit(p) \/ Archive(p)

SweepStep ==
    \/ SweepList \/ SweepCommitRow \/ SweepAbort \/ SweepReleaseHolds
    \/ \E l \in sweep.locks : SweepBeginRow(l)

Environment ==
    \/ \E i \in Items : LockExpires(i) \/ HoldExpires(i)
    \/ \E b \in BookingIds : PaymentFailed(b)
    \/ Crash

Step ==
    \/ ClaimStep
    \/ \E p \in Procs : ReadStep(p) \/ BookingStep(p) \/ AdminStep(p)
    \/ SweepStep
    \/ Environment

(* The history.  A reader is overtaken when what it has read of an item, its *)
(* row, its bookings or their money, changes before it acts on it.  (A lock  *)
(* that runs out and a payment that fails take nothing away from a reader.)  *)

\* What a reader of item i relies on is as it was.
Undisturbed(i) ==
    /\ item'[i].state = item[i].state /\ item'[i].by = item[i].by
    /\ item[i].until = "PAST" => item'[i].until = "PAST"
    /\ \A c \in BookingIds : booking[c].status # "ABSENT" /\ booking[c].item = i =>
          booking'[c] = booking[c] /\ (money'[c] => money[c])

\* A request, or the sweep, has read something of item i and has not acted on it yet.
Waits(i) ==
    \/ \E p \in Procs : proc[p].i = i /\ proc'[p] = proc[p]
    \/ sweep.tx.i = i /\ sweep'.tx = sweep.tx
    \/ \E l \in sweep.locks \cap sweep'.locks : l.i = i
    \/ i \in sweep.holds \cap sweep'.holds

Overtakes == {i \in Items : Waits(i) /\ ~Undisturbed(i)}

Next == Step /\ overtaken' = overtaken \cup Overtakes

Spec == Init /\ [][Next]_vars

\* The sweep is scheduled for ever, and its transactions do not all fail.
FairSpec ==
    /\ Spec
    /\ WF_system(SweepList)
    /\ WF_system(\E l \in sweep.locks : SweepBeginRow(l))
    /\ SF_system(SweepCommitRow)
    /\ WF_system(SweepReleaseHolds)

-----------------------------------------------------------------------------
(* What must hold.  Of an item a reader of which was overtaken nothing is   *)
(* promised: see NeverDoubleSold below for what the code then does.         *)

Intact == Items \ overtaken

\* A confirmed booking owns its item, and the item is off sale: confirming
\* moves the item to BOOKED for this booking (markInventoryBooked) and nothing
\* but cancelling this booking puts it back.  So no item is sold twice, as long
\* as what a handler has read of it still holds when the handler writes.
ConfirmedOwnsItem ==
    \A i \in Intact, b \in BookingIds :
        booking[b].item = i /\ booking[b].status \in Confirmed =>
            item[i].by = b /\ item[i].state \in {"BOOKED", "SOLD"}

\* The item rows agree with the booking rows: an item is held, booked or sold
\* exactly when a booking of that item owns it, a held item waits for an
\* undecided booking, and a booked one has a confirmed booking.
RowsAgree ==
    \A i \in Intact :
        LET row == item[i]
            o   == item[i].by
        IN /\ row.state \in {"RESERVED", "BOOKED", "SOLD"} <=> o # None
           /\ o # None => booking[o].item = i
           /\ row.state = "RESERVED" => booking[o].status \in Undecided
           /\ row.state = "BOOKED" => booking[o].status \in Confirmed
           /\ row.state = "SOLD" => booking[o].status \in Confirmed \cup {"CANCELLED"}

\* A cancelled booking is never revived: confirmBooking, submitBookingForm and
\* updateBookingStatus all refuse a CANCELLED booking.
CancelledIsFinal ==
    [][\A b \in BookingIds :
          booking[b].status = "CANCELLED" /\ booking[b].item \in Intact'
          => booking'[b].status = "CANCELLED"]_vars

\* The sweep cancels only a quick booking: no form submitted, no token, no
\* money recorded (the rule stated above decide() in the sweep job).
SweepSparesCommitted ==
    [][\A b \in BookingIds :
          /\ sweep' # sweep /\ booking[b].item \in Intact'
          /\ booking[b].status # "CANCELLED"
          /\ booking'[b].status = "CANCELLED"
          => /\ booking[b].status = "PENDING"
             /\ booking[b].form # "SUBMITTED"
             /\ ~money[b]]_vars

\* A lock passes from one booking straight to another only after it ran out:
\* claims respect an active lock, and a confirmation never takes one over.
LockTakenOverOnlyExpired ==
    [][\A i \in Intact' :
          /\ item[i].by # None
          /\ item'[i].by \notin {None, item[i].by}
          => item[i].state = "RESERVED" /\ item[i].until = "PAST"]_vars

\* Only the MD cancels a confirmed booking (assertCanCancel, mdRejectBooking).
OnlyMDCancelsConfirmed ==
    [][\A b \in BookingIds :
          /\ booking[b].status \in Confirmed /\ booking[b].item \in Intact'
          /\ booking'[b].status = "CANCELLED"
          => \E p \in Procs : /\ proc[p].b = b /\ proc[p].md
                              /\ proc[p] # Idle /\ proc'[p] = Idle]_vars

\* No step undoes what a booking has reached: it stays cancelled, and stays committed, until
\* somebody who may decides otherwise, and keeps its item until its lock runs out.
DecisionsStay ==
    CancelledIsFinal /\ SweepSparesCommitted /\ LockTakenOverOnlyExpired /\ OnlyMDCancelsConfirmed

\* However requests race, a booking is handed to the customer portal at most
\* once, and no booking becomes confirmed without the handoff: the event and
\* the mapping are written in the confirming transaction and the mapping is
\* unique per booking.
HandoffExactlyOnce ==
    \A b \in BookingIds :
        /\ handoffs[b] = IF mapped[b] THEN 1 ELSE 0
        /\ booking[b].status \in Confirmed => mapped[b]

\* Unless the process dies in between, a form is MD_APPROVED only for a booking
\* that has been confirmed or whose approval is still running: mdApproveBooking
\* puts a failed one back.
ApprovedFormIsConfirmed ==
    crashes = 0 =>
        \A b \in BookingIds : booking[b].form = "MD_APPROVED" =>
            \/ mapped[b]
            \/ \E p \in Procs : proc[p].op = "APPROVE" /\ proc[p].b = b

\* Every lock that ran out is eventually released or extended, and every
\* expired hold of a unit ends.
ExpiredLocksResolved ==
    /\ \A i \in Items : (i \in ExpiredLocks) ~> (i \notin ExpiredLocks)
    /\ \A i \in Items : (i \in ExpiredHolds) ~> (i \notin ExpiredHolds)

-----------------------------------------------------------------------------
(* The component implements Sales.  A cancelled booking that still owns a   *)
(* SOLD unit counts as having given it back.                                *)
Owner(i) ==
    IF item[i].by # None /\ booking[item[i].by].status # "CANCELLED"
    THEN item[i].by ELSE None

Sale == INSTANCE Sales WITH
    item   <- [b \in BookingIds |-> booking[b].item],
    closed <- {b \in BookingIds : booking[b].status = "CANCELLED"},
    owner  <- [i \in Items |-> Owner(i)],
    sold   <- {i \in Items : Owner(i) # None /\ booking[Owner(i)].status \in Confirmed}

\* Bookings, cancellations, confirmations and the sweep together sell each item
\* to one open booking at a time, as Sales says, until a reader is overtaken.
ImplementsSales ==
    Sale!Init /\ [][overtaken' = {} => [Sale!Next]_(Sale!svars)]_vars

-----------------------------------------------------------------------------
(* What comments and messages in the code state of the same steps, whether  *)
(* or not a reader was overtaken.                                           *)

\* "confirming the stale booking silently double-sold the item": no item has two
\* confirmed bookings.
NeverDoubleSold ==
    \A b, c \in BookingIds :
        /\ b # c
        /\ booking[b].status \in Confirmed
        /\ booking[c].status \in Confirmed
        => booking[b].item # booking[c].item

\* "This unit is locked by an active booking. Cancel the booking first.": no
\* cancelled booking locks an item.
CancelledLocksNothing ==
    \A i \in Items : item[i].by # None => booking[item[i].by].status # "CANCELLED"

=============================================================================
