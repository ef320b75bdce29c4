--------------------------- MODULE BookingsProofs ---------------------------
(***************************************************************************)
(* What is proved about Bookings for every set of items, bookings and      *)
(* concurrent requests, however these, the sweep, the clock and crashes    *)
(* interleave: first what holds of every item, then (from Owns on) what    *)
(* holds of an item as long as no reader of it was overtaken.              *)
(***************************************************************************)
EXTENDS Bookings, TLAPS

-----------------------------------------------------------------------------
(* The inductive invariant.  Types alone are not inductive: a transaction's *)
(* snapshot reads the row of its item, so a request must have one.          *)

AdminOp   == {"SET_STATUS", "EDIT", "ARCHIVE"}
BookingOp == Op \ (AdminOp \cup {"IDLE"})

\* A booking row that exists is for an item; one that does not is blank.
BookingsHaveItems ==
    \A b \in BookingIds :
        \/ booking[b].status = "ABSENT" /\ booking[b].form = "DRAFT"
        \/ booking[b].status # "ABSENT" /\ booking[b].item \in Items

\* A request is about an item and, unless an admin makes it, about an existing
\* booking of that item.
Founded(r) ==
    /\ r.i \in Items
    /\ \/ r.op \in AdminOp
       \/ /\ r.b \in BookingIds
          /\ booking[r.b].status # "ABSENT"
          /\ booking[r.b].item = r.i

RequestsFounded == \A p \in Procs : proc[p].op # "IDLE" => Founded(proc[p])

\* What a request has seen of the handoff is still true: mappings stay.
SeenMapped ==
    \A p \in Procs : proc[p].op \in BookingOp =>
        /\ proc[p].st = "TX" /\ proc[p].mapped => mapped[proc[p].b]
        /\ proc[p].op = "COMPLETE" => mapped[proc[p].b]

\* The sweep cancels an existing booking.
SweepFounded ==
    sweep.tx.verdict = "CANCEL" =>
        sweep.tx.by \in BookingIds /\ booking[sweep.tx.by].status # "ABSENT"

WellFormed == TypeOK /\ BookingsHaveItems /\ RequestsFounded /\ SweepFounded

IInv == WellFormed /\ SeenMapped /\ HandoffExactlyOnce

-----------------------------------------------------------------------------
(* Types of the values the actions write.                                   *)

LEMMA IdleType == Idle \in Request /\ Idle.op = "IDLE" /\ Idle.st = "READ"
  BY BookingsAssumption DEF Idle, Request, Op, Stage, ItemState

LEMMA RowTypes ==
  ASSUME NEW row \in ItemRow
  PROVE  /\ \A b \in BookingIds, u \in LockTime : ClaimedRow(row, b, u) \in ItemRow
         /\ ReleasedRow(row) \in ItemRow
         /\ KeptRow(row) \in ItemRow
         /\ FreedHold(row) \in ItemRow
  BY DEF ItemRow, ClaimedRow, ReleasedRow, KeptRow, FreedHold, ItemState, LockTime, HoldTime

-----------------------------------------------------------------------------
(* How a request in flight may change in one step: it stays, ends, moves to *)
(* another stage, takes its snapshot, or is a new one.                      *)

NewRequest(r) ==
    /\ r \in Request
    /\ r.st # "TX"
    /\ Founded(r)
    /\ r.op = "COMPLETE" => booking[r.b].status = "CONFIRMED"

Moves(q) ==
    \/ proc'[q] = proc[q]
    \/ proc'[q] = Idle
    \/ proc[q].op # "IDLE" /\ \E st \in Stage \ {"TX"} : proc'[q] = [proc[q] EXCEPT !.st = st]
    \/ /\ proc[q].op \in BookingOp
       /\ proc'[q] = Snapshot(proc[q])
       /\ UNCHANGED rows
    \/ NewRequest(proc'[q]) /\ UNCHANGED rows

LEMMA ReadMakesNewRequest ==
  ASSUME TypeOK, BookingsHaveItems, NEW p \in Procs, ReadStep(p)
  PROVE  \E r : NewRequest(r) /\ Start(p, r)
<1>1. ASSUME NEW b \in BookingIds, booking[b].status # "ABSENT",
             NEW op \in Op, NEW st \in Stage \ {"TX"}, NEW md \in BOOLEAN,
             op = "COMPLETE" => booking[b].status = "CONFIRMED"
      PROVE  /\ NewRequest(OnBooking(op, st, b))
             /\ NewRequest([OnBooking(op, st, b) EXCEPT !.md = md])
  <2>1. booking[b].item \in Items
    BY <1>1 DEF BookingsHaveItems
  <2> QED
    BY <1>1, <2>1, IdleType DEF NewRequest, OnBooking, Request, Founded
<1>2. ASSUME NEW i \in Items, NEW op \in AdminOp, NEW s \in ItemState
      PROVE  NewRequest(OnItem(op, i, s))
  BY <1>2, IdleType DEF NewRequest, OnItem, Request, Founded, Stage, Op, BookingOp, AdminOp
<1>3. ASSUME NEW b \in BookingIds,
             \/ ReadTokenReceived(p, b) \/ ReadCompleted(p, b)
             \/ ReadForm(p, b) \/ ReadForPayment(p, b)
             \/ ReadForConfirm(p, b) \/ ReadForReject(p, b) \/ ReadForApprove(p, b)
             \/ \E md \in BOOLEAN : ReadForCancel(p, b, md)
      PROVE  \E r : NewRequest(r) /\ Start(p, r)
  <2>1. booking[b].status # "ABSENT"
    BY <1>3
    DEF BookingsHaveItems, ReadTokenReceived, ReadCompleted, ReadForm, ReadForPayment,
        ReadForConfirm, ReadForReject, ReadForApprove, ReadForCancel, Undecided
  <2> DEFINE Starts(op, st, md) ==
           \/ Start(p, OnBooking(op, st, b))
           \/ Start(p, [OnBooking(op, st, b) EXCEPT !.md = md])
  <2>2. \E op \in Op, st \in Stage \ {"TX"}, md \in BOOLEAN :
           (op = "COMPLETE" => booking[b].status = "CONFIRMED") /\ Starts(op, st, md)
    <3>1. ASSUME NEW op \in Op, NEW st \in Stage \ {"TX"}, NEW md \in BOOLEAN,
                 op = "COMPLETE" => booking[b].status = "CONFIRMED", Starts(op, st, md)
          PROVE  \E o \in Op, s \in Stage \ {"TX"}, m \in BOOLEAN :
                    (o = "COMPLETE" => booking[b].status = "CONFIRMED") /\ Starts(o, s, m)
      <4> HIDE DEF Starts
      <4> QED
        BY <3>1
    <3> USE DEF Op, Stage
    <3>2. CASE ReadTokenReceived(p, b)
      BY <3>1, <3>2 DEF ReadTokenReceived
    <3>3. CASE ReadCompleted(p, b)
      BY <3>1, <3>3 DEF ReadCompleted
    <3>4. CASE ReadForm(p, b)
      BY <3>1, <3>4 DEF ReadForm
    <3>5. CASE ReadForPayment(p, b)
      BY <3>1, <3>5 DEF ReadForPayment
    <3>6. CASE ReadForConfirm(p, b)
      BY <3>1, <3>6 DEF ReadForConfirm
    <3>7. CASE ReadForReject(p, b)
      BY <3>1, <3>7 DEF ReadForReject
    <3>8. CASE ReadForApprove(p, b)
      BY <3>1, <3>8 DEF ReadForApprove
    <3>9. CASE \E md \in BOOLEAN : ReadForCancel(p, b, md)
      BY <3>1, <3>9 DEF ReadForCancel
    <3> QED
      BY <1>3, <3>2, <3>3, <3>4, <3>5, <3>6, <3>7, <3>8, <3>9
  <2>3. PICK op \in Op, st \in Stage \ {"TX"}, md \in BOOLEAN :
           (op = "COMPLETE" => booking[b].status = "CONFIRMED") /\ Starts(op, st, md)
    BY <2>2
  <2>4. /\ NewRequest(OnBooking(op, st, b))
        /\ NewRequest([OnBooking(op, st, b) EXCEPT !.md = md])
    BY <1>1, <2>1, <2>3
  <2> QED
    BY <2>3, <2>4
<1>4. ASSUME NEW i \in Items,
             \/ ReadForEdit(p, i) \/ ReadForArchive(p, i)
             \/ \E s \in ManualState : ReadForSetStatus(p, i, s)
      PROVE  \E r : NewRequest(r) /\ Start(p, r)
  <2>1. item[i].state \in ItemState
    BY DEF TypeOK, ItemRow
  <2> QED
    BY <1>2, <1>4, <2>1
    DEF ReadForEdit, ReadForArchive, ReadForSetStatus, AdminOp, ManualState, ItemState
<1> QED
  BY <1>3, <1>4 DEF ReadStep

LEMMA RequestsMove ==
  ASSUME TypeOK, BookingsHaveItems, RequestsFounded, [Next]_vars, NEW q \in Procs
  PROVE  Moves(q)
<1>0. proc \in [Procs -> Request]
  BY DEF TypeOK
<1>1. CASE UNCHANGED proc
  BY <1>1 DEF Moves
<1>2. CASE \E p \in Procs : ReadStep(p)
  <2>1. PICK p \in Procs : \E r : NewRequest(r) /\ Start(p, r)
    BY <1>2, ReadMakesNewRequest
  <2> QED
    BY <1>0, <2>1 DEF Start, Moves, NewRequest, Founded, rows
<1>3. ASSUME NEW p \in Procs, BookingStep(p) \/ AdminStep(p)
      PROVE  Moves(q)
  <2>1. CASE proc' = [proc EXCEPT ![p] = Idle]
    BY <1>0, <2>1 DEF Moves
  <2>2. ASSUME proc[p].op # "IDLE", NEW st \in Stage \ {"TX"},
               proc' = [proc EXCEPT ![p].st = st]
        PROVE  Moves(q)
    BY <1>0, <2>2 DEF Moves
  <2>3. CASE BeginTx(p)
    BY <1>0, <2>3 DEF BeginTx, Moves, Op, BookingOp, AdminOp
  <2>4. CASE SubmitForm(p) \/ ApproveForm(p)
    BY <2>2, <2>4 DEF SubmitForm, ApproveForm, Advance, Stage
  <2>5. CASE ReadForApprovedConfirm(p) \/ ApprovedConfirmRefused(p)
    BY <2>2, <2>5 DEF ReadForApprovedConfirm, ApprovedConfirmRefused, Advance, Stage
  <2>6. CASE RollbackTx(p)
    BY <2>1, <2>2, <2>6 DEF RollbackTx, Advance, Finish, Stage
  <2>7. CASE \/ WriteStatus(p) \/ ExtendLock(p) \/ RecordPayment(p) \/ RevertForm(p)
             \/ CommitConfirm(p) \/ CommitCancel(p) \/ AdminStep(p)
    BY <2>1, <2>7
    DEF WriteStatus, ExtendLock, RecordPayment, RevertForm, CommitConfirm, CommitCancel,
        AdminStep, SetStatus, EditUnit, Archive, Finish
  <2> QED
    BY <1>3, <2>3, <2>4, <2>5, <2>6, <2>7 DEF BookingStep
<1>4. CASE ClaimStep
  BY <1>1, <1>4 DEF ClaimStep, CreateBooking, InitiateBooking, Claim
<1>5. CASE SweepStep
  BY <1>1, <1>5 DEF SweepStep, SweepList, SweepBeginRow, SweepCommitRow, SweepAbort,
     SweepReleaseHolds
<1>6. CASE Environment
  BY <1>1, <1>6 DEF Environment, LockExpires, HoldExpires, PaymentFailed, Crash, Moves
<1>7. CASE UNCHANGED vars
  BY <1>1, <1>7 DEF vars
<1> QED
  BY <1>2, <1>3, <1>4, <1>5, <1>6, <1>7 DEF Next, Step

-----------------------------------------------------------------------------
(* What a step does to the rows: bookings are never deleted nor moved to    *)
(* another item, and mappings stay.                                         *)

BookingsGrow ==
    \A b \in BookingIds : booking[b].status # "ABSENT" =>
        booking'[b].status # "ABSENT" /\ booking'[b].item = booking[b].item

\* A request that writes a booking or an item has both.
LEMMA InFlight ==
  ASSUME RequestsFounded, NEW p \in Procs, proc[p].op \in BookingOp
  PROVE  /\ proc[p].b \in BookingIds
         /\ proc[p].i \in Items
         /\ booking[proc[p].b].status # "ABSENT"
         /\ booking[proc[p].b].item = proc[p].i
  BY DEF RequestsFounded, Founded, BookingOp

LEMMA BookingWrites ==
  ASSUME TypeOK, BookingsHaveItems, RequestsFounded, NEW p \in Procs, BookingStep(p)
  PROVE  /\ booking' \in [BookingIds -> BookingRow]
         /\ BookingsGrow
         /\ BookingsHaveItems'
<1>1. CASE UNCHANGED booking
  BY <1>1 DEF TypeOK, BookingsGrow, BookingsHaveItems
<1>2. ASSUME NEW b \in BookingIds, booking[b].status # "ABSENT",
             NEW row \in BookingRow, row.status # "ABSENT", row.item = booking[b].item,
             booking' = [booking EXCEPT ![b] = row]
      PROVE  /\ booking' \in [BookingIds -> BookingRow]
             /\ BookingsGrow
             /\ BookingsHaveItems'
  BY <1>2 DEF TypeOK, BookingsGrow, BookingsHaveItems
<1> DEFINE b == proc[p].b
<1>3. booking \in [BookingIds -> BookingRow]
  BY DEF TypeOK
<1>4. CASE WriteStatus(p) \/ CommitConfirm(p)
  <2>1. proc[p].op \in BookingOp
    BY <1>4 DEF WriteStatus, CommitConfirm, AdminOp, BookingOp, Op
  <2>2. PICK s \in Status \ {"ABSENT"} : booking' = [booking EXCEPT ![b].status = s]
    BY <1>4 DEF WriteStatus, CommitConfirm, Status, Undecided, Confirmed
  <2>3. b \in BookingIds /\ booking[b].status # "ABSENT"
    BY <2>1, InFlight
  <2>4. [booking[b] EXCEPT !.status = s] \in BookingRow
    BY <1>3, <2>2, <2>3 DEF BookingRow
  <2>5. /\ [booking[b] EXCEPT !.status = s].status # "ABSENT"
        /\ [booking[b] EXCEPT !.status = s].item = booking[b].item
    BY <1>3, <2>2, <2>3 DEF BookingRow
  <2> QED
    BY <1>2, <2>2, <2>3, <2>4, <2>5
<1>5. CASE SubmitForm(p) \/ ApproveForm(p) \/ RevertForm(p)
  <2>1. proc[p].op \in BookingOp
    BY <1>5 DEF SubmitForm, ApproveForm, RevertForm, AdminOp, BookingOp, Op
  <2>2. PICK f \in Form : booking' = [booking EXCEPT ![b].form = f]
    BY <1>5 DEF SubmitForm, ApproveForm, RevertForm, Form
  <2> QED
    BY <2>1, <2>2, InFlight DEF TypeOK, BookingRow, BookingsGrow, BookingsHaveItems
<1>6. CASE CommitCancel(p)
  <2>1. proc[p].op \in BookingOp
    BY <1>6 DEF CommitCancel, AdminOp, BookingOp, Op
  <2>2. b \in BookingIds /\ booking[b].status # "ABSENT"
    BY <2>1, InFlight
  <2> DEFINE f == IF proc[p].op = "REJECT" THEN "MD_REJECTED" ELSE booking[b].form
             row == [booking[b] EXCEPT !.status = "CANCELLED", !.form = f]
  <2>3. booking' = [booking EXCEPT ![b] = row]
    BY <1>3, <1>6, <2>2 DEF CommitCancel, BookingRow
  <2>4. row \in BookingRow
    BY <1>3, <2>2 DEF BookingRow, Status, Form
  <2>5. row.status # "ABSENT" /\ row.item = booking[b].item
    BY <1>3, <2>2 DEF BookingRow
  <2> HIDE DEF row
  <2> QED
    BY <1>2, <2>2, <2>3, <2>4, <2>5
<1> QED
  BY <1>1, <1>4, <1>5, <1>6
  DEF BookingStep, ExtendLock, RecordPayment, ReadForApprovedConfirm, ApprovedConfirmRefused,
      BeginTx, RollbackTx, rows

LEMMA BookingRowsStep ==
  ASSUME TypeOK, BookingsHaveItems, RequestsFounded, SweepFounded, [Next]_vars
  PROVE  /\ booking' \in [BookingIds -> BookingRow]
         /\ BookingsGrow
         /\ BookingsHaveItems'
<1>1. CASE UNCHANGED booking
  BY <1>1 DEF TypeOK, BookingsGrow, BookingsHaveItems
<1>2. CASE ClaimStep
  <2>1. PICK b \in BookingIds, i \in Items, f \in Form, u \in LockTime : Claim(b, i, f, u)
    BY <1>2 DEF ClaimStep, CreateBooking, InitiateBooking, Form, LockTime
  <2> QED
    BY <2>1 DEF Claim, TypeOK, BookingRow, Status, Undecided, BookingsGrow, BookingsHaveItems
<1>3. ASSUME NEW p \in Procs, BookingStep(p)
      PROVE  /\ booking' \in [BookingIds -> BookingRow]
             /\ BookingsGrow
             /\ BookingsHaveItems'
  BY <1>3, BookingWrites
<1>4. CASE SweepCommitRow
  <2>1. CASE sweep.tx.verdict = "CANCEL"
    <3>1. sweep.tx.by \in BookingIds /\ booking[sweep.tx.by].status # "ABSENT"
      BY <2>1 DEF SweepFounded
    <3>2. booking' = [booking EXCEPT ![sweep.tx.by].status = "CANCELLED"]
      BY <1>4, <2>1 DEF SweepCommitRow
    <3> QED
      BY <2>1, <3>1, <3>2 DEF TypeOK, BookingRow, Status, BookingsGrow, BookingsHaveItems
  <2> QED
    BY <1>1, <1>4, <2>1 DEF SweepCommitRow
<1>5. CASE \E p \in Procs : ReadStep(p)
  <2>1. PICK p \in Procs : \E r : NewRequest(r) /\ Start(p, r)
    BY <1>5, ReadMakesNewRequest
  <2> QED
    BY <1>1, <2>1 DEF Start, rows
<1> QED
  BY <1>1, <1>2, <1>3, <1>4, <1>5
  DEF Next, Step, SweepStep, SweepList, SweepBeginRow, SweepAbort, SweepReleaseHolds, AdminStep,
      SetStatus, EditUnit, Archive, Environment, LockExpires, HoldExpires, PaymentFailed,
      Crash, rows, vars

LEMMA RequestsFoundedStep ==
  ASSUME TypeOK, BookingsHaveItems, RequestsFounded, SweepFounded, [Next]_vars
  PROVE  RequestsFounded'
<1> SUFFICES ASSUME NEW q \in Procs, proc'[q].op # "IDLE"
             PROVE  Founded(proc[q])'
  BY DEF RequestsFounded
<1>1. BookingsGrow
  BY BookingRowsStep
<1>2. Moves(q)
  BY RequestsMove
<1>3. proc[q] \in Request
  BY DEF TypeOK
<1>4. CASE /\ proc[q].op # "IDLE"
           /\ proc'[q].op = proc[q].op /\ proc'[q].b = proc[q].b /\ proc'[q].i = proc[q].i
  <2>1. Founded(proc[q])
    BY <1>4 DEF RequestsFounded
  <2> QED
    BY <1>1, <1>4, <2>1 DEF Founded, BookingsGrow
<1>5. CASE proc'[q] = Idle
  BY <1>5, IdleType
<1>6. CASE NewRequest(proc'[q]) /\ UNCHANGED rows
  BY <1>6 DEF NewRequest, Founded, rows
<1>7. CASE proc'[q] = proc[q]
  BY <1>4, <1>7
<1>8. CASE proc[q].op # "IDLE" /\ \E st \in Stage \ {"TX"} : proc'[q] = [proc[q] EXCEPT !.st = st]
  BY <1>3, <1>4, <1>8 DEF Request
<1>9. CASE proc[q].op # "IDLE" /\ proc'[q] = Snapshot(proc[q])
  BY <1>3, <1>4, <1>9 DEF Request, Snapshot
<1> QED
  BY <1>2, <1>5, <1>6, <1>7, <1>8, <1>9 DEF Moves, BookingOp

LEMMA SweepFoundedStep ==
  ASSUME TypeOK, BookingsHaveItems, RequestsFounded, SweepFounded, [Next]_vars
  PROVE  SweepFounded'
<1>1. BookingsGrow
  BY BookingRowsStep
<1>2. CASE UNCHANGED sweep
  BY <1>1, <1>2 DEF SweepFounded, BookingsGrow
<1>3. CASE sweep'.tx = NoTx
  BY <1>3 DEF SweepFounded, NoTx
<1>4. ASSUME NEW l \in sweep.locks, SweepBeginRow(l)
      PROVE  SweepFounded'
  <2>1. l.by \in BookingIds \cup {None}
    BY DEF TypeOK, ListedLock
  <2>2. sweep'.tx = [i |-> l.i, by |-> l.by, verdict |-> Decide(l.by)] /\ booking' = booking
    BY <1>4 DEF SweepBeginRow, TypeOK, rows
  <2>3. Decide(l.by) = "CANCEL" => l.by \in BookingIds /\ booking[l.by].status # "ABSENT"
    BY <2>1 DEF Decide, Undecided
  <2> QED
    BY <2>2, <2>3 DEF SweepFounded
<1>5. CASE SweepStep
  BY <1>3, <1>4, <1>5
  DEF SweepStep, SweepList, SweepCommitRow, SweepAbort, SweepReleaseHolds, NoSweep, TypeOK
<1>6. CASE ClaimStep
  BY <1>2, <1>6 DEF ClaimStep, CreateBooking, InitiateBooking, Claim
<1>7. CASE \E p \in Procs : ReadStep(p)
  <2>1. PICK p \in Procs : \E r : NewRequest(r) /\ Start(p, r)
    BY <1>7, ReadMakesNewRequest
  <2> QED
    BY <1>2, <2>1 DEF Start
<1>8. CASE \E p \in Procs : BookingStep(p) \/ AdminStep(p)
  BY <1>2, <1>8
  DEF BookingStep, AdminStep, WriteStatus, SubmitForm, ExtendLock, RecordPayment, ApproveForm,
      ReadForApprovedConfirm, ApprovedConfirmRefused, RevertForm, BeginTx, CommitConfirm,
      CommitCancel, RollbackTx, SetStatus, EditUnit, Archive
<1>9. CASE Environment
  BY <1>2, <1>3, <1>9 DEF Environment, LockExpires, HoldExpires, PaymentFailed, Crash, NoSweep
<1>10. CASE UNCHANGED vars
  BY <1>2, <1>10 DEF vars
<1> QED
  BY <1>5, <1>6, <1>7, <1>8, <1>9, <1>10 DEF Next, Step

LEMMA RequestTypes ==
  ASSUME TypeOK, BookingsHaveItems, RequestsFounded, SweepFounded, [Next]_vars
  PROVE  proc' \in [Procs -> Request]
<1>1. proc \in [Procs -> Request]
  BY DEF TypeOK
<1>2. proc' = [q \in Procs |-> proc'[q]]
  <2>1. CASE \E p \in Procs : ReadStep(p)
    BY <1>1, <2>1, ReadMakesNewRequest DEF Start
  <2>2. CASE \E p \in Procs : BookingStep(p) \/ AdminStep(p)
    BY <1>1, <2>2
    DEF BookingStep, AdminStep, WriteStatus, SubmitForm, ExtendLock, RecordPayment, ApproveForm,
        ReadForApprovedConfirm, ApprovedConfirmRefused, RevertForm, BeginTx, CommitConfirm,
        CommitCancel, RollbackTx, SetStatus, EditUnit, Archive, Advance, Finish
  <2>3. CASE ClaimStep \/ SweepStep \/ Environment \/ UNCHANGED vars
    BY <1>1, <2>3
    DEF ClaimStep, CreateBooking, InitiateBooking, Claim, SweepStep, SweepList, SweepBeginRow,
        SweepCommitRow, SweepAbort, SweepReleaseHolds, Environment, LockExpires, HoldExpires,
        PaymentFailed, Crash, vars
  <2> QED
    BY <2>1, <2>2, <2>3 DEF Next, Step
<1>3. ASSUME NEW q \in Procs
      PROVE  proc'[q] \in Request
  <2>1. Moves(q)
    BY RequestsMove
  <2>2. proc[q] \in Request
    BY <1>1
  <2>3. CASE \E st \in Stage \ {"TX"} : proc'[q] = [proc[q] EXCEPT !.st = st]
    BY <2>2, <2>3 DEF Request
  <2>4. CASE proc[q].op \in BookingOp /\ proc'[q] = Snapshot(proc[q])
    <3> DEFINE r == proc[q]
    <3>1. r.i \in Items /\ r.b \in BookingIds
      BY <2>4, InFlight
    <3>2. /\ item[r.i].state \in ItemState
          /\ item[r.i].by \in BookingIds \cup {None}
      BY <3>1 DEF TypeOK, ItemRow
    <3>3. mapped[r.b] \in BOOLEAN
      BY <3>1 DEF TypeOK
    <3> QED
      BY <2>2, <2>4, <3>2, <3>3 DEF Snapshot, Request, Stage
  <2> QED
    BY <2>1, <2>2, <2>3, <2>4, IdleType DEF Moves, NewRequest
<1> QED
  BY <1>2, <1>3

LEMMA ItemTypes ==
  ASSUME TypeOK, BookingsHaveItems, RequestsFounded, SweepFounded, [Next]_vars
  PROVE  item' \in [Items -> ItemRow]
<1>0. item \in [Items -> ItemRow] /\ \A i \in Items : item[i] \in ItemRow
  BY DEF TypeOK
<1>1. ASSUME NEW i, NEW row, i \in Items => row \in ItemRow,
             item' = [item EXCEPT ![i] = row]
      PROVE  item' \in [Items -> ItemRow]
  BY <1>0, <1>1
<1>2. CASE UNCHANGED item
  BY <1>0, <1>2
<1>3. CASE ClaimStep
  <2>1. PICK b \in BookingIds, i \in Items, f \in Form, u \in LockTime : Claim(b, i, f, u)
    BY <1>3 DEF ClaimStep, CreateBooking, InitiateBooking, Form, LockTime
  <2>2. ClaimedRow(item[i], b, u) \in ItemRow
    BY <1>0, <2>1, RowTypes
  <2> QED
    BY <1>1, <2>1, <2>2 DEF Claim
<1>4. CASE \E p \in Procs : ReadStep(p)
  BY <1>2, <1>4, ReadMakesNewRequest DEF Start, rows
<1>5. ASSUME NEW p \in Procs, BookingStep(p)
      PROVE  item' \in [Items -> ItemRow]
  <2> DEFINE i == proc[p].i
  <2>1. CASE ExtendLock(p)
    BY <1>0, <2>1 DEF ExtendLock, ItemRow, LockTime
  <2>2. CASE CommitConfirm(p)
    <3>1. proc[p].b \in BookingIds
      BY <2>2, InFlight DEF CommitConfirm, Op, BookingOp, AdminOp
    <3>2. item' = [item EXCEPT ![i] = [@ EXCEPT !.state = "BOOKED", !.by = proc[p].b]]
      BY <1>0, <2>2 DEF CommitConfirm, ItemRow
    <3> QED
      BY <1>0, <3>1, <3>2 DEF ItemRow, ItemState
  <2>3. CASE CommitCancel(p)
    <3>1. i \in Items
      BY <2>3, InFlight DEF CommitCancel, Op, BookingOp, AdminOp
    <3>2. ReleasedRow(item[i]) \in ItemRow
      BY <1>0, <3>1, RowTypes
    <3>3. item' \in {item, [item EXCEPT ![i] = ReleasedRow(item[i])]}
      BY <1>0, <2>3, <3>1 DEF CommitCancel
    <3> QED
      BY <1>0, <1>1, <3>2, <3>3
  <2> QED
    BY <1>2, <1>5, <2>1, <2>2, <2>3
    DEF BookingStep, WriteStatus, SubmitForm, RecordPayment, ApproveForm, rows,
        ReadForApprovedConfirm, ApprovedConfirmRefused, RevertForm, BeginTx, RollbackTx
<1>6. ASSUME NEW p \in Procs, AdminStep(p)
      PROVE  item' \in [Items -> ItemRow]
  <2>1. proc[p].state \in ItemState
    BY DEF TypeOK, Request
  <2>2. CASE SetStatus(p)
    <3>1. PICK h \in HoldTime : item' = [item EXCEPT ![proc[p].i].state = proc[p].state,
                                                     ![proc[p].i].hold = h]
      BY <2>2 DEF SetStatus, HoldTime
    <3>2. item' = [item EXCEPT ![proc[p].i] = [@ EXCEPT !.state = proc[p].state, !.hold = h]]
      BY <1>0, <3>1 DEF ItemRow
    <3> QED
      BY <1>0, <2>1, <3>2 DEF ItemRow
  <2>3. CASE EditUnit(p) \/ Archive(p)
    BY <1>0, <2>1, <2>3 DEF EditUnit, Archive, ItemRow, ItemState
  <2> QED
    BY <1>6, <2>2, <2>3 DEF AdminStep
<1>7. CASE SweepCommitRow
  <2> DEFINE t == sweep.tx
  <2>1. t.i \in Items
    BY <1>7 DEF SweepCommitRow, TypeOK, RowTx
  <2>2. KeptRow(item[t.i]) \in ItemRow /\ ReleasedRow(item[t.i]) \in ItemRow
    BY <1>0, <2>1, RowTypes
  <2> QED
    BY <1>0, <1>7, <2>2 DEF SweepCommitRow
<1>8. CASE SweepReleaseHolds
  <2>1. \A i \in Items : FreedHold(item[i]) \in ItemRow
    BY <1>0, RowTypes
  <2> QED
    BY <1>0, <1>8, <2>1 DEF SweepReleaseHolds
<1>9. CASE Environment
  <2>1. ASSUME NEW i \in Items, LockExpires(i) \/ HoldExpires(i)
        PROVE  item' \in [Items -> ItemRow]
    BY <1>0, <2>1 DEF LockExpires, HoldExpires, ItemRow, LockTime, HoldTime
  <2> QED
    BY <1>2, <1>9, <2>1 DEF Environment, PaymentFailed, Crash, rows
<1> QED
  BY <1>2, <1>3, <1>4, <1>5, <1>6, <1>7, <1>8, <1>9
  DEF Next, Step, SweepStep, SweepList, SweepBeginRow, SweepAbort, rows, vars

LEMMA SweepTypes ==
  ASSUME TypeOK, BookingsHaveItems, RequestsFounded, SweepFounded, [Next]_vars
  PROVE  sweep' \in [on : BOOLEAN, locks : SUBSET ListedLock, holds : SUBSET Items,
                     tx : RowTx \cup {NoTx}]
<1> DEFINE Sweeps == [on : BOOLEAN, locks : SUBSET ListedLock, holds : SUBSET Items,
                      tx : RowTx \cup {NoTx}]
<1>0. sweep \in Sweeps
  BY DEF TypeOK
<1>1. NoSweep \in Sweeps
  BY DEF NoSweep
<1>2. CASE SweepList
  <2>1. {[i |-> i, by |-> item[i].by] : i \in ExpiredLocks} \subseteq ListedLock
    BY DEF TypeOK, ItemRow, ExpiredLocks, ListedLock
  <2>2. ExpiredHolds \subseteq Items
    BY BookingsAssumption DEF ExpiredHolds
  <2> QED
    BY <1>2, <2>1, <2>2 DEF SweepList
<1>3. ASSUME NEW l \in sweep.locks, SweepBeginRow(l)
      PROVE  sweep' \in Sweeps
  <2>1. l.i \in Items /\ l.by \in BookingIds \cup {None}
    BY <1>0 DEF ListedLock
  <2>2. [i |-> l.i, by |-> l.by, verdict |-> Decide(l.by)] \in RowTx
    BY <2>1 DEF Decide, Verdict, RowTx
  <2> QED
    BY <1>0, <1>3, <2>2 DEF SweepBeginRow
<1>4. CASE SweepCommitRow
  BY <1>0, <1>4 DEF SweepCommitRow
<1>5. CASE sweep' = NoSweep \/ UNCHANGED sweep
  BY <1>0, <1>1, <1>5
<1>6. CASE \E p \in Procs : ReadStep(p)
  BY <1>5, <1>6, ReadMakesNewRequest DEF Start
<1>7. CASE \E p \in Procs : BookingStep(p) \/ AdminStep(p)
  BY <1>5, <1>7
  DEF BookingStep, AdminStep, WriteStatus, SubmitForm, ExtendLock, RecordPayment, ApproveForm,
      ReadForApprovedConfirm, ApprovedConfirmRefused, RevertForm, BeginTx, CommitConfirm,
      CommitCancel, RollbackTx, SetStatus, EditUnit, Archive
<1>8. CASE ClaimStep \/ Environment \/ UNCHANGED vars
  BY <1>5, <1>8
  DEF ClaimStep, CreateBooking, InitiateBooking, Claim, Environment, LockExpires, HoldExpires,
      PaymentFailed, Crash, vars
<1> QED
  BY <1>2, <1>3, <1>4, <1>5, <1>6, <1>7, <1>8 DEF Next, Step, SweepStep, SweepAbort, SweepReleaseHolds

LEMMA StepTypes ==
  ASSUME TypeOK, BookingsHaveItems, RequestsFounded, SweepFounded, [Next]_vars
  PROVE  TypeOK'
<1>1. booking' \in [BookingIds -> BookingRow]
  BY BookingRowsStep
<1>2. /\ money' \in [BookingIds -> BOOLEAN]
      /\ mapped' \in [BookingIds -> BOOLEAN]
      /\ handoffs' \in [BookingIds -> Nat]
      /\ crashes' \in 0 .. MaxCrashes
  <2>0. /\ money \in [BookingIds -> BOOLEAN]
        /\ mapped \in [BookingIds -> BOOLEAN]
        /\ handoffs \in [BookingIds -> Nat]
        /\ crashes \in 0 .. MaxCrashes
    BY DEF TypeOK
  <2>1. CASE UNCHANGED <<money, mapped, handoffs, crashes>>
    BY <2>0, <2>1
  <2>2. CASE \E p \in Procs : CommitConfirm(p) \/ RecordPayment(p)
    <3>1. ASSUME NEW p \in Procs, CommitConfirm(p)
          PROVE  /\ mapped' \in [BookingIds -> BOOLEAN]
                 /\ handoffs' \in [BookingIds -> Nat]
                 /\ UNCHANGED <<money, crashes>>
      <4>1. mapped' \in [BookingIds -> BOOLEAN]
        BY <2>0, <3>1 DEF CommitConfirm
      <4> DEFINE b == proc[p].b
                 n == IF proc[p].mapped THEN handoffs[b] ELSE handoffs[b] + 1
      <4>2. handoffs' = [handoffs EXCEPT ![b] = n] /\ (b \in BookingIds => n \in Nat)
        BY <2>0, <3>1 DEF CommitConfirm
      <4> HIDE DEF n
      <4>3. handoffs' \in [BookingIds -> Nat]
        BY <2>0, <4>2
      <4> QED
        BY <3>1, <4>1, <4>3 DEF CommitConfirm
    <3>2. ASSUME NEW p \in Procs, RecordPayment(p)
          PROVE  /\ money' \in [BookingIds -> BOOLEAN]
                 /\ UNCHANGED <<mapped, handoffs, crashes>>
      BY <2>0, <3>2 DEF RecordPayment
    <3> QED
      BY <2>0, <2>2, <3>1, <3>2
  <2>3. CASE Environment
    <3>1. CASE Crash
      <4>1. crashes' \in 0 .. MaxCrashes
        BY <2>0, <3>1, BookingsAssumption DEF Crash
      <4> QED
        BY <2>0, <3>1, <4>1 DEF Crash, rows
    <3>2. CASE \E b \in BookingIds : PaymentFailed(b)
      BY <2>0, <3>2 DEF PaymentFailed
    <3> QED
      BY <2>1, <2>3, <3>1, <3>2 DEF Environment, LockExpires, HoldExpires
  <2>4. CASE \E p \in Procs : ReadStep(p)
    BY <2>1, <2>4, ReadMakesNewRequest DEF Start, rows
  <2>5. CASE \E p \in Procs : BookingStep(p) \/ AdminStep(p)
    BY <2>1, <2>2, <2>5
    DEF BookingStep, AdminStep, WriteStatus, SubmitForm, ExtendLock, ApproveForm, rows,
        ReadForApprovedConfirm, ApprovedConfirmRefused, RevertForm, BeginTx,
        CommitCancel, RollbackTx, SetStatus, EditUnit, Archive
  <2>6. CASE ClaimStep \/ SweepStep \/ UNCHANGED vars
    BY <2>1, <2>6
    DEF ClaimStep, CreateBooking, InitiateBooking, Claim, SweepStep, SweepList, SweepBeginRow,
        SweepCommitRow, SweepAbort, SweepReleaseHolds, rows, vars
  <2> QED
    BY <2>3, <2>4, <2>5, <2>6 DEF Next, Step
<1>3. overtaken' \subseteq Items
  BY DEF Next, Overtakes, TypeOK, vars
<1> QED
  BY <1>1, <1>2, <1>3, RequestTypes, ItemTypes, SweepTypes DEF TypeOK

-----------------------------------------------------------------------------
LEMMA InitWellFormed == Init => WellFormed
<1> SUFFICES ASSUME Init
             PROVE  WellFormed
  OBVIOUS
<1>1. TypeOK
  BY IdleType, BookingsAssumption
  DEF Init, TypeOK, ItemRow, ItemState, LockTime, HoldTime, BookingRow, Status, Form,
      Undecided, Confirmed, NoSweep
<1>2. BookingsHaveItems /\ RequestsFounded
  BY IdleType DEF Init, BookingsHaveItems, RequestsFounded
<1>3. SweepFounded
  BY DEF Init, NoSweep, NoTx, SweepFounded
<1> QED
  BY <1>1, <1>2, <1>3 DEF WellFormed

LEMMA WellFormedStep == WellFormed /\ [Next]_vars => WellFormed'
  BY StepTypes, BookingRowsStep, RequestsFoundedStep, SweepFoundedStep DEF WellFormed

LEMMA AlwaysWellFormed == Spec => []WellFormed
  BY InitWellFormed, WellFormedStep, PTL DEF Spec

\* Every row, every request in flight and the sweep's list keep their types,
\* whatever requests overlap and wherever the process dies.
THEOREM TypeCorrect == Spec => []TypeOK
<1>1. WellFormed => TypeOK
  BY DEF WellFormed
<1> QED
  BY <1>1, AlwaysWellFormed, PTL

-----------------------------------------------------------------------------
(* The handoff.  A confirming transaction that saw no mapping inserts the    *)
(* event and the mapping, and the unique key refuses it when another one    *)
(* has inserted it since; one that saw a mapping inserts neither, and what  *)
(* it saw is still there.  COMPLETED needs a booking read as CONFIRMED.     *)

\* Only a confirmation changes a mapping or counts a handoff.
LEMMA HandoffWrites ==
  ASSUME WellFormed, [Next]_vars
  PROVE  \/ UNCHANGED <<mapped, handoffs>>
         \/ \E p \in Procs : CommitConfirm(p)
<1>1. CASE \E p \in Procs : ReadStep(p)
  BY <1>1, ReadMakesNewRequest DEF Start, rows, WellFormed
<1>2. CASE \E p \in Procs : BookingStep(p) \/ AdminStep(p)
  BY <1>2
  DEF BookingStep, AdminStep, WriteStatus, SubmitForm, ExtendLock, RecordPayment, ApproveForm,
      ReadForApprovedConfirm, ApprovedConfirmRefused, RevertForm, BeginTx, rows,
      CommitCancel, RollbackTx, SetStatus, EditUnit, Archive
<1>3. CASE ClaimStep \/ SweepStep \/ Environment \/ UNCHANGED vars
  BY <1>3
  DEF ClaimStep, CreateBooking, InitiateBooking, Claim, SweepStep, SweepList, SweepBeginRow,
      SweepCommitRow, SweepAbort, SweepReleaseHolds, Environment, LockExpires, HoldExpires,
      PaymentFailed, Crash, rows, vars
<1> QED
  BY <1>1, <1>2, <1>3 DEF Next, Step

\* The booking a confirmation writes, and that it ends with a mapping.
LEMMA ConfirmWrites ==
  ASSUME WellFormed, NEW p \in Procs, CommitConfirm(p)
  PROVE  /\ proc[p].b \in BookingIds
         /\ proc[p].st = "TX"
         /\ mapped[proc[p].b] => proc[p].mapped
         /\ mapped' = [mapped EXCEPT ![proc[p].b] = TRUE]
         /\ handoffs' = [handoffs EXCEPT
                           ![proc[p].b] = IF proc[p].mapped THEN @ ELSE @ + 1]
<1>1. proc[p].op \in BookingOp
  BY DEF CommitConfirm, Op, BookingOp, AdminOp
<1> QED
  BY <1>1, InFlight DEF WellFormed, CommitConfirm, MappingInsertable

LEMMA MappingsStay ==
  ASSUME WellFormed, [Next]_vars, NEW b \in BookingIds, mapped[b]
  PROVE  mapped'[b]
<1>1. mapped \in [BookingIds -> BOOLEAN]
  BY DEF WellFormed, TypeOK
<1> QED
  BY <1>1, HandoffWrites, ConfirmWrites

LEMMA SeenMappedStep ==
  ASSUME IInv, [Next]_vars
  PROVE  SeenMapped'
<1> USE DEF IInv, WellFormed
<1> DEFINE Seen(r) == /\ r.st = "TX" /\ r.mapped => mapped'[r.b]
                      /\ r.op = "COMPLETE" => mapped'[r.b]
<1> SUFFICES ASSUME NEW q \in Procs, proc'[q].op \in BookingOp
             PROVE  Seen(proc'[q])
  BY DEF SeenMapped
<1>1. Moves(q)
  BY RequestsMove
<1>2. proc[q] \in Request
  BY DEF TypeOK
<1>3. \A b \in BookingIds : mapped[b] => mapped'[b]
  BY MappingsStay
<1>4. CASE proc'[q] = Idle
  BY <1>4, IdleType DEF BookingOp
<1>5. CASE NewRequest(proc'[q]) /\ UNCHANGED rows
  <2>1. proc'[q].b \in BookingIds
    BY <1>5 DEF NewRequest, Founded, BookingOp
  <2> QED
    BY <1>5, <2>1 DEF NewRequest, HandoffExactlyOnce, Confirmed, rows
<1>6. ASSUME proc[q].op \in BookingOp
      PROVE  proc[q].b \in BookingIds /\ Seen(proc[q])
  BY <1>3, <1>6, InFlight DEF SeenMapped
<1>7. CASE proc'[q] = proc[q]
  BY <1>6, <1>7
<1>8. CASE \E st \in Stage \ {"TX"} : proc'[q] = [proc[q] EXCEPT !.st = st]
  BY <1>2, <1>6, <1>8 DEF Request
<1>9. CASE /\ proc[q].op \in BookingOp
           /\ proc'[q] = Snapshot(proc[q])
           /\ UNCHANGED rows
  BY <1>2, <1>6, <1>9 DEF Request, Snapshot, rows
<1> QED
  BY <1>1, <1>4, <1>5, <1>7, <1>8, <1>9 DEF Moves

\* Without a confirmation a booking becomes confirmed only by COMPLETED, whose
\* booking was read as confirmed.
LEMMA NewlyConfirmed ==
  ASSUME WellFormed, SeenMapped, [Next]_vars, ~ \E p \in Procs : CommitConfirm(p),
         NEW b \in BookingIds, booking'[b].status \in Confirmed
  PROVE  booking[b].status \in Confirmed \/ mapped[b]
<1> USE DEF WellFormed
<1>1. CASE booking'[b].status = booking[b].status
  BY <1>1
<1>2. booking \in [BookingIds -> BookingRow]
  BY DEF TypeOK
<1>3. ASSUME NEW p \in Procs, WriteStatus(p)
      PROVE  booking[b].status \in Confirmed \/ mapped[b]
  <2>1. CASE proc[p].op = "COMPLETE"
    BY <1>1, <1>2, <1>3, <2>1
    DEF WriteStatus, SeenMapped, BookingRow, BookingOp, Op, AdminOp
  <2>2. CASE proc[p].op = "TOKEN"
    BY <1>1, <1>2, <1>3, <2>2 DEF WriteStatus, BookingRow, Confirmed
  <2> QED
    BY <1>3, <2>1, <2>2 DEF WriteStatus
<1>4. CASE \E p \in Procs : SubmitForm(p) \/ ApproveForm(p) \/ RevertForm(p)
  BY <1>1, <1>2, <1>4 DEF SubmitForm, ApproveForm, RevertForm, BookingRow
<1>5. CASE \E p \in Procs : CommitCancel(p)
  BY <1>1, <1>2, <1>5 DEF CommitCancel, BookingRow, Confirmed
<1>6. CASE SweepStep
  BY <1>1, <1>2, <1>6
  DEF SweepStep, SweepList, SweepBeginRow, SweepCommitRow, SweepAbort, SweepReleaseHolds,
      BookingRow, Confirmed, rows
<1>7. CASE \E p \in Procs : ReadStep(p)
  BY <1>1, <1>7, ReadMakesNewRequest DEF Start, rows
<1>8. CASE ClaimStep
  BY <1>1, <1>2, <1>8
  DEF ClaimStep, CreateBooking, InitiateBooking, Claim, BookingRow, Confirmed
<1>9. CASE Environment \/ UNCHANGED vars \/ \E p \in Procs : AdminStep(p)
  BY <1>1, <1>9
  DEF Environment, LockExpires, HoldExpires, PaymentFailed, Crash, AdminStep, SetStatus,
      EditUnit, Archive, rows, vars
<1> QED
  BY <1>1, <1>3, <1>4, <1>5, <1>6, <1>7, <1>8, <1>9
  DEF Next, Step, BookingStep, ExtendLock, RecordPayment, ReadForApprovedConfirm,
      ApprovedConfirmRefused, BeginTx, RollbackTx, rows

LEMMA HandoffStep ==
  ASSUME IInv, [Next]_vars
  PROVE  HandoffExactlyOnce'
<1> USE DEF IInv, WellFormed
<1>1. CASE \E p \in Procs : CommitConfirm(p)
  <2>1. PICK p \in Procs : CommitConfirm(p)
    BY <1>1
  <2> DEFINE b == proc[p].b
  <2>2. proc[p].op \in BookingOp
    BY <2>1 DEF CommitConfirm, Op, BookingOp, AdminOp
  <2>3. b \in BookingIds /\ (mapped[b] <=> proc[p].mapped)
    BY <2>1, <2>2, ConfirmWrites DEF SeenMapped
  <2>4. booking' = [booking EXCEPT ![b].status = "CONFIRMED"]
    BY <2>1 DEF CommitConfirm
  <2>5. ASSUME NEW c \in BookingIds
        PROVE  handoffs'[c] = IF mapped'[c] THEN 1 ELSE 0
    BY <2>1, <2>3, ConfirmWrites DEF HandoffExactlyOnce, TypeOK
  <2>6. ASSUME NEW c \in BookingIds, booking'[c].status \in Confirmed
        PROVE  mapped'[c]
    BY <2>1, <2>3, <2>4, <2>6, ConfirmWrites DEF HandoffExactlyOnce, TypeOK, BookingRow
  <2> QED
    BY <2>5, <2>6 DEF HandoffExactlyOnce
<1>2. CASE /\ UNCHANGED <<mapped, handoffs>>
           /\ \A b \in BookingIds : booking'[b].status \in Confirmed =>
                booking[b].status \in Confirmed \/ mapped[b]
  BY <1>2 DEF HandoffExactlyOnce
<1>3. CASE ~ \E p \in Procs : CommitConfirm(p)
  <2>1. UNCHANGED <<mapped, handoffs>>
    BY <1>3, HandoffWrites
  <2>2. ASSUME NEW b \in BookingIds, booking'[b].status \in Confirmed
        PROVE  booking[b].status \in Confirmed \/ mapped[b]
    BY <1>3, <2>2, NewlyConfirmed
  <2> QED
    BY <1>2, <2>1, <2>2
<1> QED
  BY <1>1, <1>3

\* However requests, the sweep and crashes interleave, a booking is handed to
\* the portal exactly once if it was ever confirmed, and otherwise never.
THEOREM HandoffCorrect == Spec => []HandoffExactlyOnce
<1>1. Init => IInv
  BY InitWellFormed
  DEF Init, IInv, SeenMapped, HandoffExactlyOnce, Idle, Confirmed, BookingOp
<1>2. IInv /\ [Next]_vars => IInv'
  BY WellFormedStep, SeenMappedStep, HandoffStep DEF IInv
<1>3. IInv => HandoffExactlyOnce
  BY DEF IInv
<1> QED
  BY <1>1, <1>2, <1>3, PTL DEF Spec
-----------------------------------------------------------------------------
(* The MD's approval.  A form becomes MD_APPROVED only in a request that    *)
(* then either confirms the booking, which inserts its mapping, or puts the *)
(* form back; nothing else ends that request but a crash.                   *)

Approving(b) == \E p \in Procs : proc[p].op = "APPROVE" /\ proc[p].b = b

LEMMA ApprovalEnds ==
  ASSUME WellFormed, [Next]_vars, crashes' = 0, NEW p \in Procs, proc[p].op = "APPROVE"
  PROVE  \/ proc'[p].op = "APPROVE" /\ proc'[p].b = proc[p].b
         \/ mapped'[proc[p].b]
         \/ booking'[proc[p].b].form = "SUBMITTED"
<1> USE DEF WellFormed
<1>0. /\ proc \in [Procs -> Request] /\ booking \in [BookingIds -> BookingRow]
      /\ mapped \in [BookingIds -> BOOLEAN]
      /\ crashes \in Nat
      /\ proc[p] # Idle /\ proc[p].b \in BookingIds
  BY InFlight, IdleType DEF TypeOK, BookingOp, Op, AdminOp
<1>1. CASE proc'[p] = proc[p]
  BY <1>1
<1>2. CASE \E q \in Procs : ReadStep(q)
  BY <1>0, <1>1, <1>2, ReadMakesNewRequest DEF Start
<1>3. ASSUME NEW q \in Procs, BookingStep(q) \/ AdminStep(q)
      PROVE  \/ proc'[p].op = "APPROVE" /\ proc'[p].b = proc[p].b
             \/ mapped'[proc[p].b]
             \/ booking'[proc[p].b].form = "SUBMITTED"
  <2>1. CASE q # p
    BY <1>0, <1>1, <1>3, <2>1
    DEF BookingStep, AdminStep, WriteStatus, SubmitForm, ExtendLock, RecordPayment, ApproveForm,
        ReadForApprovedConfirm, ApprovedConfirmRefused, RevertForm, BeginTx, CommitConfirm,
        CommitCancel, RollbackTx, SetStatus, EditUnit, Archive, Finish, Advance
  <2>2. CASE q = p /\ \E st \in Stage : proc' = [proc EXCEPT ![p].st = st]
    BY <1>0, <2>2 DEF Request
  <2>3. CASE q = p /\ BeginTx(p)
    BY <1>0, <2>3 DEF BeginTx, Snapshot, Request
  <2>4. CASE q = p /\ CommitConfirm(p)
    BY <1>0, <2>4 DEF CommitConfirm
  <2>5. CASE q = p /\ RevertForm(p)
    BY <1>0, <2>5 DEF RevertForm, BookingRow
  <2>6. CASE q = p /\ (ApproveForm(p) \/ ReadForApprovedConfirm(p) \/ ApprovedConfirmRefused(p)
                       \/ RollbackTx(p))
    BY <2>2, <2>6 DEF ApproveForm, ReadForApprovedConfirm, ApprovedConfirmRefused, RollbackTx,
                      Advance, Stage
  <2>7. ~(\/ WriteStatus(p) \/ SubmitForm(p) \/ ExtendLock(p) \/ RecordPayment(p)
          \/ CommitCancel(p) \/ SetStatus(p) \/ EditUnit(p) \/ Archive(p))
    BY DEF WriteStatus, SubmitForm, ExtendLock, RecordPayment, CommitCancel, SetStatus, EditUnit,
           Archive
  <2> QED
    BY <1>3, <2>1, <2>3, <2>4, <2>5, <2>6, <2>7 DEF BookingStep, AdminStep
<1>4. CASE ClaimStep \/ SweepStep \/ Environment \/ UNCHANGED vars
  <2>1. CASE Crash
    BY <1>0, <2>1 DEF Crash
  <2>2. CASE \E l \in sweep.locks : SweepBeginRow(l)
    BY <1>1, <2>2 DEF SweepBeginRow
  <2> QED
    BY <1>1, <1>4, <2>1, <2>2
    DEF ClaimStep, CreateBooking, InitiateBooking, Claim, SweepStep, SweepList, SweepCommitRow,
        SweepAbort, SweepReleaseHolds, Environment, LockExpires, HoldExpires, PaymentFailed, vars
<1> QED
  BY <1>2, <1>3, <1>4 DEF Next, Step

LEMMA NewlyApproved ==
  ASSUME WellFormed, [Next]_vars, NEW b \in BookingIds, booking'[b].form = "MD_APPROVED"
  PROVE  \/ booking[b].form = "MD_APPROVED"
         \/ Approving(b)'
<1> USE DEF WellFormed
<1>0. proc \in [Procs -> Request] /\ booking \in [BookingIds -> BookingRow]
  BY DEF TypeOK
<1>1. CASE booking'[b].form = booking[b].form
  BY <1>1
<1>2. CASE \E p \in Procs : ReadStep(p)
  BY <1>1, <1>2, ReadMakesNewRequest DEF Start, rows
<1>3. ASSUME NEW p \in Procs, BookingStep(p)
      PROVE  booking[b].form = "MD_APPROVED" \/ Approving(b)'
  <2>1. CASE ApproveForm(p) /\ proc[p].b = b
    <3>1. proc'[p].op = "APPROVE" /\ proc'[p].b = b
      BY <1>0, <2>1 DEF ApproveForm, Advance, Request
    <3> QED
      BY <3>1 DEF Approving
  <2>2. CASE ApproveForm(p) /\ proc[p].b # b
    BY <1>0, <1>1, <2>2 DEF ApproveForm
  <2>3. CASE WriteStatus(p) \/ CommitConfirm(p)
    BY <1>0, <1>1, <2>3 DEF WriteStatus, CommitConfirm, BookingRow
  <2>4. CASE SubmitForm(p) \/ RevertForm(p)
    BY <1>0, <1>1, <2>4 DEF SubmitForm, RevertForm, BookingRow
  <2>5. CASE CommitCancel(p)
    BY <1>0, <1>1, <2>5 DEF CommitCancel, BookingRow
  <2> QED
    BY <1>1, <1>3, <2>1, <2>2, <2>3, <2>4, <2>5
    DEF BookingStep, ExtendLock, RecordPayment, ReadForApprovedConfirm,
        ApprovedConfirmRefused, BeginTx, RollbackTx, rows
<1>4. CASE ClaimStep
  BY <1>0, <1>1, <1>4 DEF ClaimStep, CreateBooking, InitiateBooking, Claim
<1>5. CASE SweepStep
  <2>1. CASE SweepCommitRow
    BY <1>0, <1>1, <2>1 DEF SweepCommitRow, BookingRow
  <2>2. CASE \E l \in sweep.locks : SweepBeginRow(l)
    BY <1>1, <2>2 DEF SweepBeginRow, rows
  <2> QED
    BY <1>1, <1>5, <2>1, <2>2 DEF SweepStep, SweepList, SweepAbort, SweepReleaseHolds, rows
<1>6. CASE Environment \/ UNCHANGED vars \/ \E p \in Procs : AdminStep(p)
  BY <1>1, <1>6
  DEF Environment, LockExpires, HoldExpires, PaymentFailed, Crash, AdminStep, SetStatus,
      EditUnit, Archive, rows, vars
<1> QED
  BY <1>2, <1>3, <1>4, <1>5, <1>6 DEF Next, Step

LEMMA CrashesCounted ==
  ASSUME WellFormed, [Next]_vars
  PROVE  crashes' \in {crashes, crashes + 1}
<1>1. CASE UNCHANGED crashes
  BY <1>1
<1>2. CASE \E p \in Procs : ReadStep(p)
  BY <1>1, <1>2, ReadMakesNewRequest DEF Start, WellFormed
<1>3. CASE \E p \in Procs : BookingStep(p) \/ AdminStep(p)
  BY <1>1, <1>3
  DEF BookingStep, AdminStep, WriteStatus, SubmitForm, ExtendLock, RecordPayment, ApproveForm,
      ReadForApprovedConfirm, ApprovedConfirmRefused, RevertForm, BeginTx, CommitConfirm,
      CommitCancel, RollbackTx, SetStatus, EditUnit, Archive
<1>4. CASE SweepStep
  <2>1. CASE \E l \in sweep.locks : SweepBeginRow(l)
    BY <1>1, <2>1 DEF SweepBeginRow
  <2> QED
    BY <1>1, <1>4, <2>1
    DEF SweepStep, SweepList, SweepCommitRow, SweepAbort, SweepReleaseHolds
<1>5. CASE ClaimStep \/ Environment \/ UNCHANGED vars
  BY <1>1, <1>5
  DEF ClaimStep, CreateBooking, InitiateBooking, Claim, Environment, LockExpires, HoldExpires,
      PaymentFailed, Crash, vars
<1> QED
  BY <1>2, <1>3, <1>4, <1>5 DEF Next, Step

LEMMA ApprovedFormStep ==
  ASSUME WellFormed, ApprovedFormIsConfirmed, [Next]_vars
  PROVE  ApprovedFormIsConfirmed'
<1> SUFFICES ASSUME crashes' = 0, NEW b \in BookingIds, booking'[b].form = "MD_APPROVED"
             PROVE  mapped'[b] \/ Approving(b)'
  BY DEF ApprovedFormIsConfirmed, Approving
<1>1. crashes = 0
  <2>1. crashes \in Nat
    BY DEF WellFormed, TypeOK
  <2>2. crashes' \in {crashes, crashes + 1}
    BY CrashesCounted
  <2> QED
    BY <2>1, <2>2
<1>2. CASE booking[b].form = "MD_APPROVED" /\ mapped[b]
  BY <1>2, MappingsStay
<1>3. ASSUME NEW p \in Procs, proc[p].op = "APPROVE", proc[p].b = b
      PROVE  mapped'[b] \/ Approving(b)'
  BY <1>3, ApprovalEnds DEF Approving
<1>4. CASE booking[b].form = "MD_APPROVED"
  BY <1>1, <1>2, <1>3, <1>4 DEF ApprovedFormIsConfirmed
<1> QED
  BY <1>4, NewlyApproved

\* As long as the process has not died, an approved form belongs to a booking
\* that was confirmed or whose approval is still running.
THEOREM ApprovalCorrect == Spec => []ApprovedFormIsConfirmed
<1>1. Init => ApprovedFormIsConfirmed
  BY DEF Init, ApprovedFormIsConfirmed
<1> QED
  BY <1>1, AlwaysWellFormed, ApprovedFormStep, PTL DEF Spec
-----------------------------------------------------------------------------
(* Until a reader of an item was overtaken, the item is sold once, its row  *)
(* agrees with its bookings, decisions stay, and the component implements   *)
(* Sales.                                                                   *)
(*                                                                          *)
(* The inductive invariant, item by item: whoever has read something of an  *)
(* intact item has read what is still true.  Nothing is claimed of the      *)
(* others, whose rows may be anything; so a step on one of those must be    *)
(* shown to leave every other item alone (Elsewhere).                       *)

\* The booking a lock names is one of the item, intact or not.
Owns(i, b) ==
    b # None => b \in BookingIds /\ booking[b].status # "ABSENT" /\ booking[b].item = i

OwnersFounded ==
    /\ \A i \in Items : Owns(i, item[i].by)
    /\ \A l \in sweep.locks : Owns(l.i, l.by)
    /\ Owns(sweep.tx.i, sweep.tx.by)

\* A booking that was never made is for no item.
BlankBookings == \A b \in BookingIds : booking[b].status = "ABSENT" => booking[b].item = None

\* What a request has read of its booking and of its item.
Fresh(r) ==
    /\ r.op = "TOKEN" => booking[r.b].status = "PENDING"
    /\ r.op = "COMPLETE" => booking[r.b].status = "CONFIRMED"
    /\ r.op = "CONFIRM" \/ (r.op = "APPROVE" /\ r.st \in {"CHECKED", "TX"})
          => booking[r.b].status \in Undecided
    /\ r.op = "CANCEL" =>
          /\ booking[r.b].status \notin {"ABSENT", "CANCELLED"}
          /\ booking[r.b].status \in Confirmed => r.md
    /\ r.op = "REJECT" => r.md
    /\ r.st = "TX" => r.state = item[r.i].state /\ r.by = item[r.i].by
    /\ r.op = "SET_STATUS" =>
          /\ r.state \in ManualState
          /\ IF r.state = "SOLD" THEN item[r.i].state = "BOOKED" ELSE item[r.i].by = None
    /\ r.op = "EDIT" => r.state = item[r.i].state
    /\ r.op = "ARCHIVE" => item[r.i].state \notin {"RESERVED", "BOOKED", "SOLD"}

RequestsFresh(i) ==
    \A p \in Procs : proc[p].op # "IDLE" /\ proc[p].i = i => Fresh(proc[p])

\* The lock is still the expired one the sweep has listed.
StillExpired(l) ==
    item[l.i].state = "RESERVED" /\ item[l.i].until = "PAST" /\ item[l.i].by = l.by

VerdictFresh(t) ==
    \/ t.verdict = "KEEP"
    \/ /\ t.verdict = "CANCEL"
       /\ booking[t.by].status = "PENDING"
       /\ booking[t.by].form # "SUBMITTED"
       /\ ~money[t.by]

SweepFresh(i) ==
    /\ \A l \in sweep.locks : l.i = i => StillExpired(l)
    /\ i \in sweep.holds => item[i].state = "HOLD"
    /\ sweep.tx.i = i => StillExpired(sweep.tx) /\ VerdictFresh(sweep.tx)

\* The conjuncts of RowsAgree and ConfirmedOwnsItem about one item.
RowAgrees(i) ==
    LET row == item[i]
        o   == item[i].by
    IN /\ row.state \in {"RESERVED", "BOOKED", "SOLD"} <=> o # None
       /\ o # None => booking[o].item = i
       /\ row.state = "RESERVED" => booking[o].status \in Undecided
       /\ row.state = "BOOKED" => booking[o].status \in Confirmed
       /\ row.state = "SOLD" => booking[o].status \in Confirmed \cup {"CANCELLED"}

ConfirmedOwns(i) ==
    \A b \in BookingIds :
        booking[b].item = i /\ booking[b].status \in Confirmed =>
            item[i].by = b /\ item[i].state \in {"BOOKED", "SOLD"}

\* Every lock has an end.
LockTimed(i) == item[i].state = "RESERVED" => item[i].until # "NULL"

RowSound(i) == RowAgrees(i) /\ ConfirmedOwns(i)

Sound(i) == RequestsFresh(i) /\ SweepFresh(i) /\ RowSound(i) /\ LockTimed(i)

Founding == WellFormed /\ OwnersFounded /\ BlankBookings

IntactInv == Founding /\ \A i \in Intact : Sound(i)

-----------------------------------------------------------------------------
(* The history: an item that is intact after a step was so before, and if   *)
(* anybody waits for it the step has not disturbed it.                      *)

LEMMA StillIntact ==
  ASSUME [Next]_vars, NEW i \in Intact'
  PROVE  /\ i \in Items /\ i \in Intact
         /\ Waits(i) => Undisturbed(i)
<1>1. CASE Next
  BY <1>1 DEF Next, Overtakes, Intact
<1>2. CASE UNCHANGED vars
  BY <1>2 DEF vars, Intact, Undisturbed
<1> QED
  BY <1>1, <1>2

-----------------------------------------------------------------------------
\* A request that goes on, or ends, without changing its item.
LEMMA RequestEndsOrAdvances ==
  ASSUME TypeOK, NEW p \in Procs, BookingStep(p) \/ AdminStep(p)
  PROVE  /\ UNCHANGED sweep
         /\ \A q \in Procs \ {p} : proc'[q] = proc[q]
         /\ \/ proc'[p] = Idle
            \/ proc'[p].op = proc[p].op /\ proc'[p].i = proc[p].i
<1>0. proc \in [Procs -> Request]
  BY DEF TypeOK
<1>1. CASE proc' = [proc EXCEPT ![p] = Idle] /\ UNCHANGED sweep
  BY <1>0, <1>1
<1>2. CASE (\E st \in Stage : proc' = [proc EXCEPT ![p].st = st]) /\ UNCHANGED sweep
  BY <1>0, <1>2 DEF Request
<1>3. CASE proc' = [proc EXCEPT ![p] = Snapshot(proc[p])] /\ UNCHANGED sweep
  BY <1>0, <1>3 DEF Request, Snapshot
<1>4. CASE BeginTx(p)
  BY <1>3, <1>4 DEF BeginTx
<1> QED
  BY <1>1, <1>2, <1>4
  DEF BookingStep, AdminStep, WriteStatus, SubmitForm, ExtendLock, RecordPayment, ApproveForm,
      ReadForApprovedConfirm, ApprovedConfirmRefused, RevertForm, CommitConfirm,
      CommitCancel, RollbackTx, SetStatus, EditUnit, Archive, Finish, Advance, Stage

-----------------------------------------------------------------------------
(* Owners and blank bookings, whoever overtakes whom.                       *)

LEMMA OwnsStays ==
  ASSUME BookingsGrow, NEW i, NEW b, Owns(i, b)
  PROVE  Owns(i, b)'
  BY DEF BookingsGrow, Owns

\* Who may become the owner of an item.
LEMMA NewOwner ==
  ASSUME WellFormed, [Next]_vars, NEW i \in Items
  PROVE  \/ item'[i].by \in {item[i].by, None}
         \/ \E b \in BookingIds : /\ item'[i].by = b /\ booking'[b].status # "ABSENT"
                                  /\ booking'[b].item = i
<1> USE DEF WellFormed
<1>0. item \in [Items -> ItemRow] /\ booking \in [BookingIds -> BookingRow]
  BY DEF TypeOK
<1>1. CASE item'[i].by = item[i].by
  BY <1>1
<1>2. CASE ClaimStep
  <2>1. PICK b \in BookingIds, j \in Items, f \in Form, u \in LockTime : Claim(b, j, f, u)
    BY <1>2 DEF ClaimStep, CreateBooking, InitiateBooking, Form, LockTime
  <2>2. /\ booking' = [booking EXCEPT ![b] = [status |-> "PENDING", form |-> f, item |-> j]]
        /\ item' = [item EXCEPT ![j] = ClaimedRow(item[j], b, u)]
    BY <2>1 DEF Claim
  <2>3. CASE j = i
    <3>1. item'[i].by = b
      BY <1>0, <2>2, <2>3 DEF ClaimedRow, ItemRow
    <3>2. booking'[b].status = "PENDING" /\ booking'[b].item = i
      BY <1>0, <2>2, <2>3
    <3> QED
      BY <3>1, <3>2
  <2>4. CASE j # i
    BY <1>0, <1>1, <2>2, <2>4
  <2> QED
    BY <2>3, <2>4
<1>3. CASE \E p \in Procs : ReadStep(p)
  BY <1>1, <1>3, ReadMakesNewRequest DEF Start, rows
<1>4. ASSUME NEW p \in Procs, BookingStep(p)
      PROVE  \/ item'[i].by \in {item[i].by, None}
             \/ \E b \in BookingIds : /\ item'[i].by = b /\ booking'[b].status # "ABSENT"
                                      /\ booking'[b].item = i
  <2>1. CASE CommitConfirm(p)
    <3>1. PICK r : r = proc[p]
      OBVIOUS
    <3>2. r.b \in BookingIds /\ r.i \in Items /\ booking[r.b].item = r.i
      BY <2>1, <3>1, InFlight DEF CommitConfirm, BookingOp, Op, AdminOp
    <3>3. /\ booking' = [booking EXCEPT ![r.b].status = "CONFIRMED"]
          /\ item' = [item EXCEPT ![r.i].state = "BOOKED", ![r.i].by = r.b]
      BY <2>1, <3>1 DEF CommitConfirm
    <3>4. CASE r.i = i
      <4>1. item'[i].by = r.b
        BY <1>0, <3>2, <3>3, <3>4 DEF ItemRow
      <4>2. booking'[r.b].status = "CONFIRMED" /\ booking'[r.b].item = i
        BY <1>0, <3>2, <3>3, <3>4 DEF BookingRow
      <4> QED
        BY <3>2, <4>1, <4>2
    <3>5. CASE r.i # i
      BY <1>0, <1>1, <3>3, <3>5
    <3> QED
      BY <3>4, <3>5
  <2>2. CASE CommitCancel(p)
    BY <1>0, <2>2 DEF CommitCancel, ReleasedRow, ItemRow
  <2>3. CASE ExtendLock(p)
    BY <1>0, <1>1, <2>3 DEF ExtendLock, ItemRow
  <2> QED
    BY <1>1, <1>4, <2>1, <2>2, <2>3
    DEF BookingStep, WriteStatus, SubmitForm, RecordPayment, ApproveForm, RevertForm,
        ReadForApprovedConfirm, ApprovedConfirmRefused, BeginTx, RollbackTx, rows
<1>5. CASE \E p \in Procs : AdminStep(p)
  BY <1>0, <1>1, <1>5 DEF AdminStep, SetStatus, EditUnit, Archive, ItemRow
<1>6. CASE SweepStep
  <2>1. CASE SweepCommitRow
    <3>1. item'[i] \in {item[i], KeptRow(item[i]), ReleasedRow(item[i])}
      BY <1>0, <2>1 DEF SweepCommitRow
    <3> QED
      BY <1>0, <3>1 DEF KeptRow, ReleasedRow, ItemRow
  <2>2. CASE SweepReleaseHolds
    <3>1. item'[i] \in {item[i], FreedHold(item[i])}
      BY <2>2 DEF SweepReleaseHolds
    <3> QED
      BY <1>0, <3>1 DEF FreedHold, ItemRow
  <2>3. CASE \E l \in sweep.locks : SweepBeginRow(l)
    BY <1>1, <2>3 DEF SweepBeginRow, rows
  <2> QED
    BY <1>1, <1>6, <2>1, <2>2, <2>3 DEF SweepStep, SweepList, SweepAbort, rows
<1>7. CASE \E j \in Items : LockExpires(j) \/ HoldExpires(j)
  BY <1>0, <1>1, <1>7 DEF LockExpires, HoldExpires, ItemRow
<1> QED
  BY <1>1, <1>2, <1>3, <1>4, <1>5, <1>6, <1>7
  DEF Next, Step, Environment, PaymentFailed, Crash, rows, vars

\* The sweep lists and takes up owners that are there already.
LEMMA ListedOwners ==
  ASSUME WellFormed, OwnersFounded, [Next]_vars
  PROVE  /\ \A l \in sweep'.locks : Owns(l.i, l.by)
         /\ Owns(sweep'.tx.i, sweep'.tx.by)
<1> USE DEF WellFormed
<1>0. Owns(NoTx.i, NoTx.by)
  BY DEF NoTx, Owns
<1>1. CASE UNCHANGED sweep
  BY <1>1 DEF OwnersFounded
<1>2. CASE sweep' = NoSweep
  BY <1>0, <1>2 DEF NoSweep
<1>3. CASE SweepList
  <2>1. /\ sweep'.locks = {[i |-> i, by |-> item[i].by] : i \in ExpiredLocks}
        /\ sweep'.tx = NoTx
    BY <1>3 DEF SweepList
  <2>2. ASSUME NEW l \in sweep'.locks
        PROVE  Owns(l.i, l.by)
    <3>1. PICK i \in ExpiredLocks : l = [i |-> i, by |-> item[i].by]
      BY <2>1
    <3>2. i \in Items /\ l.i = i /\ l.by = item[i].by
      BY <3>1 DEF ExpiredLocks
    <3> QED
      BY <3>2 DEF OwnersFounded
  <2> QED
    BY <1>0, <2>1, <2>2
<1>4. ASSUME NEW l \in sweep.locks, SweepBeginRow(l)
      PROVE  /\ \A m \in sweep'.locks : Owns(m.i, m.by)
             /\ Owns(sweep'.tx.i, sweep'.tx.by)
  <2>1. /\ sweep'.locks = sweep.locks \ {l}
        /\ sweep'.tx = [i |-> l.i, by |-> l.by, verdict |-> Decide(l.by)]
    BY <1>4 DEF SweepBeginRow, TypeOK
  <2>2. sweep'.tx.i = l.i /\ sweep'.tx.by = l.by
    BY <2>1
  <2> QED
    BY <2>1, <2>2 DEF OwnersFounded
<1>5. CASE SweepCommitRow
  <2>1. sweep'.locks = sweep.locks /\ sweep'.tx = NoTx
    BY <1>5 DEF SweepCommitRow, TypeOK
  <2> QED
    BY <1>0, <2>1 DEF OwnersFounded
<1>6. CASE \E p \in Procs : ReadStep(p)
  BY <1>1, <1>6, ReadMakesNewRequest DEF Start
<1>7. CASE \E p \in Procs : BookingStep(p) \/ AdminStep(p)
  BY <1>1, <1>7, RequestEndsOrAdvances
<1> QED
  BY <1>1, <1>2, <1>3, <1>4, <1>5, <1>6, <1>7
  DEF Next, Step, ClaimStep, CreateBooking, InitiateBooking, Claim, SweepStep, SweepAbort,
      SweepReleaseHolds, Environment, LockExpires, HoldExpires, PaymentFailed, Crash, vars

LEMMA OwnersFoundedStep ==
  ASSUME WellFormed, OwnersFounded, [Next]_vars
  PROVE  OwnersFounded'
<1>1. BookingsGrow
  BY BookingRowsStep DEF WellFormed
<1>2. ASSUME NEW i \in Items
      PROVE  Owns(i, item[i].by)'
  <2>1. PICK b : b = item'[i].by
    OBVIOUS
  <2>2. CASE b = item[i].by
    <3>1. Owns(i, b)
      BY <2>2 DEF OwnersFounded
    <3>2. Owns(i, b)'
      BY <1>1, <3>1, OwnsStays
    <3> QED
      BY <2>1, <3>2
  <2>3. CASE b = None
    BY <2>1, <2>3 DEF Owns
  <2>4. CASE b \in BookingIds /\ booking'[b].status # "ABSENT" /\ booking'[b].item = i
    BY <2>1, <2>4 DEF Owns
  <2> QED
    BY <2>1, <2>2, <2>3, <2>4, NewOwner
<1>3. ASSUME NEW l \in sweep'.locks
      PROVE  Owns(l.i, l.by)'
  BY <1>1, <1>3, ListedOwners, OwnsStays
<1>4. Owns(sweep.tx.i, sweep.tx.by)'
  <2>1. PICK t : t = sweep'.tx
    OBVIOUS
  <2>2. Owns(t.i, t.by)'
    BY <1>1, <2>1, ListedOwners, OwnsStays
  <2> QED
    BY <2>1, <2>2
<1> QED
  BY <1>2, <1>3, <1>4 DEF OwnersFounded

\* Only a claim gives a booking its item.
LEMMA BlankStep ==
  ASSUME WellFormed, BlankBookings, [Next]_vars
  PROVE  BlankBookings'
<1> USE DEF WellFormed
<1>0. booking \in [BookingIds -> BookingRow]
  BY DEF TypeOK
<1> SUFFICES ASSUME NEW b \in BookingIds, booking'[b].status = "ABSENT"
             PROVE  booking'[b].item = None
  BY DEF BlankBookings
<1>1. booking[b].status = "ABSENT"
  BY BookingRowsStep DEF BookingsGrow
<1>2. CASE booking'[b].item = booking[b].item
  BY <1>1, <1>2 DEF BlankBookings
<1>3. CASE ClaimStep
  BY <1>0, <1>2, <1>3 DEF ClaimStep, CreateBooking, InitiateBooking, Claim
<1>4. CASE \E p \in Procs : ReadStep(p)
  BY <1>2, <1>4, ReadMakesNewRequest DEF Start, rows
<1>5. ASSUME NEW p \in Procs, BookingStep(p)
      PROVE  booking'[b].item = booking[b].item
  BY <1>0, <1>5
  DEF BookingStep, WriteStatus, SubmitForm, ExtendLock, RecordPayment, ApproveForm,
      ReadForApprovedConfirm, ApprovedConfirmRefused, RevertForm, BeginTx, CommitConfirm,
      CommitCancel, RollbackTx, rows, BookingRow
<1>6. CASE \E p \in Procs : AdminStep(p)
  BY <1>2, <1>6 DEF AdminStep, SetStatus, EditUnit, Archive
<1>7. CASE SweepCommitRow
  BY <1>0, <1>2, <1>7 DEF SweepCommitRow, BookingRow
<1>8. CASE \E l \in sweep.locks : SweepBeginRow(l)
  BY <1>2, <1>8 DEF SweepBeginRow, rows
<1> QED
  BY <1>2, <1>3, <1>4, <1>5, <1>6, <1>7, <1>8
  DEF Next, Step, SweepStep, SweepList, SweepAbort, SweepReleaseHolds, Environment,
      LockExpires, HoldExpires, PaymentFailed, Crash, rows, vars

-----------------------------------------------------------------------------
(* What a step does to the items' states and owners and to the bookings'    *)
(* statuses: one of five effects on intact items, or something on another   *)
(* item, and on its bookings, only.                                         *)

SameItem(i) == item'[i].state = item[i].state /\ item'[i].by = item[i].by

SameItems == \A i \in Items : SameItem(i)

SameBooking(b) == booking'[b].status = booking[b].status /\ booking'[b].item = booking[b].item

OthersSame(b) == \A c \in BookingIds \ {b} : SameBooking(c)

\* A booking moves on, and stays as decided, or undecided, as it was.
Progresses(b) ==
    /\ SameItems /\ OthersSame(b)
    /\ booking'[b].item = booking[b].item
    /\ \/ booking[b].status = "PENDING" /\ booking'[b].status = "TOKEN_RECEIVED"
       \/ booking[b].status = "CONFIRMED" /\ booking'[b].status = "COMPLETED"

\* An unowned item changes its state for another unowned one, or a booked unit
\* is marked sold.
Restates(i) ==
    /\ item'[i].by = item[i].by
    /\ \/ item'[i].state = item[i].state
       \/ item[i].by = None /\ item'[i].state \notin {"RESERVED", "BOOKED", "SOLD"}
       \/ item[i].state = "BOOKED" /\ item'[i].state = "SOLD"

Restated ==
    /\ \A b \in BookingIds : SameBooking(b)
    /\ \A i \in Intact : Restates(i)

\* A new booking takes a free item, or one whose lock has run out.
Opens(b, i) ==
    /\ booking[b].status = "ABSENT"
    /\ \/ item[i].state = "AVAILABLE"
       \/ item[i].state = "RESERVED" /\ item[i].until = "PAST"
    /\ booking'[b].status = "PENDING" /\ booking'[b].item = i
    /\ OthersSame(b)
    /\ item'[i].state = "RESERVED" /\ item'[i].by = b
    /\ \A j \in Items \ {i} : item'[j].state = item[j].state /\ item'[j].by = item[j].by

\* An undecided booking is confirmed and gets its item, which nobody else held.
Confirms(b, i) ==
    /\ booking[b].status \in Undecided /\ booking[b].item = i
    /\ item[i].by \in {None, b}
    /\ booking'[b].status = "CONFIRMED" /\ booking'[b].item = i
    /\ OthersSame(b)
    /\ item'[i].state = "BOOKED" /\ item'[i].by = b
    /\ \A j \in Items \ {i} : item'[j].state = item[j].state /\ item'[j].by = item[j].by

\* A booking is cancelled and gives back what it holds, unless that is sold.
Cancels(b, i) ==
    /\ booking[b].status # "ABSENT" /\ booking[b].item = i
    /\ booking'[b].status = "CANCELLED" /\ booking'[b].item = i
    /\ OthersSame(b)
    /\ IF item[i].by = b /\ item[i].state # "SOLD"
       THEN item'[i].state = "AVAILABLE" /\ item'[i].by = None
       ELSE item'[i].state = item[i].state /\ item'[i].by = item[i].by
    /\ \A j \in Items \ {i} : item'[j].state = item[j].state /\ item'[j].by = item[j].by

\* Nothing but item j and its bookings changes.
Elsewhere(j) ==
    /\ \A i \in Items \ {j} : SameItem(i)
    /\ \A c \in BookingIds :
          \/ SameBooking(c)
          \/ /\ booking'[c].item = j
             /\ booking[c].status = "ABSENT" \/ booking[c].item = j

Effects ==
    \/ Restated
    \/ \E b \in BookingIds : Progresses(b)
    \/ \E b \in BookingIds, i \in Intact : Opens(b, i) \/ Confirms(b, i) \/ Cancels(b, i)
    \/ \E j \in Items \ Intact : Elsewhere(j)

LEMMA EffectOfClaim ==
  ASSUME TypeOK, NEW b \in BookingIds, NEW i \in Items, LockTimed(i), NEW f \in Form,
         NEW u \in LockTime, Claim(b, i, f, u)
  PROVE  Opens(b, i)
<1>0. item \in [Items -> ItemRow] /\ booking \in [BookingIds -> BookingRow]
  BY DEF TypeOK
<1>1. /\ booking' = [booking EXCEPT ![b] = [status |-> "PENDING", form |-> f, item |-> i]]
      /\ item' = [item EXCEPT ![i] = ClaimedRow(item[i], b, u)]
      /\ booking[b].status = "ABSENT"
      /\ Claimable(item[i])
  BY DEF Claim
<1>2. ClaimedRow(item[i], b, u).state = "RESERVED" /\ ClaimedRow(item[i], b, u).by = b
  BY <1>0 DEF ClaimedRow, ItemRow
<1>3. item[i].state = "AVAILABLE" \/ (item[i].state = "RESERVED" /\ item[i].until = "PAST")
  BY <1>1 DEF Claimable, LockTimed
<1> QED
  BY <1>0, <1>1, <1>2, <1>3 DEF Opens, OthersSame, SameBooking

LEMMA EffectOfConfirm ==
  ASSUME WellFormed, NEW p \in Procs, RequestsFresh(proc[p].i), CommitConfirm(p)
  PROVE  Confirms(proc[p].b, proc[p].i)
<1> USE DEF WellFormed
<1>0. item \in [Items -> ItemRow] /\ booking \in [BookingIds -> BookingRow]
  BY DEF TypeOK
<1>1. proc[p].op \in BookingOp /\ proc[p].op # "IDLE"
  BY DEF CommitConfirm, Op, BookingOp, AdminOp
<1>2. PICK r : r = proc[p]
  OBVIOUS
<1>3. /\ r.b \in BookingIds
      /\ r.i \in Items
      /\ booking[r.b].item = r.i
  BY <1>1, <1>2, InFlight
<1>4. booking[r.b].status \in Undecided /\ r.by = item[r.i].by
  BY <1>1, <1>2 DEF RequestsFresh, Fresh, CommitConfirm
<1>5. /\ booking' = [booking EXCEPT ![r.b].status = "CONFIRMED"]
      /\ item' = [item EXCEPT ![r.i].state = "BOOKED", ![r.i].by = r.b]
      /\ r.by \in {None, r.b}
  BY <1>2 DEF CommitConfirm, MayBook
<1>6. /\ item'[r.i].state = "BOOKED" /\ item'[r.i].by = r.b
      /\ \A j \in Items \ {r.i} : item'[j] = item[j]
  BY <1>0, <1>3, <1>5 DEF ItemRow
<1>7. /\ booking'[r.b].status = "CONFIRMED" /\ booking'[r.b].item = r.i
      /\ \A c \in BookingIds \ {r.b} : booking'[c] = booking[c]
  BY <1>0, <1>3, <1>5 DEF BookingRow
<1> QED
  BY <1>2, <1>3, <1>4, <1>5, <1>6, <1>7 DEF Confirms, OthersSame, SameBooking

LEMMA EffectOfCancel ==
  ASSUME WellFormed, NEW p \in Procs, RequestsFresh(proc[p].i), RowAgrees(proc[p].i),
         CommitCancel(p)
  PROVE  Cancels(proc[p].b, proc[p].i)
<1> USE DEF WellFormed
<1>0. item \in [Items -> ItemRow] /\ booking \in [BookingIds -> BookingRow]
  BY DEF TypeOK
<1>1. proc[p].op \in BookingOp /\ proc[p].op # "IDLE"
  BY DEF CommitCancel, Op, BookingOp, AdminOp
<1>2. PICK r : r = proc[p]
  OBVIOUS
<1>3. /\ r.b \in BookingIds
      /\ r.i \in Items
      /\ booking[r.b].item = r.i
      /\ booking[r.b].status # "ABSENT"
  BY <1>1, <1>2, InFlight
<1>4. r.state = item[r.i].state /\ r.by = item[r.i].by
  BY <1>1, <1>2 DEF RequestsFresh, Fresh, CommitCancel
<1>5. MayRelease(r) <=> item[r.i].by = r.b /\ item[r.i].state # "SOLD"
  BY <1>2, <1>3, <1>4, BookingsAssumption DEF MayRelease, RowAgrees
<1>6. PICK f : booking' = [booking EXCEPT ![r.b].status = "CANCELLED", ![r.b].form = f]
  BY <1>2 DEF CommitCancel
<1>7. /\ booking'[r.b].status = "CANCELLED" /\ booking'[r.b].item = r.i
      /\ \A c \in BookingIds \ {r.b} : booking'[c] = booking[c]
  BY <1>0, <1>3, <1>6 DEF BookingRow
<1>8. item' = IF MayRelease(r) THEN [item EXCEPT ![r.i] = ReleasedRow(item[r.i])] ELSE item
  BY <1>2 DEF CommitCancel
<1>9. /\ IF MayRelease(r)
         THEN item'[r.i].state = "AVAILABLE" /\ item'[r.i].by = None
         ELSE item'[r.i] = item[r.i]
      /\ \A j \in Items \ {r.i} : item'[j] = item[j]
  BY <1>0, <1>3, <1>8 DEF ReleasedRow, ItemRow
<1> QED
  BY <1>2, <1>3, <1>5, <1>7, <1>9 DEF Cancels, OthersSame, SameBooking
LEMMA EffectOfSweptRow ==
  ASSUME WellFormed, OwnersFounded, NEW i \in Items, i = sweep.tx.i, SweepFresh(i), SweepCommitRow
  PROVE  \/ SameItems /\ UNCHANGED booking
         \/ /\ sweep.tx.by \in BookingIds
            /\ booking[sweep.tx.by].status = "PENDING"
            /\ Cancels(sweep.tx.by, i)
<1> USE DEF WellFormed
<1>0. item \in [Items -> ItemRow] /\ booking \in [BookingIds -> BookingRow]
  BY DEF TypeOK
<1>1. PICK t : t = sweep.tx
  OBVIOUS
<1>2. t.i = i /\ t # NoTx
  BY <1>1 DEF SweepCommitRow
<1>3. /\ item[i].state = "RESERVED" /\ item[i].by = t.by
      /\ t.verdict = "KEEP" \/ (t.verdict = "CANCEL" /\ booking[t.by].status = "PENDING")
  BY <1>1, <1>2 DEF SweepFresh, StillExpired, VerdictFresh
<1>4. CASE t.verdict = "KEEP"
  <2>1. item' = [item EXCEPT ![i] = KeptRow(item[i])] /\ UNCHANGED booking
    BY <1>1, <1>2, <1>4 DEF SweepCommitRow
  <2> QED
    BY <1>0, <2>1 DEF SameItems, SameItem, KeptRow, ItemRow
<1>5. CASE t.verdict = "CANCEL"
  <2>1. t.by \in BookingIds /\ booking[t.by].item = i
    BY <1>1, <1>2, <1>5, BookingsAssumption DEF SweepFounded, OwnersFounded, Owns
  <2>2. /\ item' = [item EXCEPT ![i] = ReleasedRow(item[i])]
        /\ booking' = [booking EXCEPT ![t.by].status = "CANCELLED"]
    BY <1>1, <1>2, <1>5 DEF SweepCommitRow
  <2>3. /\ item'[i].state = "AVAILABLE" /\ item'[i].by = None
        /\ \A j \in Items \ {i} : item'[j] = item[j]
    BY <1>0, <2>2 DEF ReleasedRow, ItemRow
  <2>4. /\ booking'[t.by].status = "CANCELLED" /\ booking'[t.by].item = i
        /\ \A c \in BookingIds \ {t.by} : booking'[c] = booking[c]
    BY <1>0, <2>1, <2>2 DEF BookingRow
  <2> QED
    BY <1>1, <1>3, <1>5, <2>1, <2>3, <2>4 DEF Cancels, OthersSame, SameBooking
<1> QED
  BY <1>3, <1>4, <1>5

LEMMA EffectOfAdmin ==
  ASSUME WellFormed, NEW p \in Procs, RequestsFresh(proc[p].i), RowAgrees(proc[p].i), AdminStep(p)
  PROVE  UNCHANGED booking /\ \A i \in Items : Restates(i)
<1> USE DEF WellFormed
<1>0. item \in [Items -> ItemRow]
  BY DEF TypeOK
<1>1. PICK r : r = proc[p]
  OBVIOUS
<1>2. /\ r.op \in AdminOp /\ r.op # "IDLE" /\ r.i \in Items /\ Fresh(r)
      /\ UNCHANGED booking
  BY <1>1 DEF AdminStep, SetStatus, EditUnit, Archive, RequestsFounded, Founded, RequestsFresh,
     AdminOp
<1>4. CASE SetStatus(p)
  <2>1. PICK h : item' = [item EXCEPT ![r.i].state = r.state, ![r.i].hold = h]
    BY <1>1, <1>4 DEF SetStatus
  <2>2. /\ item'[r.i].state = r.state /\ item'[r.i].by = item[r.i].by
        /\ \A j \in Items \ {r.i} : item'[j] = item[j]
    BY <1>0, <1>2, <2>1 DEF ItemRow
  <2>3. \/ item[r.i].by = None /\ r.state \notin {"RESERVED", "BOOKED", "SOLD"}
        \/ item[r.i].state = "BOOKED" /\ r.state = "SOLD"
    BY <1>1, <1>2, <1>4 DEF SetStatus, Fresh, ManualState
  <2> QED
    BY <1>2, <2>2, <2>3 DEF Restates
<1>5. CASE EditUnit(p)
  <2>1. /\ item'[r.i].state = r.state /\ item'[r.i].by = item[r.i].by
        /\ \A j \in Items \ {r.i} : item'[j] = item[j]
    BY <1>0, <1>1, <1>2, <1>5 DEF EditUnit, ItemRow
  <2> QED
    BY <1>1, <1>2, <1>5, <2>1 DEF EditUnit, Fresh, Restates
<1>6. CASE Archive(p)
  <2>1. /\ item'[r.i].state = "WITHDRAWN" /\ item'[r.i].by = item[r.i].by
        /\ \A j \in Items \ {r.i} : item'[j] = item[j]
    BY <1>0, <1>1, <1>2, <1>6 DEF Archive, ItemRow
  <2>2. item[r.i].by = None
    BY <1>1, <1>2, <1>6 DEF Archive, Fresh, RowAgrees
  <2> QED
    BY <1>2, <2>1, <2>2 DEF Restates
<1> QED
  BY <1>2, <1>4, <1>5, <1>6 DEF AdminStep

\* No request that has ended writes a row.
LEMMA OnlyRollbackWhenIdle ==
  ASSUME NEW p \in Procs, proc[p].op = "IDLE", BookingStep(p) \/ AdminStep(p)
  PROVE  RollbackTx(p)
<1>1. ~AdminStep(p)
  BY DEF AdminStep, SetStatus, EditUnit, Archive
<1>2. ~(WriteStatus(p) \/ SubmitForm(p) \/ ExtendLock(p) \/ RecordPayment(p))
  BY DEF WriteStatus, SubmitForm, ExtendLock, RecordPayment
<1>3. ~(ApproveForm(p) \/ ReadForApprovedConfirm(p) \/ ApprovedConfirmRefused(p))
  BY DEF ApproveForm, ReadForApprovedConfirm, ApprovedConfirmRefused
<1>4. ~(RevertForm(p) \/ BeginTx(p) \/ CommitConfirm(p) \/ CommitCancel(p))
  BY DEF RevertForm, BeginTx, CommitConfirm, CommitCancel
<1> QED
  BY <1>1, <1>2, <1>3, <1>4 DEF BookingStep

\* A request writes its item and its booking, which is of that item.
LEMMA RequestsTouchTheirItem ==
  ASSUME WellFormed, NEW p \in Procs, BookingStep(p) \/ AdminStep(p)
  PROVE  \/ UNCHANGED <<item, booking>>
         \/ proc[p].i \in Items /\ Elsewhere(proc[p].i)
<1> USE DEF WellFormed
<1>0. item \in [Items -> ItemRow] /\ booking \in [BookingIds -> BookingRow]
  BY DEF TypeOK
<1>1. PICK r : r = proc[p]
  OBVIOUS
<1>2. r.op # "IDLE" => r.i \in Items
  BY <1>1 DEF RequestsFounded, Founded
<1>3. r.op \in BookingOp => r.b \in BookingIds /\ booking[r.b].item = r.i
  BY <1>1, InFlight
<1>4. \A j \in Items \ {r.i} : item'[j] = item[j]
  BY <1>0, <1>1
  DEF BookingStep, AdminStep, WriteStatus, SubmitForm, ExtendLock, RecordPayment, ApproveForm,
      ReadForApprovedConfirm, ApprovedConfirmRefused, RevertForm, BeginTx, CommitConfirm,
      CommitCancel, RollbackTx, SetStatus, EditUnit, Archive, rows
<1>5. \A c \in BookingIds :
         booking'[c] = booking[c] \/ (r.op \in BookingOp /\ c = r.b /\ booking'[c].item = booking[c].item)
  <2> SUFFICES ASSUME NEW c \in BookingIds
               PROVE  \/ booking'[c] = booking[c]
                      \/ r.op \in BookingOp /\ c = r.b /\ booking'[c].item = booking[c].item
    OBVIOUS
  <2>1. CASE UNCHANGED booking
    BY <2>1
  <2>2. CASE WriteStatus(p) \/ CommitConfirm(p)
    BY <1>0, <1>1, <2>2 DEF WriteStatus, CommitConfirm, BookingRow, BookingOp, Op, AdminOp
  <2>3. CASE SubmitForm(p) \/ ApproveForm(p) \/ RevertForm(p)
    BY <1>0, <1>1, <2>3 DEF SubmitForm, ApproveForm, RevertForm, BookingRow, BookingOp, Op, AdminOp
  <2>4. CASE CommitCancel(p)
    BY <1>0, <1>1, <2>4 DEF CommitCancel, BookingRow, BookingOp, Op, AdminOp
  <2> QED
    BY <2>1, <2>2, <2>3, <2>4
    DEF BookingStep, AdminStep, ExtendLock, RecordPayment, ReadForApprovedConfirm,
        ApprovedConfirmRefused, BeginTx, RollbackTx, SetStatus, EditUnit, Archive, rows
<1>6. CASE r.op = "IDLE"
  <2>1. RollbackTx(p)
    BY <1>1, <1>6, OnlyRollbackWhenIdle
  <2> QED
    BY <2>1 DEF RollbackTx, rows
<1>7. CASE r.op # "IDLE"
  BY <1>1, <1>2, <1>3, <1>4, <1>5, <1>7 DEF Elsewhere, SameItem, SameBooking
<1> QED
  BY <1>6, <1>7

LEMMA EveryEffect ==
  ASSUME IntactInv, [Next]_vars
  PROVE  Effects
<1> USE DEF IntactInv, Founding, WellFormed
<1>0. item \in [Items -> ItemRow] /\ booking \in [BookingIds -> BookingRow]
  BY DEF TypeOK
<1>1. CASE UNCHANGED booking /\ \A i \in Intact : Restates(i)
  BY <1>1 DEF Effects, Restated, SameBooking
<1>2. CASE UNCHANGED booking /\ SameItems
  BY <1>1, <1>2 DEF SameItems, SameItem, Restates, Intact
<1>3. CASE UNCHANGED <<item, booking>>
  BY <1>2, <1>3 DEF SameItems, SameItem
<1>4. ASSUME NEW j \in Items, Elsewhere(j), j \notin Intact
      PROVE  Effects
  BY <1>4 DEF Effects
<1>5. CASE ClaimStep
  <2>1. PICK b \in BookingIds, i \in Items, f \in Form, u \in LockTime : Claim(b, i, f, u)
    BY <1>5 DEF ClaimStep, CreateBooking, InitiateBooking, Form, LockTime
  <2>2. CASE i \in Intact
    BY <2>1, <2>2, EffectOfClaim DEF Effects, Sound
  <2>3. CASE i \notin Intact
    <3>1. /\ booking' = [booking EXCEPT ![b] = [status |-> "PENDING", form |-> f, item |-> i]]
          /\ item' = [item EXCEPT ![i] = ClaimedRow(item[i], b, u)]
          /\ booking[b].status = "ABSENT"
      BY <2>1 DEF Claim
    <3>2. Elsewhere(i)
      BY <1>0, <3>1 DEF Elsewhere, SameItem, SameBooking
    <3> QED
      BY <1>4, <2>3, <3>2
  <2> QED
    BY <2>2, <2>3
<1>6. CASE \E p \in Procs : ReadStep(p)
  BY <1>3, <1>6, ReadMakesNewRequest DEF Start, rows
<1>7. ASSUME NEW p \in Procs, BookingStep(p) \/ AdminStep(p)
      PROVE  Effects
  <2>1. PICK r : r = proc[p]
    OBVIOUS
  <2>2. CASE r.i \notin Intact
    BY <1>3, <1>4, <1>7, <2>1, <2>2, RequestsTouchTheirItem
  <2>3. CASE r.i \in Intact
    <3>1. r.i \in Items /\ RequestsFresh(r.i) /\ RowAgrees(r.i)
      BY <2>3 DEF Sound, RowSound, Intact
    <3>2. r.op \in BookingOp => r.b \in BookingIds
      BY <2>1, InFlight
    <3>3. CASE CommitConfirm(p)
      BY <2>1, <2>3, <3>1, <3>2, <3>3, EffectOfConfirm
      DEF Effects, CommitConfirm, BookingOp, Op, AdminOp
    <3>4. CASE CommitCancel(p)
      BY <2>1, <2>3, <3>1, <3>2, <3>4, EffectOfCancel
      DEF Effects, CommitCancel, BookingOp, Op, AdminOp
    <3>5. CASE AdminStep(p)
      BY <1>1, <2>1, <3>1, <3>5, EffectOfAdmin DEF Intact
    <3>6. CASE SubmitForm(p) \/ ApproveForm(p) \/ RevertForm(p)
      <4>1. UNCHANGED item /\ \A c \in BookingIds : SameBooking(c)
        BY <1>0, <3>6 DEF SubmitForm, ApproveForm, RevertForm, SameBooking, BookingRow
      <4> QED
        BY <4>1 DEF Effects, Restated, Restates
    <3>7. CASE ExtendLock(p)
      <4>1. UNCHANGED booking /\ SameItems
        BY <1>0, <3>7 DEF ExtendLock, SameItems, SameItem, ItemRow
      <4> QED
        BY <1>2, <4>1
    <3>8. CASE WriteStatus(p)
      <4>1. r.b \in BookingIds /\ Fresh(r) /\ r.op \in {"TOKEN", "COMPLETE"}
        BY <2>1, <3>1, <3>2, <3>8 DEF WriteStatus, RequestsFresh, BookingOp, Op, AdminOp
      <4>2. booking' = [booking EXCEPT ![r.b].status =
                          IF r.op = "TOKEN" THEN "TOKEN_RECEIVED" ELSE "COMPLETED"]
        BY <2>1, <3>8 DEF WriteStatus
      <4>3. /\ booking'[r.b].item = booking[r.b].item
            /\ booking'[r.b].status = IF r.op = "TOKEN" THEN "TOKEN_RECEIVED" ELSE "COMPLETED"
            /\ \A c \in BookingIds \ {r.b} : booking'[c] = booking[c]
        BY <1>0, <4>1, <4>2 DEF BookingRow
      <4>4. UNCHANGED item
        BY <3>8 DEF WriteStatus
      <4>5. Progresses(r.b)
        BY <4>1, <4>3, <4>4 DEF Progresses, OthersSame, SameItems, SameItem, SameBooking, Fresh
      <4> QED
        BY <4>1, <4>5 DEF Effects
    <3> QED
      BY <1>3, <1>7, <3>3, <3>4, <3>5, <3>6, <3>7, <3>8
      DEF BookingStep, RecordPayment, ReadForApprovedConfirm, ApprovedConfirmRefused, BeginTx,
          RollbackTx, rows
  <2> QED
    BY <2>2, <2>3
<1>8. CASE SweepCommitRow
  <2>1. PICK t : t = sweep.tx
    OBVIOUS
  <2>2. t \in RowTx /\ t.i \in Items
    BY <1>8, <2>1 DEF SweepCommitRow, TypeOK, RowTx
  <2>3. CASE t.i \in Intact
    <3>1. SweepFresh(t.i)
      BY <2>3 DEF Sound
    <3> QED
      BY <1>2, <1>8, <2>1, <2>2, <2>3, <3>1, EffectOfSweptRow DEF Effects
  <2>4. CASE t.i \notin Intact
    <3>1. t.verdict = "CANCEL" => t.by \in BookingIds /\ booking[t.by].item = t.i
      BY <2>1, BookingsAssumption DEF SweepFounded, OwnersFounded, Owns
    <3>2. \A j \in Items \ {t.i} : item'[j] = item[j]
      BY <1>0, <1>8, <2>1 DEF SweepCommitRow
    <3>3. \A c \in BookingIds :
             \/ booking'[c] = booking[c]
             \/ booking'[c].item = booking[c].item /\ booking[c].item = t.i
      BY <1>0, <1>8, <2>1, <3>1 DEF SweepCommitRow, BookingRow
    <3>4. Elsewhere(t.i)
      BY <3>2, <3>3 DEF Elsewhere, SameItem, SameBooking
    <3> QED
      BY <1>4, <2>2, <2>4, <3>4
  <2> QED
    BY <2>3, <2>4
<1>9. CASE SweepReleaseHolds
  <2>1. ASSUME NEW i \in Intact
        PROVE  Restates(i)
    <3>0. i \in Items /\ SweepFresh(i) /\ RowAgrees(i)
      BY DEF Sound, RowSound, Intact
    <3>1. CASE i \in sweep.holds
      <4>1. item'[i] = FreedHold(item[i]) /\ item[i].state = "HOLD"
        BY <1>9, <3>0, <3>1 DEF SweepReleaseHolds, SweepFresh
      <4>2. item[i].by = None
        BY <3>0, <4>1 DEF RowAgrees
      <4> QED
        BY <1>0, <3>0, <4>1, <4>2 DEF FreedHold, ItemRow, Restates
    <3>2. CASE i \notin sweep.holds
      BY <1>9, <3>0, <3>2 DEF SweepReleaseHolds, Restates
    <3> QED
      BY <3>1, <3>2
  <2>2. UNCHANGED booking
    BY <1>9 DEF SweepReleaseHolds
  <2> QED
    BY <1>1, <2>1, <2>2
<1>10. CASE \E i \in Items : LockExpires(i) \/ HoldExpires(i)
  <2>1. UNCHANGED booking /\ SameItems
    BY <1>0, <1>10 DEF LockExpires, HoldExpires, SameItems, SameItem, ItemRow
  <2> QED
    BY <1>2, <2>1
<1> QED
  <2>1. CASE SweepStep
    <3>1. CASE SweepList \/ SweepAbort
      BY <1>3, <3>1 DEF SweepList, SweepAbort, rows
    <3>2. CASE \E l \in sweep.locks : SweepBeginRow(l)
      BY <1>3, <3>2 DEF SweepBeginRow, rows
    <3> QED
      BY <1>8, <1>9, <2>1, <3>1, <3>2 DEF SweepStep
  <2>2. CASE Environment \/ UNCHANGED vars
    BY <1>3, <1>10, <2>2 DEF Environment, PaymentFailed, Crash, rows, vars
  <2> QED
    BY <1>5, <1>6, <1>7, <2>1, <2>2 DEF Next, Step

-----------------------------------------------------------------------------
(* The rows, effect by effect.                                              *)

\* A step on another item.
LEMMA RowUntouched ==
  ASSUME Founding, NEW i \in Items, RowSound(i), SameItem(i),
         \A c \in BookingIds :
            (booking[c].item = i \/ booking'[c].item = i) => SameBooking(c)
  PROVE  RowSound(i)'
<1>1. item[i].by \in BookingIds \cup {None}
  BY DEF Founding, WellFormed, TypeOK, ItemRow
<1>2. RowAgrees(i)'
  BY <1>1, BookingsAssumption DEF RowSound, RowAgrees, SameItem, SameBooking
<1>3. ConfirmedOwns(i)'
  BY DEF RowSound, ConfirmedOwns, SameItem, SameBooking, Confirmed
<1> QED
  BY <1>2, <1>3 DEF RowSound

LEMMA RowSoundStep ==
  ASSUME IntactInv, [Next]_vars, NEW i \in Intact'
  PROVE  RowSound(i)'
<1> USE DEF IntactInv, Founding, WellFormed, TypeOK
<1>0. /\ i \in Items /\ i \in Intact /\ RowAgrees(i) /\ ConfirmedOwns(i)
      /\ item[i].by \in BookingIds \cup {None}
      /\ None \notin BookingIds
      /\ i # None
  BY StillIntact, BookingsAssumption DEF Sound, RowSound, ItemRow
<1>b. \A c \in BookingIds : booking[c].status = "ABSENT" => booking[c].item # i
  BY <1>0 DEF BlankBookings
<1>1. ASSUME SameItem(i),
             \A c \in BookingIds : (booking[c].item = i \/ booking'[c].item = i) => SameBooking(c)
      PROVE  RowSound(i)'
  BY <1>0, <1>1, RowUntouched DEF RowSound
<1>2. CASE Restated
  <2>1. Restates(i) /\ \A c \in BookingIds : SameBooking(c)
    BY <1>0, <1>2 DEF Restated
  <2>2. RowAgrees(i)'
    BY <1>0, <2>1 DEF Restates, SameBooking, RowAgrees, Undecided, Confirmed
  <2>3. ConfirmedOwns(i)'
    BY <1>0, <2>1 DEF Restates, SameBooking, RowAgrees, ConfirmedOwns, Undecided, Confirmed
  <2> QED
    BY <2>2, <2>3 DEF RowSound
<1>3. ASSUME NEW b \in BookingIds, Progresses(b)
      PROVE  RowSound(i)'
  <2>1. SameItem(i)
    BY <1>0, <1>3 DEF Progresses, SameItems
  <2>2. RowAgrees(i)'
    BY <1>0, <1>3, <2>1
    DEF Progresses, SameItem, OthersSame, SameBooking, RowAgrees, Undecided, Confirmed
  <2>3. ConfirmedOwns(i)'
    BY <1>0, <1>3, <2>1
    DEF Progresses, SameItem, OthersSame, SameBooking, ConfirmedOwns, Undecided, Confirmed
  <2> QED
    BY <2>2, <2>3 DEF RowSound
<1>4. ASSUME NEW b \in BookingIds, NEW j \in Intact, Opens(b, j) \/ Confirms(b, j) \/ Cancels(b, j),
             j # i
      PROVE  RowSound(i)'
  <2>1. SameItem(i) /\ OthersSame(b) /\ booking'[b].item = j
    BY <1>0, <1>4 DEF Opens, Confirms, Cancels, SameItem
  <2>2. booking[b].item # i
    BY <1>b, <1>4 DEF Opens, Confirms, Cancels
  <2> QED
    BY <1>1, <1>4, <2>1, <2>2 DEF OthersSame
<1>5. ASSUME NEW b \in BookingIds, Opens(b, i)
      PROVE  RowSound(i)'
  <2>1. ConfirmedOwns(i)'
    BY <1>0, <1>b, <1>5
    DEF Opens, OthersSame, SameBooking, ConfirmedOwns, RowAgrees, Undecided, Confirmed
  <2>2. RowAgrees(i)'
    BY <1>0, <1>b, <1>5
    DEF Opens, OthersSame, SameBooking, ConfirmedOwns, RowAgrees, Undecided, Confirmed
  <2> QED
    BY <2>1, <2>2 DEF RowSound
<1>6. ASSUME NEW b \in BookingIds, Confirms(b, i)
      PROVE  RowSound(i)'
  <2>1. ConfirmedOwns(i)'
    BY <1>0, <1>b, <1>6
    DEF Confirms, OthersSame, SameBooking, ConfirmedOwns, RowAgrees, Undecided, Confirmed
  <2>2. RowAgrees(i)'
    BY <1>0, <1>b, <1>6
    DEF Confirms, OthersSame, SameBooking, ConfirmedOwns, RowAgrees, Undecided, Confirmed
  <2> QED
    BY <2>1, <2>2 DEF RowSound
<1>7. ASSUME NEW b \in BookingIds, Cancels(b, i)
      PROVE  RowSound(i)'
  <2>1. ConfirmedOwns(i)'
    BY <1>0, <1>b, <1>7
    DEF Cancels, OthersSame, SameBooking, ConfirmedOwns, RowAgrees, Undecided, Confirmed
  <2>2. RowAgrees(i)'
    BY <1>0, <1>b, <1>7
    DEF Cancels, OthersSame, SameBooking, ConfirmedOwns, RowAgrees, Undecided, Confirmed
  <2> QED
    BY <2>1, <2>2 DEF RowSound
<1>8. ASSUME NEW j \in Items \ Intact, Elsewhere(j)
      PROVE  RowSound(i)'
  <2>1. j # i /\ SameItem(i)
    BY <1>0, <1>8 DEF Elsewhere
  <2>2. \A c \in BookingIds : (booking[c].item = i \/ booking'[c].item = i) => SameBooking(c)
    BY <1>8, <1>b, <2>1 DEF Elsewhere
  <2> QED
    BY <1>1, <2>1, <2>2
<1> QED
  BY <1>2, <1>3, <1>4, <1>5, <1>6, <1>7, <1>8, EveryEffect DEF Effects

LEMMA LockTimedStep ==
  ASSUME IntactInv, [Next]_vars, NEW i \in Intact'
  PROVE  LockTimed(i)'
<1> USE DEF IntactInv, Founding, WellFormed
<1>0. item \in [Items -> ItemRow] /\ \A p \in Procs : proc[p].op \in Op
  BY DEF TypeOK, Request
<1>i. i \in Items /\ Sound(i) /\ LockTimed(i)
  BY StillIntact DEF Sound
<1> SUFFICES ASSUME item'[i].state = "RESERVED"
             PROVE  item'[i].until # "NULL"
  BY DEF LockTimed
<1>1. CASE item'[i].state = item[i].state /\ item'[i].until = item[i].until
  BY <1>1, <1>i DEF LockTimed
<1>2. CASE ClaimStep
  <2>1. PICK b \in BookingIds, j \in Items, f \in Form, u \in LockTime \ {"NULL"} :
           Claim(b, j, f, u)
    BY <1>2 DEF ClaimStep, CreateBooking, InitiateBooking, Form, LockTime
  <2> QED
    BY <1>0, <1>1, <1>i, <2>1 DEF Claim, ClaimedRow, ItemRow
<1>3. CASE \E p \in Procs : ReadStep(p)
  BY <1>1, <1>3, ReadMakesNewRequest DEF Start, rows
<1>4. ASSUME NEW p \in Procs, BookingStep(p)
      PROVE  item'[i].until # "NULL"
  <2>1. CASE ExtendLock(p)
    BY <1>0, <1>1, <1>i, <2>1 DEF ExtendLock, ItemRow
  <2>2. CASE CommitConfirm(p)
    <3>1. proc[p].i \in Items
      BY <2>2, InFlight DEF CommitConfirm, BookingOp, Op, AdminOp
    <3> QED
      BY <1>0, <1>1, <1>i, <2>2, <3>1 DEF CommitConfirm, ItemRow
  <2>3. CASE CommitCancel(p)
    BY <1>0, <1>1, <1>i, <2>3 DEF CommitCancel, ReleasedRow, ItemRow
  <2> QED
    BY <1>1, <1>4, <2>1, <2>2, <2>3
    DEF BookingStep, WriteStatus, SubmitForm, RecordPayment, ApproveForm, RevertForm,
        ReadForApprovedConfirm, ApprovedConfirmRefused, BeginTx, RollbackTx, rows
<1>5. ASSUME NEW p \in Procs, AdminStep(p)
      PROVE  item'[i].until # "NULL"
  <2>1. CASE proc[p].i = i
    <3>1. item'[i].until = item[i].until
      BY <1>0, <1>5, <1>i DEF AdminStep, SetStatus, EditUnit, Archive, ItemRow
    <3>2. Restates(i)
      BY <1>5, <1>i, <2>1, EffectOfAdmin DEF Sound, RowSound
    <3> QED
      BY <1>i, <3>1, <3>2 DEF LockTimed, Restates
  <2>2. CASE proc[p].i # i
    BY <1>0, <1>1, <1>i, <1>5, <2>2 DEF AdminStep, SetStatus, EditUnit, Archive
  <2> QED
    BY <2>1, <2>2
<1>6. CASE SweepStep
  <2>1. CASE SweepCommitRow
    <3>1. PICK t : t = sweep.tx
      OBVIOUS
    <3>2. item'[i] \in {item[i], KeptRow(item[i]), ReleasedRow(item[i])}
      BY <1>0, <1>i, <2>1, <3>1 DEF SweepCommitRow
    <3> QED
      BY <1>0, <1>1, <1>i, <3>2 DEF KeptRow, ReleasedRow, ItemRow
  <2>2. CASE SweepReleaseHolds
    <3>1. item'[i] \in {item[i], FreedHold(item[i])}
      BY <1>i, <2>2 DEF SweepReleaseHolds
    <3> QED
      BY <1>0, <1>1, <1>i, <3>1 DEF FreedHold, ItemRow
  <2>3. CASE \E l \in sweep.locks : SweepBeginRow(l)
    BY <1>1, <2>3 DEF SweepBeginRow, rows
  <2> QED
    BY <1>1, <1>6, <2>1, <2>2, <2>3 DEF SweepStep, SweepList, SweepAbort, rows
<1>7. ASSUME NEW j \in Items, LockExpires(j) \/ HoldExpires(j)
      PROVE  item'[i].until # "NULL"
  BY <1>0, <1>1, <1>i, <1>7 DEF LockExpires, HoldExpires, ItemRow
<1> QED
  BY <1>1, <1>2, <1>3, <1>4, <1>5, <1>6, <1>7
  DEF Next, Step, Environment, PaymentFailed, Crash, rows, vars


-----------------------------------------------------------------------------
(* What a request or the sweep has read stays true: as long as the item is  *)
(* intact, nobody disturbs what is read of it before the reader acts.       *)

LEMMA StaysFresh ==
  ASSUME NEW r, Founded(r), Fresh(r), Undisturbed(r.i)
  PROVE  Fresh(r)'
BY DEF Founded, Fresh, Undisturbed, AdminOp

LEMMA ReadsAreFresh ==
  ASSUME TypeOK, BookingsHaveItems, NEW p \in Procs, ReadStep(p)
  PROVE  Fresh(proc'[p])
<1>0. proc \in [Procs -> Request]
  BY DEF TypeOK
<1>1. ASSUME NEW r, Start(p, r), Fresh(r)
      PROVE  Fresh(proc'[p])
  BY <1>0, <1>1 DEF Start
<1>2. ASSUME NEW b \in BookingIds,
             \/ ReadTokenReceived(p, b) \/ ReadCompleted(p, b)
             \/ ReadForm(p, b) \/ ReadForPayment(p, b)
             \/ ReadForConfirm(p, b) \/ ReadForReject(p, b) \/ ReadForApprove(p, b)
             \/ \E md \in BOOLEAN : ReadForCancel(p, b, md)
      PROVE  Fresh(proc'[p])
  <2> USE DEF OnBooking, Idle, Fresh
  <2>1. CASE ReadTokenReceived(p, b) \/ ReadCompleted(p, b)
    BY <1>1, <2>1 DEF ReadTokenReceived, ReadCompleted
  <2>2. CASE ReadForm(p, b) \/ ReadForPayment(p, b)
    BY <1>1, <2>2 DEF ReadForm, ReadForPayment
  <2>3. CASE ReadForConfirm(p, b) \/ ReadForReject(p, b) \/ ReadForApprove(p, b)
    BY <1>1, <2>3 DEF ReadForConfirm, ReadForReject, ReadForApprove
  <2>4. CASE \E md \in BOOLEAN : ReadForCancel(p, b, md)
    BY <1>1, <2>4 DEF ReadForCancel
  <2> QED
    BY <1>2, <2>1, <2>2, <2>3, <2>4
<1>3. ASSUME NEW i \in Items,
             \/ ReadForEdit(p, i) \/ ReadForArchive(p, i)
             \/ \E s \in ManualState : ReadForSetStatus(p, i, s)
      PROVE  Fresh(proc'[p])
  <2> USE DEF OnItem, Idle, Fresh
  <2>1. CASE ReadForEdit(p, i)
    BY <1>1, <2>1 DEF ReadForEdit
  <2>2. CASE ReadForArchive(p, i)
    BY <1>1, <2>2 DEF ReadForArchive
  <2>3. CASE \E s \in ManualState : ReadForSetStatus(p, i, s)
    BY <1>1, <2>3 DEF ReadForSetStatus
  <2> QED
    BY <1>3, <2>1, <2>2, <2>3
<1> QED
  BY <1>2, <1>3 DEF ReadStep

\* A request that has just moved on.
LEMMA MovedIsFresh ==
  ASSUME WellFormed, NEW p \in Procs, Fresh(proc[p]), BookingStep(p) \/ AdminStep(p),
         proc'[p].op # "IDLE"
  PROVE  Fresh(proc[p])'
<1> USE DEF WellFormed
<1>0. proc \in [Procs -> Request]
  BY DEF TypeOK
<1>1. proc'[p] # Idle
  BY IdleType
<1>2. PICK r, s : r = proc[p] /\ s = proc'[p]
  OBVIOUS
<1>3. CASE SubmitForm(p) \/ ApproveForm(p) \/ ApprovedConfirmRefused(p) \/ RollbackTx(p)
  <2>1. \/ s.op = "SUBMIT"
        \/ s.op = "APPROVE" /\ s.st \notin {"CHECKED", "TX"}
    BY <1>0, <1>1, <1>2, <1>3
    DEF SubmitForm, ApproveForm, ApprovedConfirmRefused, RollbackTx, Advance, Finish, Request
  <2>2. s.st # "TX"
    BY <1>0, <1>1, <1>2, <1>3
    DEF SubmitForm, ApproveForm, ApprovedConfirmRefused, RollbackTx, Advance, Finish, Request
  <2>3. Fresh(s)'
    BY <2>1, <2>2 DEF Fresh
  <2> QED
    BY <1>2, <2>3
<1>4. CASE ReadForApprovedConfirm(p)
  <2>1. /\ s.op = "APPROVE" /\ s.st = "CHECKED" /\ s.b = r.b
        /\ booking[r.b].status \in Undecided
        /\ UNCHANGED rows
    BY <1>0, <1>2, <1>4 DEF ReadForApprovedConfirm, Advance, Request
  <2>2. Fresh(s)'
    BY <2>1 DEF Fresh, rows
  <2> QED
    BY <1>2, <2>2
<1>5. CASE BeginTx(p)
  <2>1. r.op \in {"CONFIRM", "APPROVE", "CANCEL", "REJECT"} /\ r.st = "CHECKED" /\ Fresh(r)
    BY <1>2, <1>5 DEF BeginTx
  <2>2. /\ s.op = r.op /\ s.st = "TX" /\ s.b = r.b /\ s.i = r.i /\ s.md = r.md
        /\ s.state = item[r.i].state /\ s.by = item[r.i].by
        /\ UNCHANGED rows
    BY <1>0, <1>2, <1>5 DEF BeginTx, Snapshot, Request
  <2>3. Fresh(s)'
    BY <2>1, <2>2 DEF Fresh, rows
  <2> QED
    BY <1>2, <2>3
<1> QED
  BY <1>0, <1>1, <1>3, <1>4, <1>5
  DEF BookingStep, AdminStep, WriteStatus, ExtendLock, RecordPayment, RevertForm, CommitConfirm,
      CommitCancel, SetStatus, EditUnit, Archive, Finish

\* A request that changes is new or has moved on.
LEMMA WhoMoves ==
  ASSUME TypeOK, BookingsHaveItems, [Next]_vars, NEW q \in Procs,
         proc'[q] # proc[q], proc'[q].op # "IDLE"
  PROVE  ReadStep(q) \/ BookingStep(q) \/ AdminStep(q)
<1>1. ~UNCHANGED proc
  OBVIOUS
<1>2. ASSUME NEW p \in Procs, ReadStep(p)
      PROVE  p = q
  <2>1. PICK r : Start(p, r)
    BY <1>2, ReadMakesNewRequest
  <2> QED
    BY <2>1 DEF Start, TypeOK
<1>3. ASSUME NEW p \in Procs, BookingStep(p) \/ AdminStep(p)
      PROVE  p = q
  BY <1>3, RequestEndsOrAdvances
<1>4. ~Crash
  BY IdleType DEF Crash
<1>5. ~ClaimStep
  BY <1>1 DEF ClaimStep, CreateBooking, InitiateBooking, Claim
<1>6. ~SweepStep
  <2>1. CASE \E l \in sweep.locks : SweepBeginRow(l)
    BY <1>1, <2>1 DEF SweepBeginRow
  <2> QED
    BY <1>1, <2>1 DEF SweepStep, SweepList, SweepCommitRow, SweepAbort, SweepReleaseHolds
<1> QED
  BY <1>1, <1>2, <1>3, <1>4, <1>5, <1>6
  DEF Next, Step, Environment, LockExpires, HoldExpires, PaymentFailed, vars

LEMMA RequestsFreshStep ==
  ASSUME IntactInv, [Next]_vars, NEW i \in Intact'
  PROVE  RequestsFresh(i)'
<1> USE DEF IntactInv, Founding, WellFormed
<1>0. /\ i \in Items /\ RequestsFresh(i) /\ SweepFresh(i)
      /\ Waits(i) => Undisturbed(i)
  BY StillIntact DEF Sound
<1>i. i # None
  BY <1>0, BookingsAssumption
<1> SUFFICES ASSUME NEW q \in Procs, proc'[q].op # "IDLE", proc'[q].i = i
             PROVE  Fresh(proc[q])'
  BY DEF RequestsFresh
<1>1. PICK r : r = proc'[q]
  OBVIOUS
<1>2. CASE proc'[q] = proc[q]
  <2>1. r = proc[q] /\ r.i = i /\ r.op # "IDLE"
    BY <1>1, <1>2
  <2>2. Fresh(r) /\ Founded(r)
    BY <1>0, <2>1 DEF RequestsFresh, RequestsFounded
  <2>3. Undisturbed(r.i)
    BY <1>0, <1>2, <2>1 DEF Waits
  <2>4. Fresh(r)'
    BY <2>2, <2>3, StaysFresh
  <2> QED
    BY <1>1, <2>4
<1>3. CASE ReadStep(q)
  <2>1. UNCHANGED rows
    BY <1>3, ReadMakesNewRequest DEF Start
  <2>2. Fresh(r)
    BY <1>1, <1>3, ReadsAreFresh
  <2>3. Fresh(r)'
    BY <2>1, <2>2 DEF Fresh, rows
  <2> QED
    BY <1>1, <2>3
<1>4. CASE BookingStep(q) \/ AdminStep(q)
  <2>1. proc'[q] # Idle
    BY IdleType
  <2>2. proc[q].op # "IDLE" /\ proc[q].i = i
    BY <1>4, <2>1, RequestEndsOrAdvances
  <2>3. Fresh(proc[q])
    BY <1>0, <2>2 DEF RequestsFresh
  <2> QED
    BY <1>4, <2>3, MovedIsFresh
<1> QED
  BY <1>2, <1>3, <1>4, WhoMoves

-----------------------------------------------------------------------------
(* The sweep.                                                               *)

LEMMA StaysExpired ==
  ASSUME NEW l, StillExpired(l), Undisturbed(l.i)
  PROVE  StillExpired(l)'
BY DEF StillExpired, Undisturbed

\* Only the start of a run lists something, and only the next row is taken up.
LEMMA SweepChanges ==
  ASSUME WellFormed, [Next]_vars
  PROVE  \/ SweepList
         \/ \E l \in sweep.locks : SweepBeginRow(l)
         \/ /\ sweep'.locks \subseteq sweep.locks
            /\ sweep'.holds \subseteq sweep.holds
            /\ sweep'.tx \in {sweep.tx, NoTx}
<1> USE DEF WellFormed
<1>1. CASE UNCHANGED sweep
  BY <1>1
<1>2. CASE sweep' = NoSweep
  BY <1>2 DEF NoSweep
<1>3. CASE SweepCommitRow
  BY <1>3 DEF SweepCommitRow, TypeOK
<1>4. CASE \E p \in Procs : ReadStep(p)
  BY <1>1, <1>4, ReadMakesNewRequest DEF Start
<1>5. CASE \E p \in Procs : BookingStep(p) \/ AdminStep(p)
  BY <1>1, <1>5, RequestEndsOrAdvances
<1> QED
  BY <1>1, <1>2, <1>3, <1>4, <1>5
  DEF Next, Step, ClaimStep, CreateBooking, InitiateBooking, Claim, SweepStep, SweepAbort,
      SweepReleaseHolds, Environment, LockExpires, HoldExpires, PaymentFailed, Crash, vars

LEMMA SweepFreshStep ==
  ASSUME IntactInv, [Next]_vars, NEW i \in Intact'
  PROVE  SweepFresh(i)'
<1> USE DEF IntactInv, Founding, WellFormed
<1>0. /\ i \in Items /\ SweepFresh(i) /\ RowAgrees(i)
      /\ Waits(i) => Undisturbed(i)
  BY StillIntact DEF Sound, RowSound
<1>n. NoTx.i # i
  BY <1>0, BookingsAssumption DEF NoTx
<1>1. CASE /\ sweep'.locks \subseteq sweep.locks
           /\ sweep'.holds \subseteq sweep.holds
           /\ sweep'.tx \in {sweep.tx, NoTx}
  <2>1. ASSUME NEW l \in sweep'.locks, l.i = i
        PROVE  StillExpired(l)'
    <3>1. l \in sweep.locks /\ StillExpired(l)
      BY <1>0, <1>1, <2>1 DEF SweepFresh
    <3>2. Undisturbed(l.i)
      BY <1>0, <2>1, <3>1 DEF Waits
    <3> QED
      BY <3>1, <3>2, StaysExpired
  <2>2. i \in sweep'.holds => item'[i].state = "HOLD"
    BY <1>0, <1>1 DEF SweepFresh, Waits, Undisturbed
  <2>3. ASSUME sweep'.tx.i = i
        PROVE  StillExpired(sweep.tx)' /\ VerdictFresh(sweep.tx)'
    <3>1. PICK t : t = sweep'.tx
      OBVIOUS
    <3>2. sweep'.tx = sweep.tx /\ t = sweep.tx /\ t.i = i
      BY <1>1, <1>n, <2>3, <3>1
    <3>3. Undisturbed(i) /\ StillExpired(t) /\ VerdictFresh(t)
      BY <1>0, <3>2 DEF Waits, SweepFresh
    <3>4. StillExpired(t)'
      BY <3>2, <3>3, StaysExpired
    <3>5. t.verdict = "CANCEL" =>
             t.by \in BookingIds /\ booking[t.by].status # "ABSENT" /\ booking[t.by].item = i
      BY <3>2, BookingsAssumption DEF SweepFounded, OwnersFounded, Owns
    <3>6. VerdictFresh(t)'
      BY <3>3, <3>5 DEF VerdictFresh, Undisturbed
    <3> QED
      BY <3>1, <3>4, <3>6
  <2> QED
    BY <2>1, <2>2, <2>3 DEF SweepFresh
<1>2. CASE SweepList
  <2>1. /\ sweep'.locks = {[i |-> j, by |-> item[j].by] : j \in ExpiredLocks}
        /\ sweep'.holds = ExpiredHolds
        /\ sweep'.tx = NoTx
        /\ UNCHANGED item
    BY <1>2 DEF SweepList, rows
  <2>2. ASSUME NEW l \in sweep'.locks
        PROVE  StillExpired(l)'
    BY <2>1, <2>2 DEF StillExpired, ExpiredLocks
  <2> QED
    BY <1>n, <2>1, <2>2 DEF SweepFresh, ExpiredHolds
<1>3. ASSUME NEW l \in sweep.locks, SweepBeginRow(l)
      PROVE  SweepFresh(i)'
  <2>1. /\ sweep'.locks = sweep.locks \ {l}
        /\ sweep'.holds = sweep.holds
        /\ sweep'.tx = [i |-> l.i, by |-> l.by, verdict |-> Decide(l.by)]
        /\ UNCHANGED rows
    BY <1>3 DEF SweepBeginRow, TypeOK
  <2>2. ASSUME NEW m \in sweep'.locks, m.i = i
        PROVE  StillExpired(m)'
    BY <1>0, <2>1, <2>2 DEF SweepFresh, StillExpired, rows
  <2>3. i \in sweep'.holds => item'[i].state = "HOLD"
    BY <1>0, <2>1 DEF SweepFresh, rows
  <2>4. ASSUME sweep'.tx.i = i
        PROVE  StillExpired(sweep.tx)' /\ VerdictFresh(sweep.tx)'
    <3>1. PICK t : t = sweep'.tx
      OBVIOUS
    <3>2. t.i = i /\ l.i = i /\ t.by = l.by /\ t.verdict = Decide(l.by)
      BY <2>1, <2>4, <3>1
    <3>3. StillExpired(l)
      BY <1>0, <3>2 DEF SweepFresh
    <3>4. item[i].state = "RESERVED" /\ item[i].by = t.by /\ item[i].until = "PAST"
      BY <3>2, <3>3 DEF StillExpired
    <3>5. t.by # None /\ booking[t.by].status \in Undecided
      BY <1>0, <3>4 DEF RowAgrees
    <3>6. VerdictFresh(t)
      BY <3>2, <3>5 DEF VerdictFresh, Decide, Undecided
    <3>7. VerdictFresh(t)' /\ StillExpired(t)'
      BY <2>1, <3>2, <3>4, <3>6 DEF VerdictFresh, StillExpired, rows
    <3> QED
      BY <3>1, <3>7
  <2> QED
    BY <2>2, <2>3, <2>4 DEF SweepFresh
<1> QED
  BY <1>1, <1>2, <1>3, SweepChanges

-----------------------------------------------------------------------------
(* The invariant.                                                           *)

LEMMA InitIntact == Init => IntactInv
<1> SUFFICES ASSUME Init
             PROVE  IntactInv
  OBVIOUS
<1>1. WellFormed
  BY InitWellFormed
<1>2. OwnersFounded /\ BlankBookings
  BY DEF Init, OwnersFounded, Owns, BlankBookings, NoSweep, NoTx
<1>3. ASSUME NEW i \in Items
      PROVE  Sound(i)
  <2>1. RequestsFresh(i)
    BY IdleType DEF Init, RequestsFresh
  <2>2. SweepFresh(i)
    BY BookingsAssumption DEF Init, SweepFresh, NoSweep, NoTx
  <2>3. RowSound(i) /\ LockTimed(i)
    BY DEF Init, RowSound, RowAgrees, ConfirmedOwns, LockTimed, Confirmed
  <2> QED
    BY <2>1, <2>2, <2>3 DEF Sound
<1> QED
  BY <1>1, <1>2, <1>3 DEF IntactInv, Founding, Intact

LEMMA IntactStep == IntactInv /\ [Next]_vars => IntactInv'
<1> SUFFICES ASSUME IntactInv, [Next]_vars
             PROVE  IntactInv'
  OBVIOUS
<1>1. WellFormed' /\ OwnersFounded' /\ BlankBookings'
  BY WellFormedStep, OwnersFoundedStep, BlankStep DEF IntactInv, Founding
<1>2. ASSUME NEW i \in Intact'
      PROVE  Sound(i)'
  <2>1. RequestsFresh(i)' /\ SweepFresh(i)'
    BY RequestsFreshStep, SweepFreshStep
  <2>2. RowSound(i)' /\ LockTimed(i)'
    BY RowSoundStep, LockTimedStep
  <2> QED
    BY <2>1, <2>2 DEF Sound
<1> QED
  BY <1>1, <1>2 DEF IntactInv, Founding

LEMMA AlwaysIntact == Spec => []IntactInv
<1>1. IntactInv /\ [Next]_vars => IntactInv'
  BY IntactStep
<1> QED
  BY <1>1, InitIntact, PTL DEF Spec

\* No item is sold twice: for any number of items, bookings and requests, and
\* however they interleave, a confirmed booking owns its item as long as nothing
\* read of the item was changed before the reader acted on it.
THEOREM OwnershipCorrect == Spec => []ConfirmedOwnsItem
<1>1. IntactInv => ConfirmedOwnsItem
  BY DEF IntactInv, Sound, RowSound, ConfirmedOwns, ConfirmedOwnsItem
<1> QED
  BY <1>1, AlwaysIntact, PTL

\* The item rows and the booking rows agree, item by item, as long as no reader
\* of the item was overtaken.
THEOREM RowsCorrect == Spec => []RowsAgree
<1>1. IntactInv => RowsAgree
  BY DEF IntactInv, Sound, RowSound, RowAgrees, RowsAgree
<1> QED
  BY <1>1, AlwaysIntact, PTL

-----------------------------------------------------------------------------
(* Decisions stay.                                                          *)

\* A step that cancels a booking ends a cancellation or a rejection of it, or
\* is the sweep's and the booking was a quick one.
LEMMA WhoCancels ==
  ASSUME WellFormed, [Next]_vars, NEW b \in BookingIds,
         booking[b].status # "CANCELLED", booking'[b].status = "CANCELLED"
  PROVE  \/ SweepCommitRow /\ sweep.tx.by = b
         \/ /\ UNCHANGED sweep
            /\ \E p \in Procs : CommitCancel(p) /\ proc[p].b = b
<1> USE DEF WellFormed
<1>0. booking \in [BookingIds -> BookingRow]
  BY DEF TypeOK
<1>1. ~UNCHANGED booking
  OBVIOUS
<1>2. CASE \E p \in Procs : ReadStep(p)
  BY <1>1, <1>2, ReadMakesNewRequest DEF Start, rows
<1>3. CASE ClaimStep
  BY <1>0, <1>3 DEF ClaimStep, CreateBooking, InitiateBooking, Claim
<1>4. ASSUME NEW p \in Procs, BookingStep(p)
      PROVE  CommitCancel(p) /\ proc[p].b = b /\ UNCHANGED sweep
  <2>1. CASE CommitCancel(p)
    BY <1>0, <2>1 DEF CommitCancel
  <2>2. CASE WriteStatus(p) \/ CommitConfirm(p)
    BY <1>0, <2>2 DEF WriteStatus, CommitConfirm, BookingRow
  <2>3. CASE SubmitForm(p) \/ ApproveForm(p) \/ RevertForm(p)
    BY <1>0, <2>3 DEF SubmitForm, ApproveForm, RevertForm, BookingRow
  <2> QED
    BY <1>1, <1>4, <2>1, <2>2, <2>3
    DEF BookingStep, ExtendLock, RecordPayment, ReadForApprovedConfirm,
        ApprovedConfirmRefused, BeginTx, RollbackTx, rows
<1>5. CASE \E p \in Procs : AdminStep(p)
  BY <1>1, <1>5 DEF AdminStep, SetStatus, EditUnit, Archive
<1>6. CASE SweepStep
  <2>1. CASE SweepCommitRow
    BY <1>0, <2>1 DEF SweepCommitRow
  <2>2. CASE \E l \in sweep.locks : SweepBeginRow(l)
    BY <1>1, <2>2 DEF SweepBeginRow, rows
  <2> QED
    BY <1>1, <1>6, <2>1, <2>2 DEF SweepStep, SweepList, SweepAbort, SweepReleaseHolds, rows
<1>7. CASE Environment \/ UNCHANGED vars
  BY <1>1, <1>7 DEF Environment, LockExpires, HoldExpires, PaymentFailed, Crash, rows, vars
<1> QED
  BY <1>2, <1>3, <1>4, <1>5, <1>6, <1>7 DEF Next, Step

LEMMA CancelledStays ==
  ASSUME IntactInv, [Next]_vars, NEW b \in BookingIds,
         booking[b].status = "CANCELLED", booking[b].item \in Intact'
  PROVE  booking'[b].status = "CANCELLED"
<1>0. booking[b].item \in Intact
  BY StillIntact
<1>1. ASSUME NEW c \in BookingIds, NEW i \in Intact, Opens(c, i) \/ Confirms(c, i) \/ Cancels(c, i)
      PROVE  booking'[b].status = "CANCELLED"
  BY <1>1 DEF Opens, Confirms, Cancels, OthersSame, SameBooking, Undecided
<1>2. ASSUME NEW c \in BookingIds, Progresses(c)
      PROVE  booking'[b].status = "CANCELLED"
  BY <1>2 DEF Progresses, OthersSame, SameBooking
<1>3. ASSUME NEW j \in Items \ Intact, Elsewhere(j)
      PROVE  booking'[b].status = "CANCELLED"
  BY <1>0, <1>3 DEF Elsewhere, SameBooking
<1> QED
  BY <1>1, <1>2, <1>3, EveryEffect DEF Effects, Restated, SameBooking

LEMMA SweepSpares ==
  ASSUME IntactInv, [Next]_vars, NEW b \in BookingIds,
         sweep' # sweep, booking[b].item \in Intact',
         booking[b].status # "CANCELLED", booking'[b].status = "CANCELLED"
  PROVE  booking[b].status = "PENDING" /\ booking[b].form # "SUBMITTED" /\ ~money[b]
<1> USE DEF IntactInv, Founding
<1>1. SweepCommitRow /\ sweep.tx.by = b
  BY WhoCancels
<1>2. sweep.tx.verdict = "CANCEL"
  BY <1>1 DEF SweepCommitRow
<1>3. booking[b].item = sweep.tx.i
  BY <1>1, BookingsAssumption DEF OwnersFounded, Owns
<1>4. SweepFresh(sweep.tx.i)
  BY <1>3, StillIntact DEF Sound
<1> QED
  BY <1>1, <1>2, <1>4 DEF SweepFresh, VerdictFresh

LEMMA TakenOverOnlyExpired ==
  ASSUME IntactInv, [Next]_vars, NEW i \in Intact',
         item[i].by # None, item'[i].by \notin {None, item[i].by}
  PROVE  item[i].state = "RESERVED" /\ item[i].until = "PAST"
<1>0. i \in Items /\ i \in Intact /\ RowAgrees(i)
  BY StillIntact DEF IntactInv, Sound, RowSound
<1>1. ~SameItem(i) /\ ~Restates(i)
  BY DEF SameItem, Restates
<1>2. PICK b \in BookingIds, j \in Intact : Opens(b, j) \/ Confirms(b, j) \/ Cancels(b, j)
  BY <1>0, <1>1, EveryEffect DEF Effects, Restated, Progresses, SameItems, Elsewhere
<1>3. item[i].state # "AVAILABLE"
  BY <1>0 DEF RowAgrees
<1> QED
  BY <1>0, <1>2, <1>3 DEF Opens, Confirms, Cancels

LEMMA MDCancelsConfirmed ==
  ASSUME IntactInv, [Next]_vars, NEW b \in BookingIds,
         booking[b].status \in Confirmed, booking[b].item \in Intact',
         booking'[b].status = "CANCELLED"
  PROVE  \E p \in Procs : /\ proc[p].b = b /\ proc[p].md
                          /\ proc[p] # Idle /\ proc'[p] = Idle
<1> USE DEF IntactInv, Founding
<1>1. UNCHANGED sweep
  BY WhoCancels, SweepSpares DEF Confirmed
<1>2. ~SweepCommitRow
  BY <1>1 DEF SweepCommitRow, WellFormed, TypeOK
<1>3. PICK p \in Procs : CommitCancel(p) /\ proc[p].b = b
  BY <1>2, WhoCancels DEF Confirmed
<1>4. proc[p].op \in {"CANCEL", "REJECT"}
  BY <1>3 DEF CommitCancel
<1>5. proc[p].i = booking[b].item
  BY <1>3, <1>4, InFlight DEF WellFormed, BookingOp, Op, AdminOp
<1>6. RequestsFresh(proc[p].i)
  BY <1>5, StillIntact DEF Sound
<1>7. Fresh(proc[p])
  BY <1>4, <1>6 DEF RequestsFresh
<1>8. proc[p].md
  BY <1>3, <1>4, <1>7 DEF Fresh
<1>9. proc[p] # Idle
  BY <1>4, IdleType
<1>10. proc'[p] = Idle
  BY <1>3 DEF CommitCancel, Finish, WellFormed, TypeOK
<1> QED
  BY <1>3, <1>8, <1>9, <1>10

\* As long as no reader of the item was overtaken: cancelled bookings stay
\* cancelled, the sweep spares committed ones, a lock is taken over only once it
\* ran out, and only the MD cancels a confirmed booking.
THEOREM DecisionsCorrect == Spec => DecisionsStay
<1> DEFINE
      Final   == \A b \in BookingIds :
                   booking[b].status = "CANCELLED" /\ booking[b].item \in Intact'
                   => booking'[b].status = "CANCELLED"
      Spared  == \A b \in BookingIds :
                   /\ sweep' # sweep /\ booking[b].item \in Intact'
                   /\ booking[b].status # "CANCELLED"
                   /\ booking'[b].status = "CANCELLED"
                   => /\ booking[b].status = "PENDING"
                      /\ booking[b].form # "SUBMITTED"
                      /\ ~money[b]
      Expired == \A i \in Intact' :
                   /\ item[i].by # None
                   /\ item'[i].by \notin {None, item[i].by}
                   => item[i].state = "RESERVED" /\ item[i].until = "PAST"
      ByMD    == \A b \in BookingIds :
                   /\ booking[b].status \in Confirmed /\ booking[b].item \in Intact'
                   /\ booking'[b].status = "CANCELLED"
                   => \E p \in Procs : /\ proc[p].b = b /\ proc[p].md
                                       /\ proc[p] # Idle /\ proc'[p] = Idle
<1>1. IntactInv /\ [Next]_vars => Final
  BY CancelledStays
<1>2. IntactInv /\ [Next]_vars => Spared
  BY SweepSpares
<1>3. IntactInv /\ [Next]_vars => Expired
  BY TakenOverOnlyExpired
<1>4. IntactInv /\ [Next]_vars => ByMD
  BY MDCancelsConfirmed
<1>5. Spec => [][Final]_vars
  BY <1>1, AlwaysIntact, PTL DEF Spec
<1>6. Spec => [][Spared]_vars
  BY <1>2, AlwaysIntact, PTL DEF Spec
<1>7. Spec => [][Expired]_vars
  BY <1>3, AlwaysIntact, PTL DEF Spec
<1>8. Spec => [][ByMD]_vars
  BY <1>4, AlwaysIntact, PTL DEF Spec
<1> QED
  BY <1>5, <1>6, <1>7, <1>8
  DEF DecisionsStay, CancelledIsFinal, SweepSparesCommitted, LockTakenOverOnlyExpired,
      OnlyMDCancelsConfirmed

-----------------------------------------------------------------------------
(* The component implements Sales.                                          *)

LEMMA InitSales == Init => Sale!Init
BY DEF Init, Sale!Init, Owner

SoldItem(i) == Owner(i) # None /\ booking[Owner(i)].status \in Confirmed

\* What Sales sees of a step is what it does to the items of bookings, to the
\* cancelled bookings, and to the owner and the sale of each item.
LEMMA SalesSees ==
  ASSUME \A b \in BookingIds : booking'[b].item = booking[b].item,
         \A b \in BookingIds :
            booking'[b].status = "CANCELLED" <=> booking[b].status = "CANCELLED",
         \A i \in Items : Owner(i)' = Owner(i) /\ (SoldItem(i)' <=> SoldItem(i))
  PROVE  UNCHANGED Sale!svars
<1>1. UNCHANGED [b \in BookingIds |-> booking[b].item]
  OBVIOUS
<1>2. UNCHANGED {b \in BookingIds : booking[b].status = "CANCELLED"}
  OBVIOUS
<1>3. UNCHANGED [i \in Items |-> Owner(i)]
  OBVIOUS
<1>4. UNCHANGED {i \in Items : Owner(i) # None /\ booking[Owner(i)].status \in Confirmed}
  BY DEF SoldItem
<1> QED
  BY <1>1, <1>2, <1>3, <1>4 DEF Sale!svars

LEMMA SalesStep ==
  ASSUME IntactInv, [Next]_vars, overtaken' = {}
  PROVE  Sale!Next \/ UNCHANGED Sale!svars
<1>0. /\ \A b \in BookingIds : booking[b].status # "ABSENT" => booking[b].item \in Items
      /\ \A i \in Items : item[i].by \in BookingIds \cup {None}
      /\ None \notin BookingIds \cup Items
  BY BookingsAssumption DEF IntactInv, Founding, WellFormed, TypeOK, BookingsHaveItems, ItemRow
<1>r. BlankBookings /\ Intact = Items /\ \A i \in Items : RowAgrees(i)
  <2>1. Intact' = Items
    BY DEF Intact
  <2> QED
    BY <2>1, StillIntact DEF IntactInv, Founding, Sound, RowSound, Intact
<1>1. CASE Restated \/ \E b \in BookingIds : Progresses(b)
  <2>1. \A i \in Items : item'[i].by = item[i].by
    BY <1>1, <1>r DEF Restated, Restates, Progresses, SameItems, SameItem
  <2>2. \A b \in BookingIds :
           /\ booking'[b].item = booking[b].item
           /\ booking'[b].status = "CANCELLED" <=> booking[b].status = "CANCELLED"
           /\ booking'[b].status \in Confirmed <=> booking[b].status \in Confirmed
    BY <1>1 DEF Restated, Progresses, OthersSame, SameBooking, Confirmed
  <2> QED
    BY <1>0, <2>1, <2>2, SalesSees DEF Owner, SoldItem
<1>2. ASSUME NEW b \in BookingIds, NEW i \in Items, Opens(b, i)
      PROVE  Sale!Open(b, i)
  <2>1. /\ \A c \in BookingIds \ {b} :
              booking'[c].status = booking[c].status /\ booking'[c].item = booking[c].item
        /\ booking[b].status = "ABSENT" /\ booking[b].item = None
        /\ booking'[b].status = "PENDING" /\ booking'[b].item = i
    BY <1>2, <1>r DEF Opens, OthersSame, SameBooking, BlankBookings
  <2>2. \A j \in Items : item[j].by # b
    BY <1>0, <1>r, <2>1 DEF RowAgrees
  <2>3. ~SoldItem(i)
    BY <1>0, <1>2, <1>r DEF SoldItem, Owner, Opens, RowAgrees, Undecided, Confirmed
  <2>4. \A j \in Items \ {i} : Owner(j)' = Owner(j) /\ (SoldItem(j)' <=> SoldItem(j))
    BY <1>0, <1>2, <2>1, <2>2 DEF Opens, Owner, SoldItem
  <2>5. Owner(i)' = b /\ ~SoldItem(i)'
    BY <1>0, <1>2, <2>1 DEF Opens, Owner, SoldItem, Confirmed
  <2>6. [c \in BookingIds |-> booking[c].item]' =
           [[c \in BookingIds |-> booking[c].item] EXCEPT ![b] = i]
    BY <2>1
  <2>7. [j \in Items |-> Owner(j)]' = [[j \in Items |-> Owner(j)] EXCEPT ![i] = b]
    BY <2>4, <2>5
  <2>8. UNCHANGED {c \in BookingIds : booking[c].status = "CANCELLED"}
    BY <2>1
  <2>9. UNCHANGED {j \in Items : Owner(j) # None /\ booking[Owner(j)].status \in Confirmed}
    BY <2>3, <2>4, <2>5 DEF SoldItem
  <2> QED
    BY <2>1, <2>3, <2>6, <2>7, <2>8, <2>9 DEF Sale!Open, SoldItem
<1>3. ASSUME NEW b \in BookingIds, NEW i \in Items, Confirms(b, i)
      PROVE  Sale!Sell(b, i)
  <2>1. /\ \A c \in BookingIds \ {b} :
              booking'[c].status = booking[c].status /\ booking'[c].item = booking[c].item
        /\ booking[b].status \in Undecided /\ booking[b].item = i
        /\ booking'[b].status = "CONFIRMED" /\ booking'[b].item = i
        /\ item[i].by \in {None, b}
    BY <1>3 DEF Confirms, OthersSame, SameBooking
  <2>2. \A j \in Items \ {i} : item[j].by # b
    BY <1>0, <1>r, <2>1 DEF RowAgrees
  <2>3. ~SoldItem(i) /\ Owner(i) \in {None, b}
    BY <1>0, <2>1 DEF SoldItem, Owner, Undecided, Confirmed
  <2>4. \A j \in Items \ {i} : Owner(j)' = Owner(j) /\ (SoldItem(j)' <=> SoldItem(j))
    BY <1>0, <1>3, <2>1, <2>2 DEF Confirms, Owner, SoldItem
  <2>5. Owner(i)' = b /\ SoldItem(i)'
    BY <1>0, <1>3, <2>1 DEF Confirms, Owner, SoldItem, Confirmed
  <2>6. UNCHANGED [c \in BookingIds |-> booking[c].item]
    BY <2>1
  <2>7. [j \in Items |-> Owner(j)]' = [[j \in Items |-> Owner(j)] EXCEPT ![i] = b]
    BY <2>4, <2>5
  <2>8. UNCHANGED {c \in BookingIds : booking[c].status = "CANCELLED"}
    BY <2>1 DEF Undecided
  <2>9. {j \in Items : Owner(j) # None /\ booking[Owner(j)].status \in Confirmed}' =
           {j \in Items : Owner(j) # None /\ booking[Owner(j)].status \in Confirmed} \cup {i}
    BY <2>4, <2>5 DEF SoldItem
  <2> QED
    BY <2>1, <2>3, <2>6, <2>7, <2>8, <2>9 DEF Sale!Sell, SoldItem, Undecided
<1>4. ASSUME NEW b \in BookingIds, NEW i \in Items, Cancels(b, i)
      PROVE  Sale!Close(b) \/ UNCHANGED Sale!svars
  <2>1. /\ \A c \in BookingIds \ {b} :
              booking'[c].status = booking[c].status /\ booking'[c].item = booking[c].item
        /\ booking[b].status # "ABSENT" /\ booking[b].item = i
        /\ booking'[b].status = "CANCELLED" /\ booking'[b].item = i
    BY <1>4 DEF Cancels, OthersSame, SameBooking
  <2>2. \A j \in Items \ {i} : item[j].by # b
    BY <1>0, <1>r, <2>1 DEF RowAgrees
  <2>3. \A j \in Items : item[j].by # b => item'[j].by = item[j].by
    BY <1>4, <2>1 DEF Cancels
  <2>4. \A j \in Items :
           IF Owner(j) = b THEN Owner(j)' = None
           ELSE Owner(j)' = Owner(j) /\ (SoldItem(j)' <=> SoldItem(j))
    <3> SUFFICES ASSUME NEW j \in Items
                 PROVE  IF Owner(j) = b THEN Owner(j)' = None
                        ELSE Owner(j)' = Owner(j) /\ (SoldItem(j)' <=> SoldItem(j))
      OBVIOUS
    <3>1. CASE item[j].by # b
      BY <1>0, <2>1, <2>3, <3>1 DEF Owner, SoldItem
    <3>2. CASE item[j].by = b
      <4>1. j = i /\ item'[j].by \in {None, b}
        BY <1>4, <2>2, <3>2 DEF Cancels
      <4> QED
        BY <1>0, <2>1, <3>2, <4>1 DEF Owner, SoldItem
    <3> QED
      BY <3>1, <3>2
  <2>5. CASE booking[b].status = "CANCELLED"
    <3>1. \A j \in Items : Owner(j) # b
      BY <1>0, <2>5 DEF Owner
    <3> QED
      BY <2>1, <2>4, <2>5, <3>1, SalesSees
  <2>6. CASE booking[b].status # "CANCELLED"
    <3>1. UNCHANGED [c \in BookingIds |-> booking[c].item]
      BY <2>1
    <3>2. {c \in BookingIds : booking[c].status = "CANCELLED"}' =
             {c \in BookingIds : booking[c].status = "CANCELLED"} \cup {b}
      BY <2>1
    <3>3. [j \in Items |-> Owner(j)]' =
             [j \in Items |-> IF [k \in Items |-> Owner(k)][j] = b THEN None
                              ELSE [k \in Items |-> Owner(k)][j]]
      BY <2>4
    <3>4. {j \in Items : Owner(j) # None /\ booking[Owner(j)].status \in Confirmed}' =
             {j \in {k \in Items : Owner(k) # None /\ booking[Owner(k)].status \in Confirmed} :
                [k \in Items |-> Owner(k)][j] # b}
      BY <1>0, <2>4 DEF SoldItem
    <3> QED
      BY <1>0, <2>1, <2>6, <3>1, <3>2, <3>3, <3>4 DEF Sale!Close
  <2> QED
    BY <2>5, <2>6
<1> QED
  BY <1>1, <1>2, <1>3, <1>4, <1>r, EveryEffect DEF Effects, Sale!Next

\* The booking component sells each item to one open booking at a time: until a
\* reader is overtaken, every step is a step of Sales or changes nothing that
\* Sales shows.
THEOREM SalesCorrect == Spec => ImplementsSales
<1> DEFINE Implements == overtaken' = {} => [Sale!Next]_(Sale!svars)
<1>1. IntactInv /\ [Next]_vars => Implements
  BY SalesStep
<1>2. Spec => [][Implements]_vars
  BY <1>1, AlwaysIntact, PTL DEF Spec
<1> QED
  BY <1>2, InitSales, PTL DEF Spec, ImplementsSales
=============================================================================
