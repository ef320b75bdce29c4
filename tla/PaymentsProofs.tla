--------------------------- MODULE PaymentsProofs ---------------------------
(***************************************************************************)
(* What is proved about Payments for every set of payments, instalments    *)
(* and concurrent requests.                                                *)
(***************************************************************************)
EXTENDS Payments, FiniteSetTheorems, TLAPS

-----------------------------------------------------------------------------
(* Types.                                                                   *)

LEMMA RequestTypes ==
  /\ Idle \in Request
  /\ NewInst \in InstRow
  BY PaymentsAssumption DEF Idle, Request, NewInst, InstRow, InstStatus, Verdict, PaymentStatus

LEMMA InstStatusTyped ==
  ASSUME NEW i, NEW n
  PROVE  InstStatusOf(i, n) \in InstStatus
  BY DEF InstStatusOf, InstStatus

LEMMA ClippedTyped ==
  ASSUME NEW n \in Int
  PROVE  AtLeastZero(n) \in Nat
  BY DEF AtLeastZero

\* What a verification writes besides the money it moves.
LEMMA VerifyWrites ==
  ASSUME NEW p \in Procs, CommitVerify(p)
  PROVE  /\ proc[p].op = "VERIFY" /\ proc[p].st = "TX"
         /\ payment' = [payment EXCEPT ![proc[p].pay].status = proc[p].to]
         /\ successes' = [successes EXCEPT ![proc[p].pay] =
                            IF proc[p].to = "SUCCESS" THEN @ + 1 ELSE @]
         /\ proc' = [proc EXCEPT ![p] = Idle]
         /\ UNCHANGED <<cancelled, overlapped, undercut>>
         /\ \/ Collect(proc[p]) /\ proc[p].to = "SUCCESS" /\ proc[p].inst # None
            \/ GiveBack(proc[p]) /\ proc[p].to = "REFUNDED" /\ proc[p].inst # None
            \/ MoveBalance(proc[p]) /\ proc[p].to # "FAILED" /\ proc[p].inst = None
            \/ NoMoneyMoves(proc[p]) /\ proc[p].to # "SUCCESS"
  BY DEF CommitVerify, Finish, Continue, Refunds

LEMMA StepTypes == TypeOK /\ [Next]_vars => TypeOK'
<1> SUFFICES ASSUME TypeOK, [Next]_vars PROVE TypeOK'
  OBVIOUS
<1> USE RequestTypes, PaymentsAssumption DEF TypeOK
<1>1. CASE UNCHANGED vars
  BY <1>1 DEF vars, rows
<1>2. ASSUME NEW p \in Procs, NEW x \in PaymentIds, NEW a \in Amounts, NEW i \in Targets,
             ReadForRecord(p, x, a, i)
      PROVE  TypeOK'
  <2>1. [Idle EXCEPT !.op = "RECORD", !.pay = x, !.amount = a, !.inst = i] \in Request
    BY DEF Request, Idle
  <2> QED
    BY <1>2, <2>1 DEF ReadForRecord, Start, rows
<1>3. ASSUME NEW p \in Procs, NEW x \in PaymentIds, NEW to \in Verdict, ReadPayment(p, x, to)
      PROVE  TypeOK'
  <2>1. [Idle EXCEPT !.op = "VERIFY", !.pay = x, !.to = to, !.amount = payment[x].amount,
                     !.inst = payment[x].inst, !.was = payment[x].status] \in Request
    BY DEF Request, Idle, PaymentRow
  <2> QED
    BY <1>3, <2>1 DEF ReadPayment, Start, rows
<1>4. ASSUME NEW p \in Procs, ReadForCancel(p)
      PROVE  TypeOK'
  <2>1. [Idle EXCEPT !.op = "CANCEL", !.st = "CHECKED"] \in Request
    BY DEF Request, Idle
  <2> QED
    BY <1>4, <2>1 DEF ReadForCancel, Start, rows
<1>5. ASSUME NEW p \in Procs, RecordPayment(p)
      PROVE  TypeOK'
  <2>1. [status |-> "PENDING", amount |-> proc[p].amount, inst |-> proc[p].inst] \in PaymentRow
    BY DEF PaymentRow, PaymentStatus, Request
  <2> QED
    BY <1>5, <2>1 DEF RecordPayment, Finish, Continue
<1>6. ASSUME NEW p \in Procs, ReadBooking(p)
      PROVE  TypeOK'
  <2>1. [proc[p] EXCEPT !.st = "CHECKED",
                        !.balance = IF proc[p].inst = None THEN balance ELSE @] \in Request
    BY DEF Request
  <2> QED
    BY <1>6, <2>1 DEF ReadBooking, Finish, Continue, rows
<1>7. ASSUME NEW p \in Procs, BeginVerify(p)
      PROVE  TypeOK'
  <2>1. [proc[p] EXCEPT !.st = "TX",
                        !.seen = IF proc[p].inst # None THEN inst[proc[p].inst] ELSE @] \in Request
    BY DEF Request
  <2> QED
    BY <1>7, <2>1 DEF BeginVerify, Continue, rows
<1>8. ASSUME NEW p \in Procs, CommitVerify(p)
      PROVE  TypeOK'
  <2> DEFINE r == proc[p]
  <2>1. r \in Request
    OBVIOUS
  <2>2. payment' \in [PaymentIds -> PaymentRow]
    <3>1. r.to \in PaymentStatus
      BY <2>1 DEF Request, Verdict, PaymentStatus
    <3>2. payment' = [payment EXCEPT ![r.pay].status = r.to]
      BY <1>8, VerifyWrites
    <3>3. payment \in [PaymentIds -> PaymentRow]
      OBVIOUS
    <3> HIDE DEF TypeOK, r
    <3> QED
      BY <3>1, <3>2, <3>3 DEF PaymentRow
  <2>3. /\ successes' \in [PaymentIds -> Nat]
        /\ proc' \in [Procs -> Request]
        /\ cancelled' \in BOOLEAN
        /\ overlapped' \in BOOLEAN
        /\ undercut' \subseteq Insts
    <3>1. successes' = [successes EXCEPT ![r.pay] = IF r.to = "SUCCESS" THEN @ + 1 ELSE @]
      BY <1>8, VerifyWrites
    <3>2. proc' = [proc EXCEPT ![p] = Idle] /\ UNCHANGED <<cancelled, overlapped, undercut>>
      BY <1>8, VerifyWrites
    <3>3. successes' \in [PaymentIds -> Nat]
      <4>1. successes \in [PaymentIds -> Nat]
        OBVIOUS
      <4>2. \A x \in PaymentIds : successes[x] + 1 \in Nat
        BY <4>1
      <4> HIDE DEF TypeOK
      <4> QED
        BY <3>1, <4>1, <4>2
    <3> QED
      BY <3>2, <3>3
  <2>4. /\ inst' \in [Insts -> InstRow]
        /\ balance' \in Nat
        /\ told' \in [PaymentIds \cup Insts -> Verdict \cup InstStatus \cup {None}]
    <3>1. CASE Collect(r)
      <4> DEFINE received == r.seen.received + r.amount
                 status   == InstStatusOf(r.inst, received)
      <4>1. received \in Nat /\ status \in InstStatus
        BY <2>1, InstStatusTyped DEF InstRow, Request
      <4>2. /\ inst' = [inst EXCEPT ![r.inst] = [received |-> received, status |-> status]]
            /\ told' = [told EXCEPT ![r.pay] = "SUCCESS",
                                    ![r.inst] = IF status = r.seen.status THEN @ ELSE status]
            /\ UNCHANGED balance
        BY <3>1 DEF Collect
      <4>3. [received |-> received, status |-> status] \in InstRow
        BY <4>1 DEF InstRow
      <4> HIDE DEF received, status
      <4> QED
        BY <4>1, <4>2, <4>3 DEF Verdict
    <3>2. CASE GiveBack(r)
      <4>1. AtLeastZero(r.seen.received - r.amount) \in Nat
        BY <2>1, ClippedTyped DEF Request, InstRow
      <4> QED
        BY <3>2, <4>1 DEF GiveBack, InstRow, InstStatus, Verdict
    <3>3. CASE MoveBalance(r)
      <4>1. ReducedBalance(r) \in Nat /\ RestoredBalance(r) \in Nat
        BY <2>1, ClippedTyped DEF ReducedBalance, RestoredBalance, Request
      <4> QED
        BY <2>1, <3>3, <4>1 DEF MoveBalance, Request
    <3>4. CASE NoMoneyMoves(r)
      BY <3>4 DEF NoMoneyMoves, Verdict
    <3> QED
      BY <1>8, <3>1, <3>2, <3>3, <3>4, VerifyWrites
  <2> QED
    BY <2>2, <2>3, <2>4
<1>9. ASSUME NEW p \in Procs, BeginCancel(p)
      PROVE  TypeOK'
  <2>1. [proc[p] EXCEPT !.st = "TX",
                        !.due = {x \in PaymentIds : payment[x].status \in Refundable}] \in Request
    BY DEF Request
  <2> QED
    BY <1>9, <2>1 DEF BeginCancel, Continue, rows
<1>10. ASSUME NEW p \in Procs, CommitCancel(p)
       PROVE  TypeOK'
  <2>1. payment' \in [PaymentIds -> PaymentRow]
    BY <1>10 DEF CommitCancel, PaymentRow, PaymentStatus
  <2> QED
    BY <1>10, <2>1 DEF CommitCancel, Finish, Continue
<1>11. ASSUME NEW p \in Procs, Fail(p)
       PROVE  TypeOK'
  BY <1>11 DEF Fail, Finish, Continue, rows
<1> QED
  BY <1>1, <1>2, <1>3, <1>4, <1>5, <1>6, <1>7, <1>8, <1>9, <1>10, <1>11 DEF Next

LEMMA InitTypes == Init => TypeOK
<1> SUFFICES ASSUME Init PROVE TypeOK
  OBVIOUS
<1>1. [status |-> "ABSENT", amount |-> 0, inst |-> None] \in PaymentRow
  BY DEF PaymentRow, PaymentStatus
<1> QED
  BY <1>1, RequestTypes, PaymentsAssumption DEF Init, TypeOK

\* Every row and every request in flight has its type in every reachable state: in
\* particular neither received amounts nor the balance become negative.
THEOREM TypeCorrect == Spec => []TypeOK
<1> QED
  BY InitTypes, StepTypes, PTL DEF Spec

-----------------------------------------------------------------------------
(* Instalments.  Their status is right after a refund only because amounts  *)
(* are positive, and their limit holds after one only because what the      *)
(* refund read respected it.                                                *)

PaymentsHaveAmounts ==
    \A x \in PaymentIds : payment[x].status # "ABSENT" => payment[x].amount > 0

\* What the request in flight r stands on.
Founded(r) ==
    /\ r.op \in {"RECORD", "VERIFY"} => r.amount > 0
    /\ r.op = "VERIFY" => r.pay \in PaymentIds /\ payment[r.pay].status # "ABSENT"
    /\ r.inst # None => r.seen.received <= Expected[r.inst]
    /\ \A x \in r.due : payment[x].status # "ABSENT"

RequestsFounded == \A p \in Procs : Founded(proc[p])

IInv == TypeOK /\ PaymentsHaveAmounts /\ RequestsFounded /\ InstalmentsSound

LEMMA PaymentWriters ==
  ASSUME [Next]_vars
  PROVE  \/ UNCHANGED payment
         \/ \E p \in Procs : RecordPayment(p) \/ CommitVerify(p) \/ CommitCancel(p)
  BY DEF Next, vars, rows, Start, ReadForRecord, ReadPayment, ReadForCancel, ReadBooking,
         BeginVerify, BeginCancel, Fail

\* Recorded payments stay, with their amounts.
LEMMA PaymentsStay ==
  ASSUME TypeOK, [Next]_vars, NEW x \in PaymentIds, payment[x].status # "ABSENT"
  PROVE  payment'[x].status # "ABSENT" /\ payment'[x].amount = payment[x].amount
<1>1. CASE UNCHANGED payment
  BY <1>1
<1>2. ASSUME NEW p \in Procs, RecordPayment(p)
      PROVE  payment'[x] = payment[x]
  BY <1>2 DEF RecordPayment, TypeOK
<1>3. ASSUME NEW p \in Procs, CommitVerify(p)
      PROVE  payment'[x].status # "ABSENT" /\ payment'[x].amount = payment[x].amount
  <2>1. payment' = [payment EXCEPT ![proc[p].pay].status = proc[p].to]
    BY <1>3, VerifyWrites
  <2>2. proc[p].to # "ABSENT"
    BY DEF TypeOK, Request, Verdict
  <2> QED
    BY <2>1, <2>2 DEF TypeOK, PaymentRow
<1>4. ASSUME NEW p \in Procs, CommitCancel(p)
      PROVE  payment'[x].status # "ABSENT" /\ payment'[x].amount = payment[x].amount
  BY <1>4 DEF CommitCancel, TypeOK, PaymentRow
<1> QED
  BY <1>1, <1>2, <1>3, <1>4, PaymentWriters

LEMMA AmountsStep ==
  ASSUME TypeOK, PaymentsHaveAmounts, RequestsFounded, [Next]_vars
  PROVE  PaymentsHaveAmounts'
<1> SUFFICES ASSUME NEW x \in PaymentIds, payment'[x].status # "ABSENT"
             PROVE  payment'[x].amount > 0
  BY DEF PaymentsHaveAmounts
<1>1. CASE payment[x].status # "ABSENT"
  BY <1>1, PaymentsStay DEF PaymentsHaveAmounts
<1>2. CASE payment[x].status = "ABSENT"
  <2>1. ASSUME NEW p \in Procs, RecordPayment(p)
        PROVE  payment'[x].amount > 0
    <3>1. proc[p].amount > 0
      BY <2>1 DEF RecordPayment, RequestsFounded, Founded
    <3> QED
      BY <1>2, <2>1, <3>1 DEF RecordPayment, TypeOK
  <2>2. ASSUME NEW p \in Procs, CommitVerify(p)
        PROVE  payment'[x].amount > 0
    <3>1. payment' = [payment EXCEPT ![proc[p].pay].status = proc[p].to] /\ proc[p].op = "VERIFY"
      BY <2>2, VerifyWrites
    <3>2. proc[p].pay # x
      BY <1>2, <3>1 DEF RequestsFounded, Founded
    <3> QED
      BY <1>2, <3>1, <3>2 DEF TypeOK
  <2>3. ASSUME NEW p \in Procs, CommitCancel(p)
        PROVE  payment'[x].amount > 0
    <3>1. x \notin proc[p].due
      BY <1>2 DEF RequestsFounded, Founded
    <3> QED
      BY <1>2, <2>3, <3>1 DEF CommitCancel, TypeOK
  <2> QED
    BY <1>2, <2>1, <2>2, <2>3, PaymentWriters
<1> QED
  BY <1>1, <1>2

\* Whoever was founded stays so: payments stay.
LEMMA FoundedStays ==
  ASSUME TypeOK, [Next]_vars, NEW r \in Request, Founded(r)
  PROVE  Founded(r)'
<1>1. r.op = "VERIFY" => r.pay \in PaymentIds /\ payment'[r.pay].status # "ABSENT"
  BY PaymentsStay DEF Founded
<1>2. \A x \in r.due : payment'[x].status # "ABSENT"
  BY PaymentsStay DEF Founded, Request
<1> QED
  BY <1>1, <1>2 DEF Founded

LEMMA IdleFounded == Founded(Idle) /\ Founded(Idle)'
  BY DEF Founded, Idle

\* A new request is founded on what it reads, and one that reads again stays so.
LEMMA RequestsStep ==
  ASSUME TypeOK, PaymentsHaveAmounts, RequestsFounded, InstalmentsSound, [Next]_vars,
         NEW q \in Procs
  PROVE  Founded(proc[q])' \/ \E r \in Request : Founded(r) /\ proc'[q] = r
<1> USE DEF RequestsFounded
<1>1. CASE UNCHANGED proc
  BY <1>1 DEF TypeOK
<1>2. ASSUME NEW p \in Procs, NEW x \in PaymentIds, NEW a \in Amounts, NEW i \in Targets,
             ReadForRecord(p, x, a, i)
      PROVE  \E r \in Request : Founded(r) /\ proc'[q] = r
  <2> DEFINE r == [Idle EXCEPT !.op = "RECORD", !.pay = x, !.amount = a, !.inst = i]
  <2>1. r \in Request
    BY PaymentsAssumption, RequestTypes DEF Request, Idle
  <2>2. Founded(r)
    BY PaymentsAssumption DEF Founded, Idle, NewInst
  <2>3. proc'[q] = r \/ proc'[q] = proc[q]
    BY <1>2 DEF ReadForRecord, Start, TypeOK
  <2> QED
    BY <2>1, <2>2, <2>3 DEF TypeOK
<1>3. ASSUME NEW p \in Procs, NEW x \in PaymentIds, NEW to \in Verdict, ReadPayment(p, x, to)
      PROVE  \E r \in Request : Founded(r) /\ proc'[q] = r
  <2> DEFINE r == [Idle EXCEPT !.op = "VERIFY", !.pay = x, !.to = to,
                               !.amount = payment[x].amount, !.inst = payment[x].inst,
                               !.was = payment[x].status]
  <2>1. r \in Request
    BY PaymentsAssumption, RequestTypes DEF Request, Idle, TypeOK, PaymentRow
  <2>2. Founded(r)
    <3>1. payment[x].status # "ABSENT" /\ payment[x].amount > 0
      BY <1>3 DEF ReadPayment, PaymentsHaveAmounts
    <3>2. payment[x].inst # None => 0 <= Expected[payment[x].inst]
      BY PaymentsAssumption DEF TypeOK, PaymentRow
    <3> QED
      BY <3>1, <3>2 DEF Founded, Idle, NewInst
  <2>3. proc'[q] = r \/ proc'[q] = proc[q]
    BY <1>3 DEF ReadPayment, Start, TypeOK
  <2> QED
    BY <2>1, <2>2, <2>3 DEF TypeOK
<1>4. ASSUME NEW p \in Procs, ReadForCancel(p)
      PROVE  \E r \in Request : Founded(r) /\ proc'[q] = r
  <2> DEFINE r == [Idle EXCEPT !.op = "CANCEL", !.st = "CHECKED"]
  <2>1. r \in Request
    BY PaymentsAssumption, RequestTypes DEF Request, Idle
  <2>2. Founded(r)
    BY DEF Founded, Idle
  <2>3. proc'[q] = r \/ proc'[q] = proc[q]
    BY <1>4 DEF ReadForCancel, Start, TypeOK
  <2> QED
    BY <2>1, <2>2, <2>3 DEF TypeOK
<1>5. ASSUME NEW p \in Procs, NEW r \in Request, Founded(r), Continue(p, r)
      PROVE  \E s \in Request : Founded(s) /\ proc'[q] = s
  BY <1>5 DEF Continue, TypeOK
<1>6. ASSUME NEW p \in Procs, Finish(p)
      PROVE  \E r \in Request : Founded(r) /\ proc'[q] = r
  BY <1>5, <1>6, IdleFounded, RequestTypes DEF Finish
<1>7. ASSUME NEW p \in Procs, ReadBooking(p)
      PROVE  \E r \in Request : Founded(r) /\ proc'[q] = r
  <2> DEFINE r == [proc[p] EXCEPT !.st = "CHECKED",
                                  !.balance = IF proc[p].inst = None THEN balance ELSE @]
  <2>1. r \in Request /\ Founded(r)
    BY DEF TypeOK, Request, Founded
  <2> QED
    BY <1>5, <1>6, <1>7, <2>1 DEF ReadBooking
<1>8. ASSUME NEW p \in Procs, BeginVerify(p)
      PROVE  \E r \in Request : Founded(r) /\ proc'[q] = r
  <2> DEFINE r == [proc[p] EXCEPT !.st = "TX",
                                  !.seen = IF proc[p].inst # None THEN inst[proc[p].inst] ELSE @]
  <2>1. r \in Request
    BY DEF TypeOK, Request
  <2>2. Founded(r)
    BY DEF TypeOK, Request, Founded, InstalmentsSound
  <2> QED
    BY <1>5, <1>8, <2>1, <2>2 DEF BeginVerify
<1>9. ASSUME NEW p \in Procs, BeginCancel(p)
      PROVE  \E r \in Request : Founded(r) /\ proc'[q] = r
  <2> DEFINE r == [proc[p] EXCEPT !.st = "TX",
                        !.due = {x \in PaymentIds : payment[x].status \in Refundable}]
  <2>1. r \in Request
    BY DEF TypeOK, Request
  <2>2. Founded(r)
    BY DEF TypeOK, Request, Founded, Refundable
  <2> QED
    BY <1>5, <1>9, <2>1, <2>2 DEF BeginCancel
<1>10. ASSUME NEW p \in Procs, RecordPayment(p) \/ CommitVerify(p) \/ CommitCancel(p) \/ Fail(p)
       PROVE  \E r \in Request : Founded(r) /\ proc'[q] = r
  BY <1>6, <1>10 DEF RecordPayment, CommitVerify, CommitCancel, Fail
<1> QED
  BY <1>1, <1>2, <1>3, <1>4, <1>7, <1>8, <1>9, <1>10 DEF Next, vars

LEMMA RequestsFoundedStep ==
  ASSUME TypeOK, PaymentsHaveAmounts, RequestsFounded, InstalmentsSound, [Next]_vars
  PROVE  RequestsFounded'
<1> SUFFICES ASSUME NEW q \in Procs PROVE Founded(proc[q])'
  BY DEF RequestsFounded
<1>1. ASSUME NEW r \in Request, Founded(r), proc'[q] = r
      PROVE  Founded(proc[q])'
  <2>1. Founded(r)'
    BY <1>1, FoundedStays
  <2> QED
    BY <1>1, <2>1 DEF Founded
<1> QED
  BY <1>1, RequestsStep

\* Collecting respects the limit because the rest was checked on the snapshot.
LEMMA CollectSound ==
  ASSUME TypeOK, InstalmentsSound, NEW r \in Request, r.inst # None, Collect(r)
  PROVE  InstalmentsSound'
<1> DEFINE received == r.seen.received + r.amount
<1>1. received \in Nat /\ received <= Expected[r.inst]
  BY PaymentsAssumption DEF Collect, MayCollect, Request, InstRow
<1>2. inst' = [inst EXCEPT ![r.inst] =
                 [received |-> received, status |-> InstStatusOf(r.inst, received)]]
  BY DEF Collect
<1> HIDE DEF received
<1>3. \A i \in Insts : /\ inst'[i].received <= Expected[i]
                       /\ inst'[i].status = InstStatusOf(i, inst'[i].received)
  BY <1>1, <1>2 DEF InstalmentsSound, TypeOK
<1> QED
  BY <1>3 DEF InstalmentsSound, InstStatusOf

\* Giving back leaves less than the snapshot, which respected the limit.
LEMMA GiveBackSound ==
  ASSUME TypeOK, InstalmentsSound, NEW r \in Request, Founded(r), r.op = "VERIFY",
         r.inst # None, GiveBack(r)
  PROVE  InstalmentsSound'
<1> DEFINE received == AtLeastZero(r.seen.received - r.amount)
           status   == IF received <= 0 THEN "PENDING" ELSE "PARTIALLY_RECEIVED"
<1>1. r.inst \in Insts /\ Expected[r.inst] \in Nat \ {0}
  BY PaymentsAssumption DEF Request
<1>2. received \in Nat /\ received < Expected[r.inst]
  BY <1>1 DEF Founded, Request, InstRow, AtLeastZero
<1>3. status = InstStatusOf(r.inst, received)
  BY <1>1, <1>2 DEF InstStatusOf
<1>4. inst' = [inst EXCEPT ![r.inst] = [received |-> received, status |-> status]]
  BY DEF GiveBack
<1> HIDE DEF received, status
<1>5. \A i \in Insts : /\ inst'[i].received <= Expected[i]
                       /\ inst'[i].status = InstStatusOf(i, inst'[i].received)
  BY <1>1, <1>2, <1>3, <1>4 DEF InstalmentsSound, TypeOK
<1> QED
  BY <1>5 DEF InstalmentsSound, InstStatusOf

LEMMA InstalmentsStep ==
  ASSUME TypeOK, RequestsFounded, InstalmentsSound, [Next]_vars
  PROVE  InstalmentsSound'
<1>1. CASE UNCHANGED inst
  BY <1>1 DEF InstalmentsSound, InstStatusOf
<1>2. ASSUME NEW p \in Procs, CommitVerify(p)
      PROVE  InstalmentsSound'
  <2>1. proc[p] \in Request /\ Founded(proc[p]) /\ proc[p].op = "VERIFY"
    BY <1>2, VerifyWrites DEF TypeOK, RequestsFounded
  <2>2. \/ UNCHANGED inst
        \/ Collect(proc[p]) /\ proc[p].inst # None
        \/ GiveBack(proc[p]) /\ proc[p].inst # None
    BY <1>2, VerifyWrites DEF MoveBalance, NoMoneyMoves
  <2> QED
    BY <1>1, <2>1, <2>2, CollectSound, GiveBackSound
<1> QED
  BY <1>1, <1>2 DEF Next, vars, rows, Start, ReadForRecord, ReadPayment, ReadForCancel,
                    RecordPayment, ReadBooking, BeginVerify, BeginCancel, CommitCancel, Fail

LEMMA InitSound == Init => IInv
<1> SUFFICES ASSUME Init PROVE IInv
  OBVIOUS
<1>1. \A i \in Insts : Expected[i] \in Nat \ {0}
  BY PaymentsAssumption
<1>2. InstalmentsSound
  BY <1>1 DEF Init, InstalmentsSound, InstStatusOf, NewInst
<1>3. RequestsFounded
  BY IdleFounded DEF Init, RequestsFounded
<1>4. PaymentsHaveAmounts
  BY DEF Init, PaymentsHaveAmounts
<1> QED
  BY <1>2, <1>3, <1>4, InitTypes DEF IInv

LEMMA SoundStep == IInv /\ [Next]_vars => IInv'
  BY StepTypes, AmountsStep, RequestsFoundedStep, InstalmentsStep DEF IInv

LEMMA AlwaysSound == Spec => []IInv
<1> QED
  BY SoundStep, InitSound, PTL DEF Spec

\* However requests overlap, no instalment is collected beyond what it asks for and
\* its status says how much of it has arrived.
THEOREM InstalmentsCorrect == Spec => []InstalmentsSound
<1>1. IInv => InstalmentsSound
  BY DEF IInv
<1> QED
  BY <1>1, AlwaysSound, PTL

-----------------------------------------------------------------------------
(* As long as no two requests overlap, what a request has read is true when *)
(* it writes.                                                               *)

Current(r) ==
    /\ r.op = "RECORD" => ~cancelled
    /\ r.op = "VERIFY" => payment[r.pay].status = r.was /\ payment[r.pay].inst = r.inst
    /\ r.op = "VERIFY" /\ r.st # "READ" => Allowed(r.was, r.to)
    /\ r.op = "VERIFY" /\ r.st = "TX" /\ r.inst # None => r.seen = inst[r.inst]
    /\ r.op = "CANCEL" /\ r.st = "TX" =>
         r.due = {x \in PaymentIds : payment[x].status \in Refundable}

OneAtATime == ~overlapped => \A p, q \in Procs : proc[p] # Idle /\ proc[q] # Idle => p = q

ReadsCurrent == ~overlapped => \A p \in Procs : Current(proc[p])

SoloInv == IInv /\ OneAtATime /\ ReadsCurrent /\ NothingPendingAfterCancel

LEMMA IdleCurrent == Current(Idle) /\ Current(Idle)'
  BY DEF Current, Idle

\* A step that leaves no overlap behind is one process's, and the others are idle
\* before and after it.
LEMMA Solo ==
  ASSUME TypeOK, OneAtATime, NEW p \in Procs, NEW r, ~overlapped',
         \/ Continue(p, r) /\ proc[p] # Idle
         \/ Start(p, r)
  PROVE  /\ ~overlapped
         /\ proc' = [proc EXCEPT ![p] = r]
         /\ \A q \in Procs : q # p => proc[q] = Idle /\ proc'[q] = Idle
<1>1. CASE Continue(p, r) /\ proc[p] # Idle
  <2>1. ~overlapped /\ proc' = [proc EXCEPT ![p] = r]
    BY <1>1 DEF Continue
  <2> QED
    BY <1>1, <2>1 DEF OneAtATime, TypeOK
<1>2. CASE Start(p, r)
  <2>1. ~overlapped
    BY <1>2 DEF Start, TypeOK
  <2>2. ~\E q \in Procs : proc[q] # Idle
    BY <1>2 DEF Start, TypeOK
  <2> QED
    BY <1>2, <2>1, <2>2 DEF Start, TypeOK
<1> QED
  BY <1>1, <1>2

\* Then only that process's new request has to be current.
LEMMA SoloStep ==
  ASSUME TypeOK, OneAtATime, NEW p \in Procs, NEW r,
         \/ Continue(p, r) /\ proc[p] # Idle
         \/ Start(p, r),
         ~overlapped' => Current(r)'
  PROVE  OneAtATime' /\ ReadsCurrent'
<1>1. SUFFICES ASSUME ~overlapped' PROVE OneAtATime' /\ ReadsCurrent'
  BY DEF OneAtATime, ReadsCurrent
<1>2. /\ proc' = [proc EXCEPT ![p] = r]
      /\ \A q \in Procs : q # p => proc'[q] = Idle
  BY <1>1, Solo
<1>3. proc'[p] = r
  BY <1>2 DEF TypeOK
<1>4. OneAtATime'
  BY <1>2 DEF OneAtATime
<1>5. Current(proc[p])'
  BY <1>1, <1>3 DEF Current
<1>6. \A q \in Procs : q # p => Current(proc[q])'
  BY <1>2, IdleCurrent DEF Current
<1> QED
  BY <1>4, <1>5, <1>6 DEF ReadsCurrent

LEMMA OverlapStays ==
  ASSUME TypeOK, [Next]_vars, overlapped
  PROVE  overlapped'
<1> USE DEF Continue, Finish, Start
<1>1. CASE UNCHANGED vars
  BY <1>1 DEF vars
<1>2. ASSUME NEW p \in Procs, NEW r, Start(p, r)
      PROVE  overlapped'
  BY <1>2
<1> QED
  BY <1>1, <1>2 DEF Next, ReadForRecord, ReadPayment, ReadForCancel, RecordPayment,
     ReadBooking, BeginVerify, CommitVerify, BeginCancel, CommitCancel, Fail

LEMMA SoloInvStep ==
  ASSUME IInv, OneAtATime, ReadsCurrent, NothingPendingAfterCancel, [Next]_vars
  PROVE  OneAtATime' /\ ReadsCurrent' /\ NothingPendingAfterCancel'
<1> USE DEF IInv
<1>0. overlapped => overlapped'
  BY OverlapStays
<1>1. CASE UNCHANGED vars
  BY <1>1 DEF vars, rows, OneAtATime, ReadsCurrent, Current, NothingPendingAfterCancel
<1>2. ASSUME NEW p \in Procs, NEW x \in PaymentIds, NEW a \in Amounts, NEW i \in Targets,
             ReadForRecord(p, x, a, i)
      PROVE  OneAtATime' /\ ReadsCurrent' /\ NothingPendingAfterCancel'
  <2>1. PICK r : /\ r = [Idle EXCEPT !.op = "RECORD", !.pay = x, !.amount = a, !.inst = i]
                 /\ Start(p, r) /\ ~cancelled'
    BY <1>2 DEF ReadForRecord, Start, rows
  <2>2. r.op = "RECORD"
    BY <2>1 DEF Idle
  <2>3. Current(r)'
    BY <2>1, <2>2 DEF Current
  <2> QED
    BY <2>1, <2>3, SoloStep DEF NothingPendingAfterCancel
<1>3. ASSUME NEW p \in Procs, NEW x \in PaymentIds, NEW to \in Verdict, ReadPayment(p, x, to)
      PROVE  OneAtATime' /\ ReadsCurrent' /\ NothingPendingAfterCancel'
  <2>1. PICK r : /\ r = [Idle EXCEPT !.op = "VERIFY", !.pay = x, !.to = to,
                               !.amount = payment[x].amount, !.inst = payment[x].inst,
                               !.was = payment[x].status]
                 /\ Start(p, r) /\ UNCHANGED rows
    BY <1>3 DEF ReadPayment, Start
  <2>2. /\ r.op = "VERIFY" /\ r.st = "READ" /\ r.pay = x
        /\ r.was = payment[x].status /\ r.inst = payment[x].inst
    BY <2>1 DEF Idle
  <2>3. Current(r)'
    BY <2>1, <2>2 DEF Current, rows
  <2>4. NothingPendingAfterCancel'
    BY <1>0, <2>1 DEF NothingPendingAfterCancel, rows
  <2> QED
    BY <2>1, <2>3, <2>4, SoloStep
<1>4. ASSUME NEW p \in Procs, ReadForCancel(p)
      PROVE  OneAtATime' /\ ReadsCurrent' /\ NothingPendingAfterCancel'
  <2>1. PICK r : /\ r = [Idle EXCEPT !.op = "CANCEL", !.st = "CHECKED"]
                 /\ Start(p, r) /\ UNCHANGED rows
    BY <1>4 DEF ReadForCancel, Start
  <2>2. r.op = "CANCEL" /\ r.st = "CHECKED"
    BY <2>1 DEF Idle
  <2>3. Current(r)'
    BY <2>2 DEF Current
  <2>4. NothingPendingAfterCancel'
    BY <1>0, <2>1 DEF NothingPendingAfterCancel, rows
  <2> QED
    BY <2>1, <2>3, <2>4, SoloStep
<1>5. ASSUME NEW p \in Procs, proc[p] # Idle, Finish(p)
      PROVE  OneAtATime' /\ ReadsCurrent'
  BY <1>5, SoloStep, IdleCurrent DEF Finish
<1>6. \A p \in Procs : proc[p].op # "IDLE" => proc[p] # Idle
  BY DEF Idle
<1>7. ASSUME NEW p \in Procs, RecordPayment(p)
      PROVE  OneAtATime' /\ ReadsCurrent' /\ NothingPendingAfterCancel'
  <2>1. Finish(p) /\ proc[p] # Idle /\ UNCHANGED <<cancelled, overlapped>>
    BY <1>6, <1>7 DEF RecordPayment, Finish, Continue
  <2>2. ~overlapped => ~cancelled
    BY <1>7 DEF RecordPayment, ReadsCurrent, Current
  <2> QED
    BY <1>5, <2>1, <2>2 DEF NothingPendingAfterCancel
<1>8. ASSUME NEW p \in Procs, ReadBooking(p)
      PROVE  OneAtATime' /\ ReadsCurrent' /\ NothingPendingAfterCancel'
  <2>1. PICK r :
          /\ r = [proc[p] EXCEPT !.st = "CHECKED",
                                 !.balance = IF proc[p].inst = None THEN balance ELSE @]
          /\ proc[p] # Idle /\ proc[p].op = "VERIFY" /\ UNCHANGED rows /\ UNCHANGED overlapped
          /\ \/ Finish(p)
             \/ Continue(p, r) /\ Allowed(proc[p].was, proc[p].to)
    BY <1>6, <1>8 DEF ReadBooking, Finish, Continue
  <2>2. NothingPendingAfterCancel'
    BY <2>1 DEF NothingPendingAfterCancel, rows
  <2>3. CASE Finish(p)
    BY <1>5, <2>1, <2>2, <2>3
  <2>4. CASE Continue(p, r) /\ Allowed(proc[p].was, proc[p].to)
    <3>1. /\ r.op = "VERIFY" /\ r.st = "CHECKED" /\ r.pay = proc[p].pay
          /\ r.was = proc[p].was /\ r.to = proc[p].to /\ r.inst = proc[p].inst
      BY <2>1 DEF TypeOK, Request
    <3>2. ~overlapped => Current(r)'
      BY <2>1, <2>4, <3>1 DEF ReadsCurrent, Current, rows
    <3> QED
      BY <2>1, <2>2, <2>4, <3>2, SoloStep
  <2> QED
    BY <2>1, <2>3, <2>4
<1>9. ASSUME NEW p \in Procs, BeginVerify(p)
      PROVE  OneAtATime' /\ ReadsCurrent' /\ NothingPendingAfterCancel'
  <2>1. PICK r :
          /\ r = [proc[p] EXCEPT !.st = "TX",
                                 !.seen = IF proc[p].inst # None THEN inst[proc[p].inst] ELSE @]
          /\ proc[p] # Idle /\ proc[p].op = "VERIFY" /\ proc[p].st = "CHECKED"
          /\ UNCHANGED rows /\ UNCHANGED overlapped /\ Continue(p, r)
    BY <1>6, <1>9 DEF BeginVerify, Continue
  <2>2. NothingPendingAfterCancel'
    BY <2>1 DEF NothingPendingAfterCancel, rows
  <2>3. /\ r.op = "VERIFY" /\ r.pay = proc[p].pay
        /\ r.was = proc[p].was /\ r.to = proc[p].to /\ r.inst = proc[p].inst
        /\ r.inst # None => r.seen = inst[r.inst]
    BY <2>1 DEF TypeOK, Request
  <2>4. ~overlapped => Current(r)'
    BY <2>1, <2>3 DEF ReadsCurrent, Current, rows
  <2> QED
    BY <2>1, <2>2, <2>4, SoloStep
<1>10. ASSUME NEW p \in Procs, CommitVerify(p)
       PROVE  OneAtATime' /\ ReadsCurrent' /\ NothingPendingAfterCancel'
  <2>1. /\ Finish(p) /\ proc[p] # Idle /\ UNCHANGED <<cancelled, overlapped>>
        /\ payment' = [payment EXCEPT ![proc[p].pay].status = proc[p].to]
    BY <1>6, <1>10, VerifyWrites DEF Finish, Continue
  <2>2. proc[p].to # "PENDING"
    BY DEF TypeOK, Request, Verdict
  <2>3. NothingPendingAfterCancel'
    BY <2>1, <2>2 DEF NothingPendingAfterCancel, TypeOK, PaymentRow
  <2> QED
    BY <1>5, <2>1, <2>3
<1>11. ASSUME NEW p \in Procs, BeginCancel(p)
       PROVE  OneAtATime' /\ ReadsCurrent' /\ NothingPendingAfterCancel'
  <2>1. PICK r :
          /\ r = [proc[p] EXCEPT !.st = "TX",
                        !.due = {x \in PaymentIds : payment[x].status \in Refundable}]
          /\ proc[p] # Idle /\ proc[p].op = "CANCEL"
          /\ UNCHANGED rows /\ UNCHANGED overlapped /\ Continue(p, r)
    BY <1>6, <1>11 DEF BeginCancel, Continue
  <2>2. NothingPendingAfterCancel'
    BY <2>1 DEF NothingPendingAfterCancel, rows
  <2>3. r.op = "CANCEL" /\ r.due = {x \in PaymentIds : payment[x].status \in Refundable}
    BY <2>1 DEF TypeOK, Request
  <2>4. Current(r)'
    BY <2>1, <2>3 DEF Current, rows
  <2> QED
    BY <2>1, <2>2, <2>4, SoloStep
<1>12. ASSUME NEW p \in Procs, CommitCancel(p)
       PROVE  OneAtATime' /\ ReadsCurrent' /\ NothingPendingAfterCancel'
  <2>1. Finish(p) /\ proc[p] # Idle /\ UNCHANGED overlapped
    BY <1>6, <1>12 DEF CommitCancel, Finish, Continue
  <2>2. ~overlapped => \A x \in PaymentIds : payment[x].status = "PENDING" => x \in proc[p].due
    BY <1>12 DEF CommitCancel, ReadsCurrent, Current, Refundable
  <2>3. \A x \in PaymentIds : x \in proc[p].due => payment'[x].status = "REFUND_DUE"
    BY <1>12 DEF CommitCancel, TypeOK, PaymentRow
  <2>4. \A x \in PaymentIds : x \notin proc[p].due => payment'[x] = payment[x]
    BY <1>12 DEF CommitCancel
  <2>5. NothingPendingAfterCancel'
    BY <2>1, <2>2, <2>3, <2>4 DEF NothingPendingAfterCancel
  <2> QED
    BY <1>5, <2>1, <2>5
<1>13. ASSUME NEW p \in Procs, Fail(p)
       PROVE  OneAtATime' /\ ReadsCurrent' /\ NothingPendingAfterCancel'
  <2>1. Finish(p) /\ proc[p] # Idle /\ UNCHANGED <<payment, cancelled, overlapped>>
    BY <1>6, <1>13 DEF Fail, Finish, Continue, rows
  <2> QED
    BY <1>5, <2>1 DEF NothingPendingAfterCancel
<1> QED
  BY <1>1, <1>2, <1>3, <1>4, <1>7, <1>8, <1>9, <1>10, <1>11, <1>12, <1>13 DEF Next

LEMMA AlwaysSolo == Spec => []SoloInv
<1>1. Init => SoloInv
  <2> SUFFICES ASSUME Init PROVE SoloInv
    OBVIOUS
  <2>1. OneAtATime /\ ReadsCurrent
    BY IdleCurrent DEF Init, OneAtATime, ReadsCurrent
  <2>2. NothingPendingAfterCancel
    BY DEF Init, NothingPendingAfterCancel
  <2> QED
    BY <2>1, <2>2, InitSound DEF SoloInv
<1>2. IInv /\ [Next]_vars => IInv'
  BY StepTypes, AmountsStep, RequestsFoundedStep, InstalmentsStep DEF IInv
<1>3. SoloInv /\ [Next]_vars => SoloInv'
  BY <1>2, SoloInvStep DEF SoloInv
<1> QED
  BY <1>1, <1>3, PTL DEF Spec

\* As long as no two requests overlap, cancelling a booking flags every payment that
\* waits to be verified.
THEOREM CancellationCorrect == Spec => []NothingPendingAfterCancel
<1>1. SoloInv => NothingPendingAfterCancel
  BY DEF SoloInv
<1> QED
  BY <1>1, AlwaysSolo, PTL

LEMMA RefundStays ==
  ASSUME SoloInv, [Next]_vars, ~overlapped,
         NEW x \in PaymentIds, payment[x].status = "REFUNDED"
  PROVE  payment'[x].status = "REFUNDED"
<1> USE DEF SoloInv, IInv
<1>1. ASSUME NEW p \in Procs, RecordPayment(p)
      PROVE  payment'[x].status = "REFUNDED"
  BY <1>1 DEF RecordPayment, TypeOK
<1>2. ASSUME NEW p \in Procs, CommitVerify(p)
      PROVE  payment'[x].status = "REFUNDED"
  <2>1. /\ proc[p].op = "VERIFY" /\ proc[p].st = "TX"
        /\ payment' = [payment EXCEPT ![proc[p].pay].status = proc[p].to]
    BY <1>2, VerifyWrites
  <2>2. proc[p].pay # x
    BY <2>1 DEF ReadsCurrent, Current, Allowed
  <2> QED
    BY <2>1, <2>2 DEF TypeOK
<1>3. ASSUME NEW p \in Procs, CommitCancel(p)
      PROVE  payment'[x].status = "REFUNDED"
  <2>1. x \notin proc[p].due
    BY <1>3 DEF CommitCancel, ReadsCurrent, Current, Refundable
  <2> QED
    BY <1>3, <2>1 DEF CommitCancel
<1> QED
  BY <1>1, <1>2, <1>3, PaymentWriters

\* As long as no two requests overlap, a refunded payment never changes again.
THEOREM RefundsCorrect == Spec => RefundedIsFinal
<1>1. SoloInv /\ [Next]_vars =>
        [~overlapped => \A x \in PaymentIds :
            payment[x].status = "REFUNDED" => payment'[x].status = "REFUNDED"]_vars
  BY RefundStays
<1> QED
  BY <1>1, AlwaysSolo, PTL DEF Spec, RefundedIsFinal

-----------------------------------------------------------------------------
(* What the portal was told.  Needs the history of a payment: it has been   *)
(* collected once if the booking lives and its status says so, and never    *)
(* otherwise; and the instalment a verification read is the row it writes.  *)

\* What the last event said of payment x, and how many SUCCESS events it had.
Reported(x) ==
    /\ payment[x].status = "ABSENT" => told[x] = None /\ successes[x] = 0
    /\ payment[x].status = "SUCCESS" => told[x] = "SUCCESS"
    /\ payment[x].status = "REFUNDED" <=> told[x] = "REFUNDED"
    /\ ~cancelled => payment[x].status # "REFUND_DUE"
    /\ ~cancelled =>
         successes[x] = IF payment[x].status \in {"SUCCESS", "REFUNDED"} THEN 1 ELSE 0

InstReported(i) ==
    \/ told[i] = inst[i].status
    \/ told[i] = None /\ inst[i] = NewInst
    \/ \E x \in PaymentIds : payment[x].inst = i /\ payment[x].status = "REFUNDED"

AllReported ==
    ~overlapped => (\A x \in PaymentIds : Reported(x)) /\ (\A i \in Insts : InstReported(i))

\* A step that leaves the rows alone leaves what was told true.
LEMMA ReportsKept ==
  ASSUME AllReported, overlapped => overlapped', UNCHANGED rows
  PROVE  AllReported'
  BY DEF AllReported, Reported, InstReported, rows

LEMMA RecordReports ==
  ASSUME SoloInv, AllReported, NEW p \in Procs, RecordPayment(p)
  PROVE  AllReported'
<1> USE DEF SoloInv, IInv
<1> SUFFICES ASSUME ~overlapped'
             PROVE  /\ \A x \in PaymentIds : Reported(x)'
                    /\ \A i \in Insts : InstReported(i)'
  BY DEF AllReported
<1>1. /\ payment[proc[p].pay].status = "ABSENT"
      /\ payment' = [payment EXCEPT ![proc[p].pay] =
                       [status |-> "PENDING", amount |-> proc[p].amount, inst |-> proc[p].inst]]
      /\ ~overlapped
      /\ UNCHANGED <<inst, cancelled, told, successes>>
  BY DEF RecordPayment, Finish, Continue
<1>2. \A x \in PaymentIds : Reported(x)'
  <2> SUFFICES ASSUME NEW x \in PaymentIds PROVE Reported(x)'
    OBVIOUS
  <2>1. Reported(x)
    BY <1>1 DEF AllReported
  <2>2. CASE x = proc[p].pay
    <3>1. payment'[x].status = "PENDING" /\ payment[x].status = "ABSENT"
      BY <1>1, <2>2 DEF TypeOK
    <3>2. told[x] = None /\ successes[x] = 0
      BY <2>1, <3>1 DEF Reported
    <3> QED
      BY <1>1, <3>1, <3>2, NullAssumption DEF Reported, Verdict
  <2>3. CASE x # proc[p].pay
    BY <1>1, <2>1, <2>3 DEF Reported, TypeOK
  <2> QED
    BY <2>2, <2>3
<1>3. ASSUME NEW x \in PaymentIds, payment[x].status = "REFUNDED"
      PROVE  payment'[x] = payment[x]
  BY <1>1, <1>3 DEF TypeOK
<1>4. \A i \in Insts : InstReported(i)'
  BY <1>1, <1>3 DEF AllReported, InstReported
<1> QED
  BY <1>2, <1>4

\* Before a lone verification commits, the payment is in the state it was read in, and
\* the change is one Finance may make.
LEMMA VerifyStands ==
  ASSUME SoloInv, AllReported, NEW p \in Procs, CommitVerify(p), ~overlapped'
  PROVE  /\ ~overlapped
         /\ proc[p] \in Request /\ proc[p].pay \in PaymentIds /\ proc[p].amount > 0
         /\ payment[proc[p].pay].status = proc[p].was
         /\ payment[proc[p].pay].inst = proc[p].inst
         /\ Allowed(proc[p].was, proc[p].to)
         /\ proc[p].inst # None => proc[p].seen = inst[proc[p].inst]
         /\ Reported(proc[p].pay)
<1>1. ~overlapped /\ proc[p].op = "VERIFY" /\ proc[p].st = "TX"
  BY VerifyWrites
<1>2. Current(proc[p]) /\ Founded(proc[p]) /\ proc[p] \in Request
  BY <1>1 DEF SoloInv, IInv, ReadsCurrent, RequestsFounded, TypeOK
<1> QED
  BY <1>1, <1>2 DEF Current, Founded, AllReported

LEMMA VerifyTells ==
  ASSUME TypeOK, NEW p \in Procs, CommitVerify(p), proc[p] \in Request,
         proc[p].pay \in PaymentIds, NEW x \in PaymentIds
  PROVE  told'[x] = IF x = proc[p].pay /\ proc[p].to # "FAILED" THEN proc[p].to ELSE told[x]
<1> USE PaymentsAssumption DEF TypeOK, Request, Verdict
<1>1. CASE Collect(proc[p]) /\ proc[p].to = "SUCCESS" /\ proc[p].inst # None
  <2>1. proc[p].inst \in Insts /\ x # proc[p].inst /\ proc[p].pay # proc[p].inst
    BY <1>1
  <2> QED
    BY <1>1, <2>1 DEF Collect
<1>2. CASE GiveBack(proc[p]) /\ proc[p].to = "REFUNDED"
  BY <1>2 DEF GiveBack
<1>3. CASE MoveBalance(proc[p]) /\ proc[p].to # "FAILED"
  BY <1>3 DEF MoveBalance
<1>4. CASE NoMoneyMoves(proc[p]) /\ proc[p].to # "SUCCESS"
  BY <1>4 DEF NoMoneyMoves
<1> QED
  BY <1>1, <1>2, <1>3, <1>4, VerifyWrites

LEMMA VerifyReports ==
  ASSUME SoloInv, AllReported, NEW p \in Procs, CommitVerify(p), ~overlapped',
         NEW x \in PaymentIds
  PROVE  Reported(x)'
<1> USE DEF SoloInv, IInv
<1>1. PICK r : r = proc[p]
  OBVIOUS
<1>2. /\ ~overlapped /\ r \in Request /\ r.pay \in PaymentIds
      /\ payment[r.pay].status = r.was /\ Allowed(r.was, r.to) /\ Reported(r.pay)
  BY <1>1, VerifyStands
<1>3. /\ payment' = [payment EXCEPT ![r.pay].status = r.to]
      /\ successes' = [successes EXCEPT ![r.pay] = IF r.to = "SUCCESS" THEN @ + 1 ELSE @]
      /\ UNCHANGED cancelled
  BY <1>1, VerifyWrites
<1>4. told'[x] = IF x = r.pay /\ r.to # "FAILED" THEN r.to ELSE told[x]
  BY <1>1, <1>2, VerifyTells
<1>5. CASE x # r.pay
  <2>1. payment'[x] = payment[x] /\ successes'[x] = successes[x] /\ told'[x] = told[x]
    BY <1>3, <1>4, <1>5 DEF TypeOK
  <2>2. Reported(x)
    BY <1>2 DEF AllReported
  <2> QED
    BY <1>3, <2>1, <2>2 DEF Reported
<1>6. CASE x = r.pay
  <2>1. payment'[x].status = r.to
    BY <1>2, <1>3, <1>6 DEF TypeOK, PaymentRow
  <2>2. successes'[x] = IF r.to = "SUCCESS" THEN successes[x] + 1 ELSE successes[x]
    BY <1>2, <1>3, <1>6 DEF TypeOK
  <2>3. r.to \in Verdict
    BY <1>2 DEF Request
  <2>4. CASE r.to = "SUCCESS"
    <3>1. r.was \in {"PENDING", "FAILED"}
      BY <1>2, <2>4 DEF Allowed
    <3> QED
      BY <1>2, <1>3, <1>4, <1>6, <2>1, <2>2, <2>4, <3>1 DEF Reported
  <2>5. CASE r.to = "FAILED"
    <3>1. r.was \in {"PENDING", "REFUND_DUE"}
      BY <1>2, <2>5 DEF Allowed
    <3> QED
      BY <1>2, <1>3, <1>4, <1>6, <2>1, <2>2, <2>5, <3>1 DEF Reported
  <2>6. CASE r.to = "REFUNDED"
    <3>1. r.was \in {"SUCCESS", "REFUND_DUE"}
      BY <1>2, <2>6 DEF Allowed
    <3> QED
      BY <1>2, <1>3, <1>4, <1>6, <2>1, <2>2, <2>6, <3>1 DEF Reported
  <2> QED
    BY <2>3, <2>4, <2>5, <2>6 DEF Verdict
<1> QED
  BY <1>5, <1>6

LEMMA VerifyReportsInst ==
  ASSUME SoloInv, AllReported, NEW p \in Procs, CommitVerify(p), ~overlapped',
         NEW i \in Insts
  PROVE  InstReported(i)'
<1> USE DEF SoloInv, IInv
<1>1. PICK r : r = proc[p]
  OBVIOUS
<1>2. /\ ~overlapped /\ r \in Request /\ r.pay \in PaymentIds /\ r.amount > 0
      /\ payment[r.pay].status = r.was /\ payment[r.pay].inst = r.inst
      /\ Allowed(r.was, r.to)
      /\ r.inst # None => r.seen = inst[r.inst]
  BY <1>1, VerifyStands
<1>3. payment' = [payment EXCEPT ![r.pay].status = r.to]
  BY <1>1, VerifyWrites
<1>4. ASSUME NEW x \in PaymentIds, payment[x].status = "REFUNDED"
      PROVE  payment'[x].status = "REFUNDED" /\ payment'[x].inst = payment[x].inst
  <2>1. x # r.pay
    BY <1>2, <1>4 DEF Allowed
  <2> QED
    BY <1>3, <1>4, <2>1 DEF TypeOK
<1>5. CASE \E x \in PaymentIds : payment[x].inst = i /\ payment[x].status = "REFUNDED"
  BY <1>4, <1>5 DEF InstReported
<1>6. CASE told'[i] = told[i] /\ inst'[i] = inst[i]
  BY <1>2, <1>4, <1>6 DEF InstReported, AllReported
<1>7. i # r.pay
  BY <1>2, PaymentsAssumption
<1>8. CASE Collect(r) /\ r.inst # None /\ r.inst = i
  <2> DEFINE received == r.seen.received + r.amount
             status   == InstStatusOf(i, received)
  <2>1. /\ inst' = [inst EXCEPT ![i] = [received |-> received, status |-> status]]
        /\ told' = [told EXCEPT ![r.pay] = "SUCCESS",
                                ![i] = IF status = inst[i].status THEN @ ELSE status]
    BY <1>2, <1>8 DEF Collect
  <2>2. status # "PENDING"
    BY <1>2, PaymentsAssumption DEF InstStatusOf, Request, InstRow
  <2> HIDE DEF received, status
  <2>3. inst'[i].status = status
    BY <2>1 DEF TypeOK
  <2>4. told'[i] = IF status = inst[i].status THEN told[i] ELSE status
    BY <1>7, <2>1 DEF TypeOK
  <2>5. told[i] = inst[i].status \/ inst[i].status = "PENDING" \/ InstReported(i)'
    BY <1>2, <1>5 DEF AllReported, InstReported, NewInst
  <2> QED
    BY <2>2, <2>3, <2>4, <2>5 DEF InstReported
<1>9. CASE GiveBack(r) /\ r.to = "REFUNDED" /\ r.inst # None /\ r.inst = i
  <2>1. payment'[r.pay].status = "REFUNDED" /\ payment'[r.pay].inst = i
    BY <1>2, <1>3, <1>9 DEF TypeOK, PaymentRow
  <2> QED
    BY <1>2, <2>1 DEF InstReported
<1>10. CASE (Collect(r) \/ GiveBack(r)) /\ r.inst # i
  BY <1>6, <1>7, <1>10 DEF Collect, GiveBack, TypeOK
<1>11. CASE MoveBalance(r) \/ NoMoneyMoves(r)
  BY <1>6, <1>7, <1>11 DEF MoveBalance, NoMoneyMoves, TypeOK
<1> QED
  BY <1>1, <1>8, <1>9, <1>10, <1>11, VerifyWrites

LEMMA CancelReports ==
  ASSUME SoloInv, AllReported, NEW p \in Procs, CommitCancel(p)
  PROVE  AllReported'
<1> USE DEF SoloInv, IInv
<1> SUFFICES ASSUME ~overlapped'
             PROVE  /\ \A x \in PaymentIds : Reported(x)'
                    /\ \A i \in Insts : InstReported(i)'
  BY DEF AllReported
<1>1. /\ ~overlapped /\ cancelled' /\ UNCHANGED <<inst, told, successes>>
      /\ payment' = [x \in PaymentIds |->
                       IF x \in proc[p].due THEN [payment[x] EXCEPT !.status = "REFUND_DUE"]
                       ELSE payment[x]]
  BY DEF CommitCancel, Finish, Continue
<1>2. \A x \in proc[p].due : payment[x].status \in {"PENDING", "SUCCESS"}
  BY <1>1 DEF CommitCancel, ReadsCurrent, Current, Refundable
<1>3. ASSUME NEW x \in PaymentIds
      PROVE  Reported(x)'
  <2>1. Reported(x)
    BY <1>1 DEF AllReported
  <2>2. CASE x \in proc[p].due
    <3>1. payment'[x].status = "REFUND_DUE"
      BY <1>1, <2>2 DEF TypeOK, PaymentRow
    <3> QED
      BY <1>1, <1>2, <2>1, <2>2, <3>1 DEF Reported
  <2>3. CASE x \notin proc[p].due
    <3>1. payment'[x] = payment[x]
      BY <1>1, <2>3
    <3> QED
      BY <1>1, <2>1, <3>1 DEF Reported
  <2> QED
    BY <2>2, <2>3
<1>4. ASSUME NEW x \in PaymentIds, payment[x].status = "REFUNDED"
      PROVE  payment'[x] = payment[x]
  BY <1>1, <1>2, <1>4
<1>5. ASSUME NEW i \in Insts
      PROVE  InstReported(i)'
  <2>1. InstReported(i)
    BY <1>1 DEF AllReported
  <2> QED
    BY <1>1, <1>4, <2>1 DEF InstReported
<1> QED
  BY <1>3, <1>5

LEMMA ReportsStep ==
  ASSUME SoloInv, AllReported, [Next]_vars
  PROVE  AllReported'
<1>1. overlapped => overlapped'
  BY OverlapStays DEF SoloInv, IInv
<1>2. CASE UNCHANGED rows
  BY <1>1, <1>2, ReportsKept
<1>3. ASSUME NEW p \in Procs, CommitVerify(p)
      PROVE  AllReported'
  BY <1>3, VerifyReports, VerifyReportsInst DEF AllReported
<1>4. UNCHANGED rows \/ \E p \in Procs : RecordPayment(p) \/ CommitVerify(p) \/ CommitCancel(p)
         \/ \E x \in PaymentIds, a \in Amounts, i \in Targets : ReadForRecord(p, x, a, i)
  BY DEF Next, vars, Start, ReadPayment, ReadForCancel, ReadBooking, BeginVerify, BeginCancel, Fail
<1>5. ASSUME NEW p \in Procs, NEW x \in PaymentIds, NEW a \in Amounts, NEW i \in Targets,
             ReadForRecord(p, x, a, i)
      PROVE  UNCHANGED rows
  BY <1>5 DEF ReadForRecord, Start
<1> QED
  BY <1>2, <1>3, <1>4, <1>5, RecordReports, CancelReports

LEMMA AlwaysReported == Spec => [](SoloInv /\ AllReported)
<1>1. Init => AllReported
  <2> SUFFICES ASSUME Init, NEW x \in PaymentIds PROVE Reported(x)
    BY DEF Init, AllReported, InstReported
  <2> QED
    BY NullAssumption DEF Init, Reported, Verdict
<1>2. AllReported /\ SoloInv /\ [Next]_vars => AllReported'
  BY ReportsStep
<1> QED
  BY <1>1, <1>2, AlwaysSolo, PTL DEF Spec

\* As long as no two requests overlap, the portal was last told SUCCESS of a collected
\* payment and REFUNDED exactly of a refunded one, each once on a live booking, and of
\* an instalment without refunds its status.
THEOREM ReportsCorrect == Spec => []OutcomeTold
<1>1. SoloInv /\ AllReported => OutcomeTold
  BY DEF AllReported, Reported, InstReported, OutcomeTold
<1> QED
  BY <1>1, AlwaysReported, PTL

-----------------------------------------------------------------------------
(* Sums of amounts.  Paid folds over a set, choosing one payment at a time;  *)
(* that the order does not matter is proved by a smallest counterexample     *)
(* among the subsets of a finite set.                                        *)

First(S) == CHOOSE x \in S : TRUE

\* The sum of the amounts of the payments S when the rows are pay.
Total(pay, S) == MapThenSumSet(LAMBDA x : pay[x].amount, S)

\* g sums the amounts of every subset of S.
Sums(pay, S, g) ==
    g = [s \in SUBSET S |-> IF s = {} THEN 0 ELSE pay[First(s)].amount + g[s \ {First(s)}]]

LEMMA PaidTotal == ASSUME NEW S PROVE Paid(S) = Total(payment, S)
  BY DEF Paid, Total

LEMMA TotalDef ==
  ASSUME NEW pay, NEW S
  PROVE  Total(pay, S) = (CHOOSE g : Sums(pay, S, g))[S]
  BY DEF Total, MapThenSumSet, MapThenFoldSet, Sums, First

LEMMA FirstIn == ASSUME NEW S, S # {} PROVE First(S) \in S
  BY DEF First

\* A property that some set has is had by a smallest set, when all are finite.
LEMMA Smallest ==
  ASSUME NEW S, IsFiniteSet(S), NEW B, B \subseteq SUBSET S, B # {}
  PROVE  \E s \in B : \A t \in B : t \subseteq s => t = s
<1>1. IsWellFoundedOn(StrictSubsetOrdering(S), SUBSET S)
  BY FS_StrictSubsetOrderingWellFounded, FS_FiniteSubsetsOfFinite, Zenon
<1>2. PICK s \in B : \A t \in B : ~(<<t, s>> \in StrictSubsetOrdering(S))
  BY <1>1, WFMin, Zenon
<1>3. ASSUME NEW t \in B, t \subseteq s, t # s PROVE FALSE
  <2>1. <<t, s>> \in (SUBSET S) \X (SUBSET S) /\ <<t, s>>[1] = t /\ <<t, s>>[2] = s
    BY <1>2
  <2>2. <<t, s>> \in StrictSubsetOrdering(S)
    BY <1>3, <2>1 DEF StrictSubsetOrdering
  <2> QED
    BY <1>2, <2>2
<1> QED
  BY <1>2, <1>3

LEMMA SumsAt ==
  ASSUME NEW pay, NEW S, NEW g, Sums(pay, S, g), NEW s \in SUBSET S
  PROVE  g[s] = IF s = {} THEN 0 ELSE pay[First(s)].amount + g[s \ {First(s)}]
  BY DEF Sums

LEMMA SumsUnique ==
  ASSUME NEW pay, NEW S, IsFiniteSet(S), NEW T \in SUBSET S, NEW g, NEW h,
         Sums(pay, S, g), Sums(pay, T, h), NEW u \in SUBSET T
  PROVE  g[u] = h[u]
<1> DEFINE B == {s \in SUBSET T : g[s] # h[s]}
<1>1. SUFFICES ASSUME B # {} PROVE FALSE
  OBVIOUS
<1>2. IsFiniteSet(T)
  BY FS_Subset
<1>3. PICK s \in B : \A t \in B : t \subseteq s => t = s
  <2> HIDE DEF B
  <2>1. B \subseteq SUBSET T
    BY DEF B
  <2> QED
    BY <1>1, <1>2, <2>1, Smallest
<1>4. s \in SUBSET T /\ g[s] # h[s] /\ s \in SUBSET S
  BY <1>3
<1>5. s # {}
  BY <1>4, SumsAt
<1>6. First(s) \in s
  BY <1>5, FirstIn
<1>7. g[s \ {First(s)}] = h[s \ {First(s)}]
  BY <1>3, <1>4, <1>6
<1> QED
  BY <1>4, <1>5, <1>7, SumsAt

\* Adding up S one payment at a time, when both sums exist.
LEMMA TotalStep ==
  ASSUME NEW pay, NEW S, IsFiniteSet(S), S # {},
         \E g : Sums(pay, S, g), \E g : Sums(pay, S \ {First(S)}, g)
  PROVE  Total(pay, S) = pay[First(S)].amount + Total(pay, S \ {First(S)})
<1> DEFINE T == S \ {First(S)}
<1>1. PICK g : Sums(pay, S, g) /\ g = (CHOOSE h : Sums(pay, S, h))
  OBVIOUS
<1>2. PICK h : Sums(pay, T, h) /\ h = (CHOOSE k : Sums(pay, T, k))
  OBVIOUS
<1>3. T \in SUBSET S
  OBVIOUS
<1>4. g[T] = h[T]
  <2> HIDE DEF T
  <2> QED
    BY <1>1, <1>2, <1>3, SumsUnique
<1>5. g[S] = pay[First(S)].amount + g[T]
  BY <1>1, SumsAt
<1> QED
  BY <1>1, <1>2, <1>4, <1>5, TotalDef

LEMMA TotalEmpty == ASSUME NEW pay PROVE Total(pay, {}) = 0
<1>1. Sums(pay, {}, [s \in SUBSET {} |-> 0])
  BY DEF Sums
<1>2. Sums(pay, {}, CHOOSE g : Sums(pay, {}, g))
  BY <1>1
<1> QED
  BY <1>2, SumsAt, TotalDef

\* Every finite set of payments has a sum.
LEMMA SumsExist ==
  ASSUME NEW pay, NEW S, IsFiniteSet(S)
  PROVE  \E g : Sums(pay, S, g)
<1> DEFINE B == {s \in SUBSET S : ~\E g : Sums(pay, s, g)}
<1>1. SUFFICES ASSUME B # {} PROVE FALSE
  OBVIOUS
<1>2. PICK s \in B : \A t \in B : t \subseteq s => t = s
  <2> HIDE DEF B
  <2>1. B \subseteq SUBSET S
    BY DEF B
  <2> QED
    BY <1>1, <2>1, Smallest
<1>3. s \in SUBSET S /\ ~\E g : Sums(pay, s, g)
  BY <1>2
<1>4. \A t \in SUBSET s : t # s => \E g : Sums(pay, t, g)
  BY <1>2, <1>3
<1>5. \A t \in SUBSET s : IsFiniteSet(t)
  BY <1>3, FS_Subset
<1> DEFINE G == [t \in SUBSET s |->
                   IF t = {} THEN 0 ELSE pay[First(t)].amount + Total(pay, t \ {First(t)})]
<1>6. ASSUME NEW u \in SUBSET s, u # s
      PROVE  G[u] = Total(pay, u)
  <2>1. CASE u = {}
    BY <2>1, TotalEmpty
  <2>2. CASE u # {}
    <3>1. First(u) \in u
      BY <2>2, FirstIn
    <3>2. u \ {First(u)} \in SUBSET s /\ u \ {First(u)} # s
      BY <3>1
    <3>3. (\E g : Sums(pay, u, g)) /\ (\E g : Sums(pay, u \ {First(u)}, g))
      BY <1>4, <1>6, <3>2
    <3>4. Total(pay, u) = pay[First(u)].amount + Total(pay, u \ {First(u)})
      BY <1>5, <2>2, <3>3, TotalStep
    <3> QED
      BY <2>2, <3>4
  <2> QED
    BY <2>1, <2>2
<1>7. ASSUME NEW t \in SUBSET s, t # {}
      PROVE  G[t] = pay[First(t)].amount + G[t \ {First(t)}]
  <2>1. First(t) \in t
    BY <1>7, FirstIn
  <2>2. t \ {First(t)} \in SUBSET s /\ t \ {First(t)} # s
    BY <2>1
  <2>3. G[t \ {First(t)}] = Total(pay, t \ {First(t)})
    BY <1>6, <2>2
  <2>4. G[t] = pay[First(t)].amount + Total(pay, t \ {First(t)})
    BY <1>7
  <2> QED
    BY <2>3, <2>4
<1>8. G[{}] = 0 /\ DOMAIN G = SUBSET s /\ G = [t \in SUBSET s |-> G[t]]
  OBVIOUS
<1>9. Sums(pay, s, G)
  <2> HIDE DEF G
  <2> QED
    BY <1>7, <1>8 DEF Sums
<1> QED
  BY <1>3, <1>9

\* The sum of S is that of its first payment and of the others.
LEMMA TotalFirst ==
  ASSUME NEW pay, NEW S, IsFiniteSet(S), S # {}
  PROVE  Total(pay, S) = pay[First(S)].amount + Total(pay, S \ {First(S)})
<1>1. IsFiniteSet(S \ {First(S)})
  BY FS_Subset
<1> QED
  BY <1>1, SumsExist, TotalStep

\* Sums of amounts are amounts.
LEMMA TotalNat ==
  ASSUME NEW pay, NEW S, IsFiniteSet(S), \A x \in S : pay[x].amount \in Nat
  PROVE  Total(pay, S) \in Nat
<1> DEFINE B == {s \in SUBSET S : Total(pay, s) \notin Nat}
<1>1. SUFFICES ASSUME B # {} PROVE FALSE
  OBVIOUS
<1>2. PICK s \in B : \A t \in B : t \subseteq s => t = s
  <2> HIDE DEF B
  <2>1. B \subseteq SUBSET S
    BY DEF B
  <2> QED
    BY <1>1, <2>1, Smallest
<1>3. s \in SUBSET S /\ IsFiniteSet(s) /\ Total(pay, s) \notin Nat
  BY <1>2, FS_Subset
<1>4. s # {}
  BY <1>3, TotalEmpty
<1>5. First(s) \in s
  BY <1>4, FirstIn
<1>6. Total(pay, s \ {First(s)}) \in Nat
  BY <1>2, <1>3, <1>5
<1>7. Total(pay, s) = pay[First(s)].amount + Total(pay, s \ {First(s)})
  BY <1>3, <1>4, TotalFirst
<1> QED
  BY <1>3, <1>5, <1>6, <1>7

\* Rows that agree on the amounts of S have the same sum.
LEMMA TotalSame ==
  ASSUME NEW pay, NEW other, NEW S, IsFiniteSet(S),
         \A x \in S : pay[x].amount = other[x].amount
  PROVE  Total(pay, S) = Total(other, S)
<1> DEFINE B == {s \in SUBSET S : Total(pay, s) # Total(other, s)}
<1>1. SUFFICES ASSUME B # {} PROVE FALSE
  OBVIOUS
<1>2. PICK s \in B : \A t \in B : t \subseteq s => t = s
  <2> HIDE DEF B
  <2>1. B \subseteq SUBSET S
    BY DEF B
  <2> QED
    BY <1>1, <2>1, Smallest
<1>3. s \in SUBSET S /\ IsFiniteSet(s) /\ Total(pay, s) # Total(other, s)
  BY <1>2, FS_Subset
<1>4. s # {}
  BY <1>3, TotalEmpty
<1>5. First(s) \in s
  BY <1>4, FirstIn
<1>6. Total(pay, s \ {First(s)}) = Total(other, s \ {First(s)})
  BY <1>2, <1>3, <1>5
<1> QED
  BY <1>3, <1>4, <1>5, <1>6, TotalFirst

\* Which payment is added last does not matter.
LEMMA TotalAdd ==
  ASSUME NEW pay, NEW S, IsFiniteSet(S), \A x \in S : pay[x].amount \in Nat,
         NEW y \in S
  PROVE  Total(pay, S) = pay[y].amount + Total(pay, S \ {y})
<1> DEFINE B == {s \in SUBSET S :
                   \E x \in S \ s : Total(pay, s \cup {x}) # pay[x].amount + Total(pay, s)}
<1>1. SUFFICES B = {}
  <2>1. S \ {y} \in SUBSET S /\ y \notin S \ {y} /\ (S \ {y}) \cup {y} = S
    OBVIOUS
  <2> QED
    BY <1>1, <2>1
<1>2. SUFFICES ASSUME B # {} PROVE FALSE
  OBVIOUS
<1>3. PICK s \in B : \A t \in B : t \subseteq s => t = s
  <2> HIDE DEF B
  <2>1. B \subseteq SUBSET S
    BY DEF B
  <2> QED
    BY <1>2, <2>1, Smallest
<1>4. PICK x \in S \ s : Total(pay, s \cup {x}) # pay[x].amount + Total(pay, s)
  BY <1>3
<1>5. s \in SUBSET S /\ s \cup {x} # {}
  BY <1>3
<1> DEFINE f == First(s \cup {x})
<1>6. IsFiniteSet(s \cup {x}) /\ f \in s \cup {x}
  BY <1>4, <1>5, FirstIn, FS_Subset
<1>7. Total(pay, s \cup {x}) = pay[f].amount + Total(pay, (s \cup {x}) \ {f})
  BY <1>5, <1>6, TotalFirst
<1> HIDE DEF f
<1>8. CASE f = x
  <2>1. (s \cup {x}) \ {f} = s
    BY <1>4, <1>8
  <2> QED
    BY <1>4, <1>7, <1>8, <2>1
<1>9. CASE f # x
  <2> DEFINE t == s \ {f}
  <2>1. /\ f \in s /\ (s \cup {x}) \ {f} = t \cup {x} /\ t \cup {f} = s
        /\ t \subseteq s /\ t # s /\ t \in SUBSET S /\ f \in S \ t /\ x \in S \ t
    BY <1>4, <1>5, <1>6, <1>9
  <2>2. t \notin B
    BY <1>3, <2>1
  <2>3. /\ Total(pay, t \cup {x}) = pay[x].amount + Total(pay, t)
        /\ Total(pay, t \cup {f}) = pay[f].amount + Total(pay, t)
    BY <2>1, <2>2
  <2>4. Total(pay, t) \in Nat
    BY <2>1, TotalNat, FS_Subset
  <2>5. Total(pay, s \cup {x}) = pay[f].amount + (pay[x].amount + Total(pay, t))
    BY <1>7, <2>1, <2>3, Zenon
  <2>6. Total(pay, s) = pay[f].amount + Total(pay, t)
    BY <2>1, <2>3, Zenon
  <2>7. pay[f].amount \in Nat /\ pay[x].amount \in Nat
    BY <1>5, <2>1
  <2> HIDE DEF t
  <2> QED
    BY <1>4, <2>4, <2>5, <2>6, <2>7
<1> QED
  BY <1>8, <1>9

\* Leaving payments out does not raise the sum.
LEMMA TotalMonotone ==
  ASSUME NEW pay, NEW S, IsFiniteSet(S), \A x \in S : pay[x].amount \in Nat,
         NEW T \in SUBSET S
  PROVE  Total(pay, T) <= Total(pay, S)
<1> DEFINE B == {s \in SUBSET S : T \subseteq s /\ ~(Total(pay, T) <= Total(pay, s))}
<1>1. SUFFICES ASSUME B # {} PROVE FALSE
  OBVIOUS
<1>2. PICK s \in B : \A t \in B : t \subseteq s => t = s
  <2> HIDE DEF B
  <2>1. B \subseteq SUBSET S
    BY DEF B
  <2> QED
    BY <1>1, <2>1, Smallest
<1>3. s \in SUBSET S /\ T \subseteq s /\ ~(Total(pay, T) <= Total(pay, s))
  BY <1>2
<1>4. IsFiniteSet(s) /\ IsFiniteSet(T)
  BY <1>3, FS_Subset
<1>5. Total(pay, T) \in Nat
  BY <1>4, TotalNat
<1>6. T # s
  BY <1>3, <1>5
<1>7. PICK y \in s : y \notin T
  BY <1>3, <1>6
<1> DEFINE u == s \ {y}
<1>8. u \in SUBSET S /\ T \subseteq u /\ u \subseteq s /\ u # s
  BY <1>3, <1>7
<1>9. Total(pay, T) <= Total(pay, u)
  BY <1>2, <1>8
<1>10. Total(pay, s) = pay[y].amount + Total(pay, u) /\ Total(pay, u) \in Nat
  BY <1>3, <1>4, <1>7, <1>8, TotalAdd, TotalNat, FS_Subset
<1> HIDE DEF u
<1> QED
  BY <1>3, <1>5, <1>7, <1>9, <1>10

-----------------------------------------------------------------------------
(* The ledger.  Needs that what a lone verification has read of its payment *)
(* and of the balance is still so, and that a row not yet written is worth  *)
(* nothing.                                                                 *)

Direct == {x \in PaymentIds : payment[x].inst = None}

\* The ledger, in terms of the rows as a value.
Exact(i) == inst[i].received = Total(payment, Collected(i))

DirectExact == Total(payment, Direct) <= Price => balance = Price - Total(payment, Collected(None))

\* The amounts and the balance that request r has read.
ReadMoney(r) ==
    r.op = "VERIFY" =>
        /\ payment[r.pay].amount = r.amount
        /\ r.st # "READ" /\ r.inst = None => r.balance = balance

MoneyRead == ~overlapped => \A p \in Procs : ReadMoney(proc[p])

UnwrittenWorthNothing == \A x \in PaymentIds : payment[x].status = "ABSENT" => payment[x].amount = 0

Ledger == ~cancelled /\ ~overlapped => (\A i \in Insts : Exact(i)) /\ DirectExact

LedgerInv == SoloInv /\ MoneyRead /\ UnwrittenWorthNothing /\ Ledger


LEMMA LedgerExactDef == Ledger <=> LedgerExact
  BY PaidTotal, Zenon DEF Ledger, LedgerExact, Exact, DirectExact, Collected, Direct

LEMMA IdleReadNothing == ReadMoney(Idle) /\ ReadMoney(Idle)'
  BY DEF ReadMoney, Idle

\* Only the process that steps alone has to have read the rows as they are.
LEMMA SoloMoney ==
  ASSUME TypeOK, OneAtATime, NEW p \in Procs, NEW r,
         \/ Continue(p, r) /\ proc[p] # Idle
         \/ Start(p, r),
         ~overlapped' => ReadMoney(r)'
  PROVE  MoneyRead'
<1>1. SUFFICES ASSUME ~overlapped', NEW q \in Procs PROVE ReadMoney(proc[q])'
  BY DEF MoneyRead
<1>2. /\ proc' = [proc EXCEPT ![p] = r]
      /\ q # p => proc'[q] = Idle
  BY <1>1, Solo
<1>3. CASE q = p
  <2>1. proc'[q] = r
    BY <1>2, <1>3 DEF TypeOK
  <2> QED
    BY <1>1, <2>1 DEF ReadMoney
<1>4. CASE q # p
  BY <1>2, <1>4, IdleReadNothing DEF ReadMoney
<1> QED
  BY <1>3, <1>4

LEMMA MoneyReadStep ==
  ASSUME SoloInv, MoneyRead, [Next]_vars
  PROVE  MoneyRead'
<1> USE DEF SoloInv, IInv
<1>1. CASE UNCHANGED vars
  BY <1>1 DEF vars, rows, MoneyRead, ReadMoney
<1>2. \A p \in Procs : proc[p].op # "IDLE" => proc[p] # Idle
  BY DEF Idle
<1>3. ASSUME NEW p \in Procs, NEW r, Start(p, r), r.op # "VERIFY"
      PROVE  MoneyRead'
  <2>1. ReadMoney(r)'
    BY <1>3 DEF ReadMoney
  <2> QED
    BY <1>3, <2>1, SoloMoney
<1>4. ASSUME NEW p \in Procs, proc[p] # Idle, Finish(p)
      PROVE  MoneyRead'
  BY <1>4, SoloMoney, IdleReadNothing DEF Finish
<1>5. ASSUME NEW p \in Procs, NEW x \in PaymentIds, NEW a \in Amounts, NEW i \in Targets,
             ReadForRecord(p, x, a, i)
      PROVE  MoneyRead'
  <2>1. PICK r : /\ r = [Idle EXCEPT !.op = "RECORD", !.pay = x, !.amount = a, !.inst = i]
                 /\ Start(p, r)
    BY <1>5 DEF ReadForRecord
  <2>2. r.op # "VERIFY"
    BY <2>1 DEF Idle
  <2> QED
    BY <1>3, <2>1, <2>2
<1>6. ASSUME NEW p \in Procs, NEW x \in PaymentIds, NEW to \in Verdict, ReadPayment(p, x, to)
      PROVE  MoneyRead'
  <2>1. PICK r : /\ r = [Idle EXCEPT !.op = "VERIFY", !.pay = x, !.to = to,
                               !.amount = payment[x].amount, !.inst = payment[x].inst,
                               !.was = payment[x].status]
                 /\ Start(p, r) /\ UNCHANGED rows
    BY <1>6 DEF ReadPayment, Start
  <2>2. r.st = "READ" /\ r.pay = x /\ r.amount = payment[x].amount
    BY <2>1 DEF Idle
  <2>3. ReadMoney(r)'
    BY <2>1, <2>2 DEF ReadMoney, rows
  <2> QED
    BY <2>1, <2>3, SoloMoney
<1>7. ASSUME NEW p \in Procs, ReadForCancel(p)
      PROVE  MoneyRead'
  <2>1. PICK r : r = [Idle EXCEPT !.op = "CANCEL", !.st = "CHECKED"] /\ Start(p, r)
    BY <1>7 DEF ReadForCancel
  <2>2. r.op # "VERIFY"
    BY <2>1 DEF Idle
  <2> QED
    BY <1>3, <2>1, <2>2
<1>8. ASSUME NEW p \in Procs, ReadBooking(p)
      PROVE  MoneyRead'
  <2>1. PICK r :
          /\ r = [proc[p] EXCEPT !.st = "CHECKED",
                                 !.balance = IF proc[p].inst = None THEN balance ELSE @]
          /\ proc[p] # Idle /\ proc[p].op = "VERIFY" /\ UNCHANGED rows /\ UNCHANGED overlapped
          /\ Finish(p) \/ Continue(p, r)
    BY <1>2, <1>8 DEF ReadBooking, Finish, Continue
  <2>2. /\ r.pay = proc[p].pay /\ r.amount = proc[p].amount /\ r.inst = proc[p].inst
        /\ r.inst = None => r.balance = balance
    BY <2>1 DEF TypeOK, Request
  <2>3. ~overlapped => ReadMoney(r)'
    BY <2>1, <2>2 DEF MoneyRead, ReadMoney, rows
  <2> QED
    BY <1>4, <2>1, <2>3, SoloMoney
<1>9. ASSUME NEW p \in Procs, BeginVerify(p)
      PROVE  MoneyRead'
  <2>1. PICK r :
          /\ r = [proc[p] EXCEPT !.st = "TX",
                                 !.seen = IF proc[p].inst # None THEN inst[proc[p].inst] ELSE @]
          /\ proc[p] # Idle /\ proc[p].op = "VERIFY" /\ proc[p].st = "CHECKED"
          /\ UNCHANGED rows /\ UNCHANGED overlapped /\ Continue(p, r)
    BY <1>2, <1>9 DEF BeginVerify, Continue
  <2>2. /\ r.pay = proc[p].pay /\ r.amount = proc[p].amount /\ r.inst = proc[p].inst
        /\ r.balance = proc[p].balance
    BY <2>1 DEF TypeOK, Request
  <2>3. ~overlapped => ReadMoney(r)'
    BY <2>1, <2>2 DEF MoneyRead, ReadMoney, rows
  <2> QED
    BY <2>1, <2>3, SoloMoney
<1>10. ASSUME NEW p \in Procs, BeginCancel(p)
       PROVE  MoneyRead'
  <2>1. PICK r :
          /\ r = [proc[p] EXCEPT !.st = "TX",
                        !.due = {x \in PaymentIds : payment[x].status \in Refundable}]
          /\ proc[p] # Idle /\ proc[p].op = "CANCEL" /\ Continue(p, r)
    BY <1>2, <1>10 DEF BeginCancel
  <2>2. r.op = "CANCEL"
    BY <2>1 DEF TypeOK, Request
  <2>3. ReadMoney(r)'
    BY <2>2 DEF ReadMoney
  <2> QED
    BY <2>1, <2>3, SoloMoney
<1>11. ASSUME NEW p \in Procs, RecordPayment(p) \/ CommitVerify(p) \/ CommitCancel(p) \/ Fail(p)
       PROVE  MoneyRead'
  <2>1. proc[p].op # "IDLE" /\ Finish(p)
    BY <1>11 DEF RecordPayment, CommitVerify, CommitCancel, Fail
  <2> QED
    BY <1>2, <1>4, <2>1
<1> QED
  BY <1>1, <1>5, <1>6, <1>7, <1>8, <1>9, <1>10, <1>11 DEF Next

LEMMA UnwrittenStep ==
  ASSUME TypeOK, UnwrittenWorthNothing, [Next]_vars
  PROVE  UnwrittenWorthNothing'
<1> SUFFICES ASSUME NEW x \in PaymentIds, payment'[x].status = "ABSENT"
             PROVE  payment'[x].amount = 0
  BY DEF UnwrittenWorthNothing
<1>1. payment[x].status = "ABSENT"
  BY PaymentsStay
<1>2. CASE UNCHANGED payment
  BY <1>1, <1>2 DEF UnwrittenWorthNothing
<1>3. ASSUME NEW p \in Procs, RecordPayment(p)
      PROVE  payment'[x] = payment[x]
  BY <1>3 DEF RecordPayment, TypeOK
<1>4. ASSUME NEW p \in Procs, CommitVerify(p)
      PROVE  payment'[x].amount = payment[x].amount
  <2>1. payment' = [payment EXCEPT ![proc[p].pay].status = proc[p].to]
    BY <1>4, VerifyWrites
  <2> QED
    BY <2>1 DEF TypeOK, PaymentRow
<1>5. ASSUME NEW p \in Procs, CommitCancel(p)
      PROVE  payment'[x].amount = payment[x].amount
  BY <1>5 DEF CommitCancel, TypeOK, PaymentRow
<1> QED
  BY <1>1, <1>2, <1>3, <1>4, <1>5, PaymentWriters DEF UnwrittenWorthNothing


\* Every payment is worth a natural number, and so is every set of payments.
LEMMA AmountsNat ==
  ASSUME TypeOK, NEW S \in SUBSET PaymentIds
  PROVE  /\ IsFiniteSet(S)
         /\ \A x \in S : payment[x].amount \in Nat
         /\ Total(payment, S) \in Nat
<1>1. IsFiniteSet(S)
  BY PaymentsAssumption, FS_Subset
<1>2. \A x \in S : payment[x].amount \in Nat
  BY DEF TypeOK, PaymentRow
<1> QED
  BY <1>1, <1>2, TotalNat

\* Recording a payment collects nothing, and raises what was paid directly if
\* anything.
LEMMA RecordLedger ==
  ASSUME SoloInv, UnwrittenWorthNothing, Ledger, NEW p \in Procs, RecordPayment(p)
  PROVE  Ledger'
<1> USE DEF SoloInv, IInv
<1>1. PICK x, row :
        /\ x = proc[p].pay
        /\ row = [status |-> "PENDING", amount |-> proc[p].amount, inst |-> proc[p].inst]
  OBVIOUS
<1>2. /\ payment[x].status = "ABSENT" /\ payment' = [payment EXCEPT ![x] = row]
      /\ row.status = "PENDING"
      /\ UNCHANGED <<inst, balance, cancelled, overlapped>>
  BY <1>1 DEF RecordPayment, Finish, Continue
<1>3. SUFFICES ASSUME x \in PaymentIds PROVE Ledger'
  <2>1. CASE x \in PaymentIds
    BY <1>3, <2>1
  <2>2. CASE x \notin PaymentIds
    <3>1. payment' = payment
      BY <1>2, <2>2 DEF TypeOK
    <3>2. (\A i : Collected(i)' = Collected(i)) /\ Direct' = Direct
      BY <3>1 DEF Collected, Direct
    <3> HIDE DEF Collected, Direct
    <3> QED
      BY <1>2, <3>1, <3>2 DEF Ledger, Exact, DirectExact
  <2> QED
    BY <2>1, <2>2
<1>4. /\ payment'[x] = row
      /\ \A y \in PaymentIds : y # x => payment'[y] = payment[y]
  BY <1>2, <1>3 DEF TypeOK
<1>5. \A i : Collected(i)' = Collected(i) /\ x \notin Collected(i)
  BY <1>2, <1>4 DEF Collected
<1>6. \A i : Total(payment', Collected(i)) = Total(payment, Collected(i))
  <2> SUFFICES ASSUME NEW i PROVE Total(payment', Collected(i)) = Total(payment, Collected(i))
    OBVIOUS
  <2>1. \A y \in Collected(i) : payment'[y].amount = payment[y].amount
    BY <1>4, <1>5 DEF Collected
  <2>2. IsFiniteSet(Collected(i))
    BY AmountsNat DEF Collected
  <2> QED
    BY <2>1, <2>2, TotalSame
<1>7. IsFiniteSet(Direct') /\ \A y \in Direct' : payment'[y].amount \in Nat
  <2>1. proc[p].amount \in Nat
    BY DEF TypeOK, Request
  <2>2. \A y \in PaymentIds : payment'[y].amount \in Nat
    BY <1>1, <1>4, <2>1 DEF TypeOK, PaymentRow
  <2>3. Direct' \in SUBSET PaymentIds
    BY DEF Direct
  <2> QED
    BY <2>2, <2>3, AmountsNat
<1>8. Total(payment, Direct) <= Total(payment', Direct')
  <2>1. PICK rest : rest = Direct \ {x}
    OBVIOUS
  <2>2. /\ rest \in SUBSET PaymentIds /\ Direct \in SUBSET PaymentIds
        /\ Direct' \in SUBSET PaymentIds
    BY <2>1 DEF Direct
  <2>3. Total(payment, Direct) = Total(payment, rest)
    <3>1. CASE x \in Direct
      <4>1. Total(payment, Direct) = payment[x].amount + Total(payment, rest)
        BY <2>1, <2>2, <3>1, AmountsNat, TotalAdd
      <4>2. payment[x].amount = 0
        BY <1>2, <1>3 DEF UnwrittenWorthNothing
      <4> QED
        BY <2>2, <4>1, <4>2, AmountsNat
    <3>2. CASE x \notin Direct
      BY <2>1, <3>2
    <3> QED
      BY <3>1, <3>2
  <2>4. Total(payment', rest) = Total(payment, rest)
    <3>1. \A y \in rest : payment'[y].amount = payment[y].amount
      BY <1>4, <2>1, <2>2
    <3>2. IsFiniteSet(rest)
      BY <2>2, AmountsNat
    <3> QED
      BY <3>1, <3>2, TotalSame
  <2>5. rest \subseteq Direct'
    BY <1>4, <2>1, <2>2 DEF Direct
  <2>6. Total(payment', rest) <= Total(payment', Direct')
    <3> HIDE DEF Direct
    <3> QED
      BY <1>7, <2>5, TotalMonotone
  <2> QED
    BY <2>3, <2>4, <2>6
<1>9. Total(payment', Direct') <= Price => Total(payment, Direct) <= Price
  <2>1. Total(payment, Direct) \in Nat
    BY AmountsNat DEF Direct
  <2>2. Total(payment', Direct') \in Nat
    BY <1>7, TotalNat
  <2> QED
    BY <1>8, <2>1, <2>2, PaymentsAssumption
<1> SUFFICES ASSUME ~cancelled', ~overlapped'
             PROVE  (\A i \in Insts : Exact(i)') /\ DirectExact'
  BY DEF Ledger
<1>10. (\A i \in Insts : Exact(i)) /\ DirectExact
  BY <1>2 DEF Ledger
<1>11. \A i : Total(payment', Collected(i)') = Total(payment, Collected(i))
  BY <1>5, <1>6
<1> HIDE DEF Collected, Direct
<1>12. \A i \in Insts : Exact(i)'
  BY <1>2, <1>10, <1>11 DEF Exact
<1>13. DirectExact'
  BY <1>2, <1>9, <1>10, <1>11 DEF DirectExact
<1> QED
  BY <1>12, <1>13


\* What a lone verification stands on when it commits.
LEMMA VerifyReads ==
  ASSUME SoloInv, MoneyRead, NEW p \in Procs, CommitVerify(p), ~overlapped'
  PROVE  /\ ~overlapped
         /\ proc[p] \in Request /\ proc[p].pay \in PaymentIds
         /\ payment[proc[p].pay].status = proc[p].was
         /\ payment[proc[p].pay].inst = proc[p].inst
         /\ payment[proc[p].pay].amount = proc[p].amount
         /\ Allowed(proc[p].was, proc[p].to)
         /\ proc[p].inst # None => proc[p].seen = inst[proc[p].inst]
         /\ proc[p].inst = None => proc[p].balance = balance
<1>1. ~overlapped /\ proc[p].op = "VERIFY" /\ proc[p].st = "TX"
  BY VerifyWrites
<1>2. Current(proc[p]) /\ Founded(proc[p]) /\ ReadMoney(proc[p]) /\ proc[p] \in Request
  BY <1>1 DEF SoloInv, IInv, ReadsCurrent, RequestsFounded, TypeOK, MoneyRead
<1> QED
  BY <1>1, <1>2 DEF Current, Founded, ReadMoney

\* It adds its payment to what was collected for the payment's instalment (or for the
\* booking itself), takes it away, or moves nothing.
LEMMA CollectedMoves ==
  ASSUME SoloInv, MoneyRead, NEW p \in Procs, CommitVerify(p), ~overlapped',
         NEW r, r = proc[p], NEW i
  PROVE  Total(payment', Collected(i)') =
           IF i # r.inst \/ (r.to # "SUCCESS" /\ r.was # "SUCCESS")
           THEN Total(payment, Collected(i))
           ELSE IF r.to = "SUCCESS" THEN Total(payment, Collected(i)) + r.amount
           ELSE Total(payment, Collected(i)) - r.amount
<1> USE DEF SoloInv, IInv
<1>1. /\ r \in Request /\ r.pay \in PaymentIds
      /\ payment[r.pay].status = r.was /\ payment[r.pay].inst = r.inst
      /\ payment[r.pay].amount = r.amount /\ Allowed(r.was, r.to)
  BY VerifyReads
<1>2. payment' = [payment EXCEPT ![r.pay].status = r.to]
  BY VerifyWrites
<1>3. /\ payment'[r.pay].status = r.to /\ payment'[r.pay].inst = r.inst
      /\ payment'[r.pay].amount = r.amount
      /\ \A x \in PaymentIds : x # r.pay => payment'[x] = payment[x]
  BY <1>1, <1>2 DEF TypeOK, PaymentRow
<1>4. /\ r.to \in Verdict
      /\ r.to = "SUCCESS" => r.was # "SUCCESS"
      /\ r.was = "SUCCESS" => r.to # "SUCCESS"
  BY <1>1 DEF Allowed, Request
<1>5. PICK old, new : old = Collected(i) /\ new = Collected(i)'
  OBVIOUS
<1>6. old \in SUBSET PaymentIds /\ new \in SUBSET PaymentIds
  BY <1>5 DEF Collected
<1>7. \A S \in SUBSET PaymentIds : Total(payment', S) = Total(payment, S)
  <2> SUFFICES ASSUME NEW S \in SUBSET PaymentIds PROVE Total(payment', S) = Total(payment, S)
    OBVIOUS
  <2>1. \A x \in S : payment'[x].amount = payment[x].amount
    BY <1>1, <1>3
  <2>2. IsFiniteSet(S)
    BY AmountsNat
  <2> QED
    BY <2>1, <2>2, TotalSame
<1>8. Total(payment', Collected(i)') = Total(payment, new)
  BY <1>5, <1>6, <1>7
<1>9. CASE i # r.inst \/ (r.to # "SUCCESS" /\ r.was # "SUCCESS")
  <2>1. old = new
    BY <1>1, <1>3, <1>5, <1>9 DEF Collected
  <2> QED
    BY <1>5, <1>8, <1>9, <2>1
<1>10. CASE i = r.inst /\ r.to = "SUCCESS"
  <2>1. r.pay \in new /\ new \ {r.pay} = old
    BY <1>1, <1>3, <1>4, <1>5, <1>10 DEF Collected
  <2>2. Total(payment, new) = r.amount + Total(payment, old)
    BY <1>1, <1>6, <2>1, AmountsNat, TotalAdd
  <2>3. Total(payment, old) \in Nat /\ r.amount \in Nat
    BY <1>1, <1>6, AmountsNat DEF Request
  <2> QED
    BY <1>5, <1>8, <1>10, <2>2, <2>3
<1>11. CASE i = r.inst /\ r.to # "SUCCESS" /\ r.was = "SUCCESS"
  <2>1. r.pay \in old /\ old \ {r.pay} = new
    BY <1>1, <1>3, <1>4, <1>5, <1>11 DEF Collected
  <2>2. Total(payment, old) = r.amount + Total(payment, new)
    BY <1>1, <1>6, <2>1, AmountsNat, TotalAdd
  <2>3. Total(payment, new) \in Nat /\ r.amount \in Nat
    BY <1>1, <1>6, AmountsNat DEF Request
  <2> QED
    BY <1>5, <1>8, <1>11, <2>2, <2>3
<1> QED
  BY <1>9, <1>10, <1>11

\* A verification leaves every instalment with what was collected for it.
LEMMA VerifyExact ==
  ASSUME SoloInv, MoneyRead, Ledger, NEW p \in Procs, CommitVerify(p),
         ~cancelled', ~overlapped', NEW i \in Insts
  PROVE  Exact(i)'
<1> USE DEF SoloInv, IInv
<1>1. PICK r : r = proc[p]
  OBVIOUS
<1>2. /\ ~overlapped /\ r \in Request /\ r.pay \in PaymentIds
      /\ Allowed(r.was, r.to)
      /\ r.inst # None => r.seen = inst[r.inst]
  BY <1>1, VerifyReads
<1>3. ~cancelled
  BY VerifyWrites
<1>4. inst[i].received = Total(payment, Collected(i))
  BY <1>2, <1>3 DEF Ledger, Exact
<1>5. PICK now, then : now = Total(payment, Collected(i)) /\ then = Total(payment', Collected(i)')
  OBVIOUS
<1>6. now \in Nat /\ then \in Nat /\ r.amount \in Nat
  <2>1. TypeOK'
    BY StepTypes DEF Next
  <2>2. IsFiniteSet(Collected(i)') /\ \A x \in Collected(i)' : payment'[x].amount \in Nat
    <3>1. Collected(i)' \in SUBSET PaymentIds
      BY DEF Collected
    <3>2. \A x \in PaymentIds : payment'[x].amount \in Nat
      BY <2>1 DEF TypeOK, PaymentRow
    <3> QED
      BY <3>1, <3>2, AmountsNat
  <2>3. then \in Nat
    <3> HIDE DEF Collected
    <3> QED
      BY <1>5, <2>2, TotalNat
  <2> QED
    BY <1>2, <1>5, <2>3, AmountsNat DEF Collected, Request
<1>7. then = IF i # r.inst \/ (r.to # "SUCCESS" /\ r.was # "SUCCESS") THEN now
             ELSE IF r.to = "SUCCESS" THEN now + r.amount ELSE now - r.amount
  BY <1>1, <1>5, CollectedMoves
<1>8. inst[i].received = now
  BY <1>4, <1>5
<1>9. inst'[i].received = then
  <2>1. CASE Collect(r) /\ r.to = "SUCCESS" /\ r.inst # None
    <3>1. inst' = [inst EXCEPT ![r.inst] =
                     [received |-> r.seen.received + r.amount,
                      status |-> InstStatusOf(r.inst, r.seen.received + r.amount)]]
      BY <2>1 DEF Collect
    <3>2. CASE i = r.inst
      <4>1. inst'[i].received = inst[i].received + r.amount
        BY <1>2, <2>1, <3>1, <3>2 DEF TypeOK
      <4> QED
        BY <1>7, <1>8, <2>1, <3>2, <4>1
    <3>3. CASE i # r.inst
      BY <1>7, <1>8, <3>1, <3>3 DEF TypeOK
    <3> QED
      BY <3>2, <3>3
  <2>2. CASE GiveBack(r) /\ r.was = "SUCCESS" /\ r.to = "REFUNDED" /\ r.inst # None
    <3> DEFINE received == AtLeastZero(r.seen.received - r.amount)
    <3>1. inst' = [inst EXCEPT ![r.inst] =
                     [received |-> received,
                      status |-> IF received <= 0 THEN "PENDING" ELSE "PARTIALLY_RECEIVED"]]
      BY <2>2 DEF GiveBack
    <3>2. CASE i = r.inst
      <4>1. then = now - r.amount /\ r.seen.received = now
        BY <1>2, <1>7, <1>8, <2>2, <3>2
      <4>2. received = then
        BY <1>6, <4>1 DEF AtLeastZero
      <4> HIDE DEF received
      <4> QED
        BY <3>1, <3>2, <4>2 DEF TypeOK
    <3>3. CASE i # r.inst
      <4> HIDE DEF received
      <4> QED
        BY <1>7, <1>8, <3>1, <3>3 DEF TypeOK
    <3> QED
      BY <3>2, <3>3
  <2>3. CASE MoveBalance(r) /\ r.inst = None
    <3>1. i # r.inst /\ inst' = inst
      BY <2>3, PaymentsAssumption DEF MoveBalance
    <3> QED
      BY <1>7, <1>8, <3>1
  <2>4. CASE NoMoneyMoves(r) /\ r.to # "SUCCESS" /\ ~(r.was = "SUCCESS" /\ r.to = "REFUNDED")
    <3>1. r.was # "SUCCESS" /\ inst' = inst
      BY <1>2, <2>4 DEF NoMoneyMoves, Allowed
    <3> QED
      BY <1>7, <1>8, <2>4, <3>1
  <2> QED
    BY <1>1, <2>1, <2>2, <2>3, <2>4 DEF CommitVerify, Refunds
<1> QED
  BY <1>5, <1>9 DEF Exact

\* A verification leaves the balance with what was not yet collected of the price.
LEMMA VerifyDirectExact ==
  ASSUME SoloInv, MoneyRead, Ledger, NEW p \in Procs, CommitVerify(p),
         ~cancelled', ~overlapped'
  PROVE  DirectExact'
<1> USE DEF SoloInv, IInv
<1>1. PICK r : r = proc[p]
  OBVIOUS
<1>2. /\ ~overlapped /\ r \in Request /\ r.pay \in PaymentIds
      /\ payment[r.pay].inst = r.inst /\ payment[r.pay].amount = r.amount
      /\ Allowed(r.was, r.to)
      /\ r.inst = None => r.balance = balance
  BY <1>1, VerifyReads
<1>3. ~cancelled /\ payment' = [payment EXCEPT ![r.pay].status = r.to]
  BY <1>1, VerifyWrites
<1>4. \A x \in PaymentIds : /\ payment'[x].inst = payment[x].inst
                             /\ payment'[x].amount = payment[x].amount
  BY <1>2, <1>3 DEF TypeOK, PaymentRow
<1>5. PICK direct : direct = Direct /\ direct = Direct'
  BY <1>4 DEF Direct
<1>6. direct \in SUBSET PaymentIds
  BY <1>5 DEF Direct
<1>7. Total(payment', direct) = Total(payment, direct)
  <2>1. \A x \in direct : payment'[x].amount = payment[x].amount
    BY <1>4, <1>6
  <2>2. IsFiniteSet(direct)
    BY <1>6, AmountsNat
  <2> QED
    BY <2>1, <2>2, TotalSame
<1>8. SUFFICES ASSUME Total(payment, direct) <= Price
               PROVE  balance' = Price - Total(payment', Collected(None)')
  BY <1>5, <1>7 DEF DirectExact
<1>9. PICK now, then : now = Total(payment, Collected(None)) /\ then = Total(payment', Collected(None)')
  OBVIOUS
<1>10. balance = Price - now
  BY <1>2, <1>3, <1>5, <1>8, <1>9 DEF Ledger, DirectExact
<1>11. then = IF None # r.inst \/ (r.to # "SUCCESS" /\ r.was # "SUCCESS") THEN now
              ELSE IF r.to = "SUCCESS" THEN now + r.amount ELSE now - r.amount
  BY <1>1, <1>9, CollectedMoves
<1>12. now \in Nat /\ r.amount \in Nat
  BY <1>2, <1>9, AmountsNat DEF Collected, Request
<1>13. then <= Price
  <2>1. Collected(None)' \in SUBSET direct
    BY <1>5 DEF Collected, Direct
  <2>2. IsFiniteSet(direct) /\ \A x \in direct : payment'[x].amount \in Nat
    <3>1. \A x \in direct : payment[x].amount \in Nat /\ payment'[x].amount = payment[x].amount
      BY <1>4, <1>6 DEF TypeOK, PaymentRow
    <3> QED
      BY <1>6, <3>1, AmountsNat
  <2>3. then <= Total(payment', direct)
    <3> HIDE DEF Collected
    <3> QED
      BY <1>9, <2>1, <2>2, TotalMonotone
  <2>4. then \in Int /\ Total(payment, direct) \in Nat
    BY <1>6, <1>11, <1>12, AmountsNat
  <2> QED
    BY <1>7, <1>8, <2>3, <2>4, PaymentsAssumption
<1>14. balance' = Price - then
  <2> USE PaymentsAssumption
  <2>1. CASE MoveBalance(r) /\ r.inst = None /\ r.to = "SUCCESS"
    <3>1. balance' = AtLeastZero(balance - r.amount)
      BY <1>2, <2>1 DEF MoveBalance, ReducedBalance
    <3>2. then = now + r.amount
      BY <1>11, <2>1
    <3> QED
      BY <1>10, <1>12, <1>13, <3>1, <3>2 DEF AtLeastZero
  <2>2. CASE MoveBalance(r) /\ r.inst = None /\ r.was = "SUCCESS" /\ r.to = "REFUNDED"
    <3>1. balance' = balance + r.amount
      BY <1>2, <2>2 DEF MoveBalance, RestoredBalance
    <3>2. then = now - r.amount
      BY <1>11, <2>2
    <3> QED
      BY <1>10, <1>12, <3>1, <3>2
  <2>3. CASE (Collect(r) \/ GiveBack(r)) /\ r.inst # None
    BY <1>10, <1>11, <2>3 DEF Collect, GiveBack
  <2>4. CASE NoMoneyMoves(r) /\ r.to # "SUCCESS" /\ ~(r.was = "SUCCESS" /\ r.to = "REFUNDED")
    <3>1. r.was # "SUCCESS" /\ balance' = balance
      BY <1>2, <2>4 DEF NoMoneyMoves, Allowed
    <3> QED
      BY <1>10, <1>11, <2>4, <3>1
  <2> QED
    BY <1>1, <2>1, <2>2, <2>3, <2>4 DEF CommitVerify, Refunds
<1> QED
  BY <1>9, <1>14

LEMMA LedgerStep ==
  ASSUME SoloInv, MoneyRead, UnwrittenWorthNothing, Ledger, [Next]_vars
  PROVE  Ledger'
<1>1. overlapped => overlapped'
  BY OverlapStays DEF SoloInv, IInv
<1>2. CASE UNCHANGED rows
  <2>1. /\ \A i : Collected(i)' = Collected(i)
        /\ Direct' = Direct
        /\ UNCHANGED <<payment, inst, balance, cancelled>>
    BY <1>2 DEF rows, Collected, Direct
  <2> QED
    BY <1>1, <2>1 DEF Ledger, Exact, DirectExact
<1>3. ASSUME NEW p \in Procs, CommitVerify(p)
      PROVE  Ledger'
  BY <1>3, VerifyExact, VerifyDirectExact DEF Ledger
<1>4. ASSUME NEW p \in Procs, CommitCancel(p)
      PROVE  Ledger'
  BY <1>4 DEF CommitCancel, Ledger
<1>5. UNCHANGED rows \/ \E p \in Procs : RecordPayment(p) \/ CommitVerify(p) \/ CommitCancel(p)
         \/ \E x \in PaymentIds, a \in Amounts, i \in Targets : ReadForRecord(p, x, a, i)
  BY DEF Next, vars, Start, ReadPayment, ReadForCancel, ReadBooking, BeginVerify, BeginCancel, Fail
<1>6. ASSUME NEW p \in Procs, NEW x \in PaymentIds, NEW a \in Amounts, NEW i \in Targets,
             ReadForRecord(p, x, a, i)
      PROVE  UNCHANGED rows
  BY <1>6 DEF ReadForRecord, Start
<1> QED
  BY <1>2, <1>3, <1>4, <1>5, <1>6, RecordLedger

LEMMA AlwaysLedger == Spec => []LedgerInv
<1>1. Init => MoneyRead /\ UnwrittenWorthNothing /\ Ledger
  <2> SUFFICES ASSUME Init PROVE MoneyRead /\ UnwrittenWorthNothing /\ Ledger
    OBVIOUS
  <2>1. MoneyRead
    BY IdleReadNothing DEF Init, MoneyRead
  <2>2. UnwrittenWorthNothing
    BY DEF Init, UnwrittenWorthNothing
  <2>3. \A i : Total(payment, Collected(i)) = 0
    <3>1. \A i : Collected(i) = {}
      BY DEF Init, Collected
    <3> QED
      BY <3>1, TotalEmpty
  <2>4. \A i \in Insts : Exact(i)
    BY <2>3 DEF Init, Exact, NewInst
  <2>5. DirectExact
    BY <2>3, PaymentsAssumption DEF Init, DirectExact
  <2> QED
    BY <2>1, <2>2, <2>4, <2>5 DEF Ledger
<1>2. LedgerInv /\ SoloInv' /\ [Next]_vars => LedgerInv'
  BY MoneyReadStep, UnwrittenStep, LedgerStep DEF LedgerInv, SoloInv, IInv
<1> QED
  BY <1>1, <1>2, AlwaysSolo, PTL DEF Spec, LedgerInv

\* As long as no two requests overlap, every instalment of a live booking has received
\* the sum of its SUCCESS payments, and unless more than the price was paid directly the
\* balance is the price without the sum of the direct SUCCESS payments.
THEOREM LedgerCorrect == Spec => []LedgerExact
<1>1. LedgerInv => LedgerExact
  BY LedgerExactDef DEF LedgerInv
<1> QED
  BY <1>1, AlwaysLedger, PTL
-----------------------------------------------------------------------------
(* Collections.  Needs that a verification knows its payment's instalment   *)
(* and amount, and that a refund under way alone on its instalment finds    *)
(* the money there that it will give back, on the row it has read.          *)

ReadsMatch ==
    \A p \in Procs : proc[p].op = "VERIFY" =>
        payment[proc[p].pay].inst = proc[p].inst /\ payment[proc[p].pay].amount = proc[p].amount

RefundUnderWay(p, i) == Verifies(proc[p], i) /\ Refunds(proc[p])

\* The refund of request p can be paid out of what instalment i has received.
Covered(p, i) ==
    /\ inst[i].received >= Total(payment, Collected(i) \cup {proc[p].pay})
    /\ proc[p].st = "TX" => proc[p].seen = inst[i]
    /\ \A q \in Procs : q # p => ~Verifies(proc[q], i)

CollectionsKept ==
    \A i \in Insts \ undercut :
        /\ inst[i].received >= Total(payment, Collected(i))
        /\ \A p \in Procs : RefundUnderWay(p, i) => Covered(p, i)

KeptInv == IInv /\ ReadsMatch /\ CollectionsKept

LEMMA PaymentsKeepInst ==
  ASSUME TypeOK, [Next]_vars, NEW x \in PaymentIds, payment[x].status # "ABSENT"
  PROVE  payment'[x].inst = payment[x].inst
<1>1. ASSUME NEW p \in Procs, RecordPayment(p)
      PROVE  payment'[x] = payment[x]
  BY <1>1 DEF RecordPayment, TypeOK
<1>2. ASSUME NEW p \in Procs, CommitVerify(p)
      PROVE  payment'[x].inst = payment[x].inst
  <2>1. payment' = [payment EXCEPT ![proc[p].pay].status = proc[p].to]
    BY <1>2, VerifyWrites
  <2> QED
    BY <2>1 DEF TypeOK, PaymentRow
<1>3. ASSUME NEW p \in Procs, CommitCancel(p)
      PROVE  payment'[x].inst = payment[x].inst
  BY <1>3 DEF CommitCancel, TypeOK, PaymentRow
<1> QED
  BY <1>1, <1>2, <1>3, PaymentWriters

\* A request is new, or was in flight and goes on with the same payment, or is over.
LEMMA RequestGoesOn ==
  ASSUME TypeOK, [Next]_vars, NEW q \in Procs
  PROVE  \/ proc'[q] = proc[q] \/ proc'[q].op # "VERIFY"
         \/ \E x \in PaymentIds, to \in Verdict : ReadPayment(q, x, to)
         \/ /\ (ReadBooking(q) \/ BeginVerify(q)) /\ proc[q].op = "VERIFY"
            /\ proc'[q].pay = proc[q].pay /\ proc'[q].inst = proc[q].inst
            /\ proc'[q].amount = proc[q].amount
            /\ proc'[q].was = proc[q].was /\ proc'[q].to = proc[q].to
<1> USE DEF Start, Finish, Continue, TypeOK
<1>0. \A p \in Procs : \A r : proc' = [proc EXCEPT ![p] = r] => proc'[p] = r
  OBVIOUS
<1>a. Idle.op # "VERIFY"
  BY DEF Idle
<1>1. CASE UNCHANGED vars
  BY <1>1 DEF vars
<1>2. ASSUME NEW p \in Procs, NEW x \in PaymentIds, NEW a \in Amounts, NEW i \in Targets,
             ReadForRecord(p, x, a, i)
      PROVE  proc'[q] = proc[q] \/ proc'[q].op # "VERIFY"
  BY <1>2 DEF ReadForRecord, Idle
<1>3. ASSUME NEW p \in Procs, NEW x \in PaymentIds, NEW to \in Verdict, ReadPayment(p, x, to)
      PROVE  proc'[q] = proc[q] \/ p = q
  BY <1>3 DEF ReadPayment
<1>4. ASSUME NEW p \in Procs, ReadForCancel(p) \/ RecordPayment(p) \/ CommitVerify(p)
                              \/ BeginCancel(p) \/ CommitCancel(p) \/ Fail(p)
      PROVE  proc'[q] = proc[q] \/ proc'[q].op # "VERIFY"
  <2>1. CASE q = p
    <3>1. CASE ReadForCancel(p)
      BY <2>1, <3>1 DEF ReadForCancel, Idle
    <3>2. CASE BeginCancel(p)
      BY <2>1, <3>2 DEF BeginCancel, Request
    <3>3. CASE RecordPayment(p) \/ CommitCancel(p) \/ Fail(p) \/ CommitVerify(p)
      <4>1. proc' = [proc EXCEPT ![p] = Idle]
        BY <3>3 DEF RecordPayment, CommitCancel, Fail, CommitVerify
      <4>2. proc'[q] = Idle
        BY <1>0, <2>1, <4>1
      <4> QED
        BY <1>a, <4>2
    <3> QED
      BY <1>4, <3>1, <3>2, <3>3
  <2>2. CASE q # p
    BY <1>4, <2>2 DEF ReadForCancel, RecordPayment, CommitVerify, BeginCancel, CommitCancel, Fail
  <2> QED
    BY <2>1, <2>2
<1>5. ASSUME NEW p \in Procs, ReadBooking(p) \/ BeginVerify(p)
      PROVE  \/ proc'[q] = proc[q] \/ proc'[q].op # "VERIFY"
             \/ /\ (ReadBooking(q) \/ BeginVerify(q)) /\ proc[q].op = "VERIFY"
                /\ proc'[q].pay = proc[q].pay /\ proc'[q].inst = proc[q].inst
                /\ proc'[q].amount = proc[q].amount
                /\ proc'[q].was = proc[q].was /\ proc'[q].to = proc[q].to
  <2>1. CASE q = p
    <3>1. proc[q].op = "VERIFY" /\ proc[q] \in Request
      BY <1>5, <2>1 DEF ReadBooking, BeginVerify
    <3>2. CASE BeginVerify(p)
      BY <2>1, <3>1, <3>2 DEF BeginVerify, Request
    <3>3. CASE ReadBooking(p) /\ Allowed(proc[p].was, proc[p].to)
      <4> DEFINE r == [proc[p] EXCEPT !.st = "CHECKED",
                                      !.balance = IF proc[p].inst = None THEN balance ELSE @]
      <4>1. proc' = [proc EXCEPT ![p] = r]
        BY <3>3 DEF ReadBooking
      <4>2. proc'[q] = r
        BY <1>0, <2>1, <4>1
      <4>3. /\ r.pay = proc[q].pay /\ r.inst = proc[q].inst /\ r.amount = proc[q].amount
            /\ r.was = proc[q].was /\ r.to = proc[q].to
        BY <2>1, <3>1 DEF Request
      <4> HIDE DEF r
      <4> QED
        BY <2>1, <3>1, <3>3, <4>2, <4>3
    <3>4. CASE ReadBooking(p) /\ ~Allowed(proc[p].was, proc[p].to)
      BY <1>a, <2>1, <3>1, <3>4 DEF ReadBooking
    <3> QED
      BY <1>5, <3>2, <3>3, <3>4
  <2>2. CASE q # p
    BY <1>5, <2>2 DEF ReadBooking, BeginVerify
  <2> QED
    BY <2>1, <2>2
<1> HIDE DEF Start, Finish, Continue, TypeOK
<1> QED
  BY <1>1, <1>2, <1>3, <1>4, <1>5 DEF Next

LEMMA ReadsMatchStep ==
  ASSUME IInv, ReadsMatch, [Next]_vars
  PROVE  ReadsMatch'
<1> SUFFICES ASSUME NEW q \in Procs, proc'[q].op = "VERIFY"
             PROVE  /\ payment'[proc'[q].pay].inst = proc'[q].inst
                    /\ payment'[proc'[q].pay].amount = proc'[q].amount
  BY DEF ReadsMatch
<1>1. CASE \E x \in PaymentIds, to \in Verdict : ReadPayment(q, x, to)
  BY <1>1 DEF ReadPayment, Start, rows, Idle, IInv, TypeOK
<1>2. CASE /\ proc[q].op = "VERIFY" /\ proc'[q].pay = proc[q].pay
           /\ proc'[q].inst = proc[q].inst /\ proc'[q].amount = proc[q].amount
  <2>1. proc[q].pay \in PaymentIds /\ payment[proc[q].pay].status # "ABSENT"
    BY <1>2 DEF IInv, RequestsFounded, Founded
  <2>2. /\ payment[proc[q].pay].inst = proc[q].inst
        /\ payment[proc[q].pay].amount = proc[q].amount
    BY <1>2 DEF ReadsMatch
  <2>3. PICK x \in PaymentIds : x = proc[q].pay
    BY <2>1
  <2>4. payment'[x].inst = payment[x].inst /\ payment'[x].amount = payment[x].amount
    BY <2>1, <2>3, PaymentsStay, PaymentsKeepInst DEF IInv
  <2> QED
    BY <1>2, <2>2, <2>3, <2>4
<1> QED
  BY <1>1, <1>2, RequestGoesOn DEF IInv

\* A step that leaves the rows alone and starts no verification keeps what was kept: a
\* refund that reads the instalment reads the row as it is.
LEMMA KeptByReads ==
  ASSUME KeptInv, [Next]_vars, UNCHANGED <<payment, inst>>, NEW i \in Insts \ undercut
  PROVE  \/ \E p \in Procs, x \in PaymentIds, to \in Verdict : ReadPayment(p, x, to)
         \/ /\ inst'[i].received >= Total(payment', Collected(i)')
            /\ \A q \in Procs : RefundUnderWay(q, i)' => Covered(q, i)'
<1> SUFFICES ASSUME ~\E p \in Procs, x \in PaymentIds, to \in Verdict : ReadPayment(p, x, to)
             PROVE  /\ inst'[i].received >= Total(payment', Collected(i)')
                    /\ \A q \in Procs : RefundUnderWay(q, i)' => Covered(q, i)'
  OBVIOUS
<1>1. Collected(i)' = Collected(i)
  BY DEF Collected
<1>2. inst'[i].received >= Total(payment', Collected(i)')
  <2>1. inst[i].received >= Total(payment, Collected(i))
    BY DEF KeptInv, CollectionsKept
  <2> HIDE DEF Collected
  <2> QED
    BY <1>1, <2>1
<1>3. \A q \in Procs : Verifies(proc'[q], i) =>
        /\ Verifies(proc[q], i)
        /\ proc'[q].pay = proc[q].pay
        /\ Refunds(proc'[q]) => Refunds(proc[q])
  BY RequestGoesOn DEF KeptInv, IInv, Verifies, Refunds
<1>4. ASSUME NEW q \in Procs, RefundUnderWay(q, i)'
      PROVE  Covered(q, i)'
  <2>1. RefundUnderWay(q, i) /\ proc'[q].pay = proc[q].pay /\ proc'[q].op = "VERIFY"
    BY <1>3, <1>4 DEF RefundUnderWay, Verifies
  <2>2. Covered(q, i)
    BY <2>1 DEF KeptInv, CollectionsKept
  <2>3. \A r \in Procs : r # q => ~Verifies(proc'[r], i)
    BY <1>3, <2>2 DEF Covered
  <2>4. inst'[i].received >= Total(payment', Collected(i)' \cup {proc'[q].pay})
    <3> HIDE DEF Collected
    <3> QED
      BY <1>1, <2>1, <2>2 DEF Covered
  <2>5. proc'[q].st = "TX" => proc'[q].seen = inst'[i]
    <3>1. CASE proc'[q] = proc[q]
      BY <2>2, <3>1 DEF Covered
    <3>2. CASE ReadBooking(q)
      <4>1. proc'[q].st # "TX"
        <5>1. proc[q] \in Request /\ \A r : proc' = [proc EXCEPT ![q] = r] => proc'[q] = r
          BY DEF KeptInv, IInv, TypeOK
        <5>2. CASE Allowed(proc[q].was, proc[q].to)
          BY <3>2, <5>1, <5>2 DEF ReadBooking, Continue, Request
        <5>3. CASE ~Allowed(proc[q].was, proc[q].to)
          <6>1. proc'[q] = Idle
            BY <3>2, <5>1, <5>3 DEF ReadBooking, Finish, Continue
          <6> QED
            BY <6>1 DEF Idle
        <5> QED
          BY <5>2, <5>3
      <4> QED
        BY <4>1
    <3>3. CASE BeginVerify(q)
      <4>1. proc[q].inst = i /\ i # None
        BY <2>1, PaymentsAssumption DEF RefundUnderWay, Verifies
      <4>2. proc'[q].seen = inst[i]
        BY <3>3, <4>1 DEF BeginVerify, Continue, KeptInv, IInv, TypeOK, Request
      <4> QED
        BY <4>2
    <3> QED
      BY <2>1, <3>1, <3>2, <3>3, RequestGoesOn DEF KeptInv, IInv
  <2> QED
    BY <2>3, <2>4, <2>5 DEF Covered
<1> QED
  BY <1>2, <1>4

\* A verification that starts reads a payment; if it or another one on the instalment
\* refunds, no other runs there, or the instalment counts as undercut.
LEMMA KeptByReadPayment ==
  ASSUME KeptInv, NEW p \in Procs, NEW x \in PaymentIds, NEW to \in Verdict,
         ReadPayment(p, x, to), NEW i \in Insts \ undercut, i \notin undercut'
  PROVE  /\ inst'[i].received >= Total(payment', Collected(i)')
         /\ \A q \in Procs : RefundUnderWay(q, i)' => Covered(q, i)'
<1>1. PICK r : r = [Idle EXCEPT !.op = "VERIFY", !.pay = x, !.to = to,
                                !.amount = payment[x].amount, !.inst = payment[x].inst,
                                !.was = payment[x].status]
  OBVIOUS
<1>2. r.op = "VERIFY" /\ r.st = "READ" /\ r.pay = x /\ r.inst = payment[x].inst
      /\ r.was = payment[x].status
  BY <1>1 DEF Idle
<1>3. Start(p, r)
  BY <1>1 DEF ReadPayment
<1>4. /\ proc' = [proc EXCEPT ![p] = r] /\ UNCHANGED <<payment, inst>> /\ proc[p] = Idle
      /\ undercut' = undercut \cup {j \in Insts : Undercuts(r, j)}
  BY <1>3 DEF Start, rows
<1>5. proc'[p] = r /\ \A q \in Procs : q # p => proc'[q] = proc[q]
  BY <1>4 DEF KeptInv, IInv, TypeOK
<1>6. ~Undercuts(r, i)
  BY <1>4
<1>7. ASSUME NEW q \in Procs, q # p, Verifies(r, i), Verifies(proc[q], i)
      PROVE  ~Refunds(r) /\ ~Refunds(proc[q])
  BY <1>6, <1>7 DEF Undercuts
<1>8. Collected(i)' = Collected(i)
  BY <1>4 DEF Collected
<1>9. inst[i].received >= Total(payment, Collected(i))
  BY DEF KeptInv, CollectionsKept
<1>10. ASSUME NEW q \in Procs, RefundUnderWay(q, i)'
       PROVE  Covered(q, i)'
  <2>1. CASE q = p
    <3>1. Verifies(r, i) /\ Refunds(r)
      BY <1>5, <1>10, <2>1 DEF RefundUnderWay
    <3>2. x \in Collected(i)
      BY <1>2, <3>1 DEF Collected, Verifies, Refunds
    <3>3. Collected(i) \cup {r.pay} = Collected(i)
      BY <1>2, <3>2
    <3>4. inst'[i].received >= Total(payment', Collected(i)' \cup {proc'[q].pay})
      <4> HIDE DEF Collected
      <4> QED
        BY <1>4, <1>5, <1>8, <1>9, <2>1, <3>3
    <3>5. \A o \in Procs : o # p => ~Verifies(proc'[o], i)
      BY <1>5, <1>7, <3>1
    <3> QED
      BY <1>2, <1>5, <2>1, <3>4, <3>5 DEF Covered
  <2>2. CASE q # p
    <3>1. RefundUnderWay(q, i) /\ proc'[q] = proc[q]
      BY <1>5, <1>10, <2>2 DEF RefundUnderWay
    <3>2. Covered(q, i)
      BY <3>1 DEF KeptInv, CollectionsKept
    <3>3. ~Verifies(r, i)
      BY <1>7, <2>2, <3>1 DEF RefundUnderWay
    <3>4. inst'[i].received >= Total(payment', Collected(i)' \cup {proc'[q].pay})
      <4> HIDE DEF Collected
      <4> QED
        BY <1>4, <1>8, <3>1, <3>2 DEF Covered
    <3>5. \A o \in Procs : o # q => ~Verifies(proc'[o], i)
      BY <1>5, <3>2, <3>3 DEF Covered
    <3> QED
      BY <1>4, <3>1, <3>2, <3>4, <3>5 DEF Covered
  <2> QED
    BY <2>1, <2>2
<1> HIDE DEF Collected
<1> QED
  BY <1>4, <1>8, <1>9, <1>10

\* Rows that collect no more payments than before, worth what they were, are covered.
LEMMA TotalShrinks ==
  ASSUME TypeOK, NEW S \in SUBSET PaymentIds, NEW T \in SUBSET S,
         \A x \in S : payment'[x].amount = payment[x].amount
  PROVE  Total(payment', T) <= Total(payment, S)
<1>1. IsFiniteSet(S) /\ IsFiniteSet(T) /\ \A x \in S : payment[x].amount \in Nat
  BY AmountsNat
<1>2. Total(payment', T) = Total(payment, T)
  <2>1. \A x \in T : payment'[x].amount = payment[x].amount
    OBVIOUS
  <2> QED
    BY <1>1, <2>1, TotalSame
<1>3. Total(payment, T) <= Total(payment, S)
  BY <1>1, TotalMonotone
<1> QED
  BY <1>2, <1>3

\* Recording a payment and cancelling collect nothing, and change no amount that counts.
LEMMA KeptByOthers ==
  ASSUME KeptInv, [Next]_vars, NEW p \in Procs, RecordPayment(p) \/ CommitCancel(p),
         NEW i \in Insts \ undercut
  PROVE  /\ inst'[i].received >= Total(payment', Collected(i)')
         /\ \A q \in Procs : RefundUnderWay(q, i)' => Covered(q, i)'
<1> USE DEF KeptInv, IInv
<1>1. inst' = inst /\ proc' = [proc EXCEPT ![p] = Idle]
  BY DEF RecordPayment, CommitCancel, Finish, Continue
<1>2. \A q \in Procs : proc'[q] = proc[q] \/ ~Verifies(proc'[q], i)
  <2>1. ~Verifies(Idle, i)
    BY DEF Verifies, Idle
  <2>2. ASSUME NEW q \in Procs
        PROVE  proc'[q] = proc[q] \/ proc'[q] = Idle
    BY <1>1 DEF TypeOK
  <2> QED
    BY <2>1, <2>2
<1>3. \A x \in PaymentIds : payment'[x].status = "SUCCESS" =>
        payment[x].status = "SUCCESS" /\ payment'[x].inst = payment[x].inst
  <2> SUFFICES ASSUME NEW x \in PaymentIds, payment'[x].status = "SUCCESS"
               PROVE  payment[x].status = "SUCCESS" /\ payment'[x].inst = payment[x].inst
    OBVIOUS
  <2>1. CASE RecordPayment(p)
    BY <2>1 DEF RecordPayment, TypeOK
  <2>2. CASE CommitCancel(p)
    BY <2>2 DEF CommitCancel, TypeOK, PaymentRow
  <2> QED
    BY <2>1, <2>2
<1>4. PICK old, new : old = Collected(i) /\ new = Collected(i)'
  OBVIOUS
<1>5. new \subseteq old /\ old \in SUBSET PaymentIds
  BY <1>3, <1>4 DEF Collected
<1>6. \A x \in old : payment[x].status = "SUCCESS"
  BY <1>4 DEF Collected
<1>7. \A x \in PaymentIds : payment[x].status # "ABSENT" => payment'[x].amount = payment[x].amount
  BY PaymentsStay
<1>8. inst[i].received \in Int
  BY DEF TypeOK, InstRow
<1>9. inst'[i].received >= Total(payment', Collected(i)')
  <2>1. Total(payment', new) <= Total(payment, old)
    BY <1>5, <1>6, <1>7, TotalShrinks
  <2>2. inst[i].received >= Total(payment, old)
    BY <1>4 DEF CollectionsKept
  <2>3. Total(payment, old) \in Nat /\ Total(payment', new) \in Int
    <3>1. Total(payment, old) \in Nat
      BY <1>5, AmountsNat
    <3>2. Total(payment', new) = Total(payment, new)
      <4>1. \A x \in new : payment'[x].amount = payment[x].amount
        BY <1>5, <1>6, <1>7
      <4>2. IsFiniteSet(new)
        BY <1>5, AmountsNat
      <4> QED
        BY <4>1, <4>2, TotalSame
    <3>3. Total(payment, new) \in Nat
      BY <1>5, AmountsNat
    <3> QED
      BY <3>1, <3>2, <3>3
  <2> QED
    BY <1>1, <1>4, <1>8, <2>1, <2>2, <2>3
<1>10. ASSUME NEW q \in Procs, RefundUnderWay(q, i)'
       PROVE  Covered(q, i)'
  <2>1. proc'[q] = proc[q]
    BY <1>2, <1>10 DEF RefundUnderWay
  <2>2. RefundUnderWay(q, i)
    BY <1>10, <2>1 DEF RefundUnderWay
  <2>3. Covered(q, i)
    BY <2>2 DEF CollectionsKept
  <2>4. proc[q].pay \in PaymentIds /\ payment[proc[q].pay].status # "ABSENT"
    BY <2>2 DEF RefundUnderWay, Verifies, RequestsFounded, Founded
  <2>5. PICK x \in PaymentIds : x = proc[q].pay
    BY <2>4
  <2>6. \A y \in old \cup {x} : payment'[y].amount = payment[y].amount
    BY <1>5, <1>6, <1>7, <2>4, <2>5
  <2>7. Total(payment', new \cup {x}) <= Total(payment, old \cup {x})
    BY <1>5, <2>5, <2>6, TotalShrinks
  <2>8. inst[i].received >= Total(payment, old \cup {x})
    BY <1>4, <2>3, <2>5 DEF Covered
  <2>9. Total(payment, old \cup {x}) \in Nat /\ Total(payment', new \cup {x}) \in Int
    <3>1. Total(payment, old \cup {x}) \in Nat /\ Total(payment, new \cup {x}) \in Nat
          /\ IsFiniteSet(new \cup {x})
      BY <1>5, <2>5, AmountsNat
    <3>2. Total(payment', new \cup {x}) = Total(payment, new \cup {x})
      <4>1. \A y \in new \cup {x} : payment'[y].amount = payment[y].amount
        BY <1>5, <2>6
      <4> QED
        BY <3>1, <4>1, TotalSame
    <3> QED
      BY <3>1, <3>2
  <2>10. inst'[i].received >= Total(payment', Collected(i)' \cup {proc'[q].pay})
    BY <1>1, <1>4, <1>8, <2>1, <2>5, <2>7, <2>8, <2>9
  <2>11. \A o \in Procs : o # q => ~Verifies(proc'[o], i)
    BY <1>2, <2>3 DEF Covered
  <2> QED
    BY <1>1, <2>1, <2>3, <2>10, <2>11 DEF Covered
<1> QED
  BY <1>9, <1>10

\* A verification adds what it collects to what the instalment has received by then, and
\* a refund alone on its instalment gives back what its payment had brought in.
LEMMA KeptByVerify ==
  ASSUME KeptInv, NEW p \in Procs, CommitVerify(p), NEW i \in Insts \ undercut
  PROVE  /\ inst'[i].received >= Total(payment', Collected(i)')
         /\ \A q \in Procs : RefundUnderWay(q, i)' => Covered(q, i)'
<1> USE DEF KeptInv, IInv
<1>1. PICK r : r = proc[p]
  OBVIOUS
<1>2. /\ r \in Request /\ r.op = "VERIFY" /\ r.st = "TX" /\ r.pay \in PaymentIds
      /\ payment[r.pay].inst = r.inst /\ payment[r.pay].amount = r.amount
      /\ payment' = [payment EXCEPT ![r.pay].status = r.to]
      /\ proc' = [proc EXCEPT ![p] = Idle]
  BY <1>1, VerifyWrites DEF TypeOK, RequestsFounded, Founded, ReadsMatch
<1>3. /\ payment'[r.pay].status = r.to /\ payment'[r.pay].inst = r.inst
      /\ payment'[r.pay].amount = r.amount
      /\ \A x \in PaymentIds : x # r.pay => payment'[x] = payment[x]
  BY <1>2 DEF TypeOK, PaymentRow
<1>4. \A q \in Procs : Verifies(proc'[q], i) => q # p /\ proc'[q] = proc[q]
  <2>1. ~Verifies(Idle, i)
    BY DEF Verifies, Idle
  <2>2. proc'[p] = Idle /\ \A q \in Procs : q # p => proc'[q] = proc[q]
    BY <1>2 DEF TypeOK
  <2> QED
    BY <2>1, <2>2
<1>5. PICK old, new : old = Collected(i) /\ new = Collected(i)'
  OBVIOUS
<1>6. old \in SUBSET PaymentIds /\ new \in SUBSET PaymentIds
  BY <1>5 DEF Collected
<1>7. \A x \in PaymentIds : payment'[x].amount = payment[x].amount
  BY <1>2, <1>3
<1>8. PICK was, then : was = Total(payment, old) /\ then = Total(payment', new)
  OBVIOUS
<1>9. then = Total(payment, new) /\ was \in Nat /\ then \in Nat
  <2>1. IsFiniteSet(new) /\ \A x \in new : payment'[x].amount = payment[x].amount
    BY <1>6, <1>7, AmountsNat
  <2>2. Total(payment', new) = Total(payment, new)
    BY <2>1, TotalSame
  <2> QED
    BY <1>6, <1>8, <2>2, AmountsNat
<1>10. inst[i].received >= was /\ inst[i] \in InstRow /\ inst[i].received \in Nat
  BY <1>5, <1>8 DEF CollectionsKept, TypeOK, InstRow
<1>11. r.amount \in Nat /\ r.seen.received \in Nat
  BY <1>2 DEF Request, InstRow
<1>12. CASE r.inst # i
  <2>1. new = old
    BY <1>2, <1>3, <1>5, <1>12 DEF Collected
  <2>2. inst'[i] = inst[i]
    BY <1>1, <1>12, VerifyWrites DEF Collect, GiveBack, MoveBalance, NoMoneyMoves, TypeOK
  <2>3. inst'[i].received >= then
    BY <1>8, <1>9, <1>10, <2>1, <2>2
  <2>4. ASSUME NEW q \in Procs, RefundUnderWay(q, i)'
        PROVE  Covered(q, i)'
    <3>1. proc'[q] = proc[q]
      BY <1>4, <2>4 DEF RefundUnderWay
    <3>2. RefundUnderWay(q, i)
      BY <2>4, <3>1 DEF RefundUnderWay
    <3>3. Covered(q, i) /\ proc[q].pay \in PaymentIds
      BY <3>2 DEF CollectionsKept, RefundUnderWay, Verifies, RequestsFounded, Founded
    <3>4. PICK x \in PaymentIds : x = proc[q].pay
      BY <3>3
    <3>5. Total(payment', old \cup {x}) = Total(payment, old \cup {x})
      <4>1. /\ IsFiniteSet(old \cup {x})
            /\ \A y \in old \cup {x} : payment'[y].amount = payment[y].amount
        BY <1>6, <1>7, AmountsNat
      <4> QED
        BY <4>1, TotalSame
    <3>6. inst[i].received >= Total(payment, old \cup {x})
      BY <1>5, <3>3, <3>4 DEF Covered
    <3>7. inst'[i].received >= Total(payment', Collected(i)' \cup {proc'[q].pay})
      BY <1>5, <2>1, <2>2, <3>1, <3>4, <3>5, <3>6
    <3>8. \A o \in Procs : o # q => ~Verifies(proc'[o], i)
      BY <1>4, <3>3 DEF Covered
    <3> QED
      BY <2>2, <3>1, <3>3, <3>7, <3>8 DEF Covered
  <2> QED
    BY <1>5, <1>8, <2>3, <2>4
<1>13. CASE r.inst = i
  <2>1. Verifies(proc[p], i) /\ i # None
    BY <1>1, <1>2, <1>13, PaymentsAssumption DEF Verifies
  <2>2. \A q \in Procs : ~RefundUnderWay(q, i)'
    <3> SUFFICES ASSUME NEW q \in Procs, RefundUnderWay(q, i)' PROVE FALSE
      OBVIOUS
    <3>1. q # p /\ proc'[q] = proc[q]
      BY <1>4 DEF RefundUnderWay
    <3>2. RefundUnderWay(q, i)
      BY <3>1 DEF RefundUnderWay
    <3>3. Covered(q, i)
      BY <3>2 DEF CollectionsKept
    <3> QED
      BY <2>1, <3>1, <3>3 DEF Covered
  <2>3. CASE Collect(r)
    <3>1. inst'[i].received = inst[i].received + r.amount
      <4>1. /\ inst' = [inst EXCEPT ![r.inst] =
                          [received |-> r.seen.received + r.amount,
                           status |-> InstStatusOf(r.inst, r.seen.received + r.amount)]]
            /\ inst[r.inst].received = r.seen.received
        BY <2>3 DEF Collect, MayCollect
      <4> QED
        BY <1>13, <4>1 DEF TypeOK
    <3>2. then <= was + r.amount
      <4>1. PICK all : all = old \cup {r.pay}
        OBVIOUS
      <4>2. new \subseteq all /\ all \in SUBSET PaymentIds /\ all \ {r.pay} \subseteq old
            /\ r.pay \in all
        BY <1>2, <1>3, <1>5, <1>6, <4>1 DEF Collected
      <4>3. /\ Total(payment, new) <= Total(payment, all)
            /\ Total(payment, all) = r.amount + Total(payment, all \ {r.pay})
            /\ Total(payment, all \ {r.pay}) <= Total(payment, old)
        <5>1. /\ IsFiniteSet(all) /\ IsFiniteSet(old)
              /\ \A x \in all : payment[x].amount \in Nat
              /\ \A x \in old : payment[x].amount \in Nat
          BY <1>6, <4>2, AmountsNat
        <5>2. Total(payment, new) <= Total(payment, all)
          BY <4>2, <5>1, TotalMonotone
        <5>3. Total(payment, all) = r.amount + Total(payment, all \ {r.pay})
          BY <1>2, <4>2, <5>1, TotalAdd
        <5>4. Total(payment, all \ {r.pay}) <= Total(payment, old)
          BY <4>2, <5>1, TotalMonotone
        <5> QED
          BY <5>2, <5>3, <5>4
      <4>4. /\ Total(payment, all) \in Nat /\ Total(payment, all \ {r.pay}) \in Nat
        BY <1>6, <4>2, AmountsNat
      <4> QED
        BY <1>8, <1>9, <1>11, <4>3, <4>4
    <3> QED
      BY <1>5, <1>8, <1>9, <1>10, <1>11, <2>2, <3>1, <3>2
  <2>4. CASE GiveBack(r) /\ Refunds(r)
    <3>1. RefundUnderWay(p, i) /\ Covered(p, i)
      BY <1>1, <2>1, <2>4 DEF RefundUnderWay, CollectionsKept
    <3>2. r.seen = inst[i] /\ inst[i].received >= Total(payment, old \cup {r.pay})
      BY <1>1, <1>2, <1>5, <3>1 DEF Covered
    <3>3. PICK all : all = old \cup {r.pay}
      OBVIOUS
    <3>4. new \subseteq all \ {r.pay} /\ all \in SUBSET PaymentIds /\ r.pay \in all
      BY <1>2, <1>3, <1>5, <1>6, <2>4, <3>3 DEF Collected, Refunds
    <3>5. /\ Total(payment, all) = r.amount + Total(payment, all \ {r.pay})
          /\ Total(payment, new) <= Total(payment, all \ {r.pay})
          /\ Total(payment, all) \in Nat /\ Total(payment, all \ {r.pay}) \in Nat
      <4>1. /\ IsFiniteSet(all) /\ IsFiniteSet(all \ {r.pay})
            /\ \A x \in all : payment[x].amount \in Nat
            /\ \A x \in all \ {r.pay} : payment[x].amount \in Nat
        BY <3>4, AmountsNat
      <4>2. Total(payment, all) = r.amount + Total(payment, all \ {r.pay})
        BY <1>2, <3>4, <4>1, TotalAdd
      <4>3. Total(payment, new) <= Total(payment, all \ {r.pay})
        BY <3>4, <4>1, TotalMonotone
      <4>4. Total(payment, all) \in Nat /\ Total(payment, all \ {r.pay}) \in Nat
        BY <3>4, AmountsNat
      <4> QED
        BY <4>2, <4>3, <4>4
    <3>6. inst'[i].received = AtLeastZero(inst[i].received - r.amount)
      <4>1. PICK n : n = AtLeastZero(r.seen.received - r.amount)
        OBVIOUS
      <4>2. inst' = [inst EXCEPT ![i] =
                       [received |-> n,
                        status |-> IF n <= 0 THEN "PENDING" ELSE "PARTIALLY_RECEIVED"]]
        BY <1>13, <2>4, <4>1 DEF GiveBack
      <4> QED
        BY <3>2, <4>1, <4>2 DEF TypeOK
    <3>7. inst'[i].received >= then
      <4>1. inst[i].received - r.amount >= then
        BY <1>8, <1>9, <1>10, <1>11, <3>2, <3>3, <3>5
      <4> QED
        BY <1>9, <1>10, <1>11, <3>6, <4>1 DEF AtLeastZero
    <3> QED
      BY <1>5, <1>8, <2>2, <3>7
  <2>5. CASE NoMoneyMoves(r) /\ r.to # "SUCCESS"
    <3>1. new \subseteq old /\ inst' = inst
      BY <1>2, <1>3, <1>5, <2>5 DEF Collected, NoMoneyMoves
    <3>2. Total(payment, new) <= Total(payment, old)
      <4>1. IsFiniteSet(old) /\ \A x \in old : payment[x].amount \in Nat
        BY <1>6, AmountsNat
      <4> QED
        BY <3>1, <4>1, TotalMonotone
    <3> QED
      BY <1>5, <1>8, <1>9, <1>10, <2>2, <3>1, <3>2
  <2> QED
    BY <1>1, <1>13, <2>1, <2>3, <2>4, <2>5 DEF CommitVerify
<1> QED
  BY <1>12, <1>13

LEMMA KeptInvStep == KeptInv /\ [Next]_vars => KeptInv'
<1> SUFFICES ASSUME KeptInv, [Next]_vars PROVE KeptInv'
  OBVIOUS
<1>1. IInv' /\ ReadsMatch'
  BY SoundStep, ReadsMatchStep DEF KeptInv
<1>2. undercut \subseteq undercut'
  BY DEF Next, vars, Start, Finish, Continue, ReadForRecord, ReadPayment, ReadForCancel,
         RecordPayment, ReadBooking, BeginVerify, CommitVerify, BeginCancel, CommitCancel, Fail
<1>3. ASSUME NEW i \in Insts \ undercut'
      PROVE  /\ inst'[i].received >= Total(payment', Collected(i)')
             /\ \A q \in Procs : RefundUnderWay(q, i)' => Covered(q, i)'
  <2>1. i \in Insts \ undercut /\ i \notin undercut'
    BY <1>2, <1>3
  <2>2. CASE \E p \in Procs, x \in PaymentIds, to \in Verdict : ReadPayment(p, x, to)
    BY <2>1, <2>2, KeptByReadPayment
  <2>3. CASE UNCHANGED <<payment, inst>>
    BY <2>1, <2>2, <2>3, KeptByReads
  <2>4. ASSUME NEW p \in Procs, RecordPayment(p) \/ CommitCancel(p)
        PROVE  /\ inst'[i].received >= Total(payment', Collected(i)')
               /\ \A q \in Procs : RefundUnderWay(q, i)' => Covered(q, i)'
    BY <2>1, <2>4, KeptByOthers
  <2>5. ASSUME NEW p \in Procs, CommitVerify(p)
        PROVE  /\ inst'[i].received >= Total(payment', Collected(i)')
               /\ \A q \in Procs : RefundUnderWay(q, i)' => Covered(q, i)'
    BY <2>1, <2>5, KeptByVerify
  <2>6. \/ UNCHANGED <<payment, inst>>
        \/ \E p \in Procs : RecordPayment(p) \/ CommitCancel(p) \/ CommitVerify(p)
    BY DEF Next, vars, rows, Start, ReadForRecord, ReadPayment, ReadForCancel, ReadBooking,
           BeginVerify, BeginCancel, Fail
  <2> QED
    BY <2>3, <2>4, <2>5, <2>6
<1>4. CollectionsKept'
  BY <1>3 DEF CollectionsKept
<1> QED
  BY <1>1, <1>4 DEF KeptInv

LEMMA InitKept == Init => KeptInv
<1> SUFFICES ASSUME Init PROVE KeptInv
  OBVIOUS
<1>1. IInv
  BY InitSound
<1>2. \A p \in Procs : proc[p].op # "VERIFY"
  BY DEF Init, Idle
<1>3. ASSUME NEW i \in Insts
      PROVE  inst[i].received >= Total(payment, Collected(i))
  <2>1. Collected(i) = {}
    BY DEF Init, Collected
  <2>2. inst[i].received = 0
    BY <1>3 DEF Init, NewInst
  <2> QED
    BY <2>1, <2>2, TotalEmpty
<1> QED
  BY <1>1, <1>2, <1>3 DEF KeptInv, ReadsMatch, CollectionsKept, RefundUnderWay, Verifies

LEMMA AlwaysKept == Spec => []KeptInv
<1> QED
  BY InitKept, KeptInvStep, PTL DEF Spec

\* No collection is lost: an instalment has always received at least what its SUCCESS
\* payments add up to, whatever ran at once, unless a refund overlapped another
\* verification on it.
THEOREM CollectionsCorrect == Spec => []NoCollectionLost
<1>1. KeptInv => NoCollectionLost
  <2> SUFFICES ASSUME KeptInv, NEW i \in Insts \ undercut
               PROVE  inst[i].received >= Paid(Collected(i))
    BY DEF NoCollectionLost
  <2> QED
    BY PaidTotal DEF KeptInv, CollectionsKept
<1> QED
  BY <1>1, AlwaysKept, PTL

=============================================================================
