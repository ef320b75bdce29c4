---------------------------- MODULE MCAttendance ----------------------------
(* Model values for checking Attendance with TLC.                           *)
EXTENDS Attendance, TLC

CONSTANTS w1, h1, c1, c2

OneWorker == {w1}
OneHR     == {h1}
TwoCalls  == {c1, c2}

Desk(day, off, rows) ==
    [today |-> day, off |-> [w \in OneWorker |-> off], holidays |-> {}, request |-> rows, log |-> <<>>,
     credit |-> [w \in OneWorker |-> [d \in Days |-> NoCredit]]]
Sent(type, d, batch) == [Row(w1, type, d, "PENDING") EXCEPT !.batch = batch]
Earned == [w \in OneWorker |-> [d \in Days |-> [state |-> "AVAILABLE", for |-> 0]]]

\* A comp-off with two days to use and one about to run out; a field day and a claim for
\* yesterday; a check-out forgotten yesterday; a duty day agreed for today, and a leave.
SomeDesks ==
    {[Desk(3, 1, <<Sent(COMP_OFF, 3, 1)>>) EXCEPT !.credit = Earned],
     Desk(3, 1, <<Sent("FIELD_WORK", 2, 1), Sent(CLAIM, 2, 2)>>),
     [Desk(2, 3, <<Sent("LATE_CHECKIN", 2, 1)>>) EXCEPT !.log = <<Log(w1, 1, "QR_SCAN", FALSE)>>],
     Desk(3, 3, <<[Sent(DUTY_DAY, 3, 1) EXCEPT !.status = "APPROVED"], Sent("LEAVE", 2, 2)>>)}
SomeSwaps == {Desk(2, 3, <<Sent(DUTY_DAY, 3, 1), Sent(SWAP_OFF, 2, 1)>>)}

Symmetry == Permutations(TwoCalls)
=============================================================================
