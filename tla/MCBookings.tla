----------------------------- MODULE MCBookings -----------------------------
(* Model values and symmetry for checking Bookings with TLC.                *)
EXTENDS Bookings, TLC

CONSTANTS u1, p1, b1, b2, b3, r1, r2

OneUnit        == {u1}
UnitAndProperty == {u1, p1}
TwoBookings    == {b1, b2}
OneProc        == {r1}
TwoProcs       == {r1, r2}

\* Which requests an instance makes.
AllOps      == Op \ {"IDLE"}
DecisionOps == {"CONFIRM", "APPROVE", "REJECT", "CANCEL"}
FormOps     == DecisionOps \cup {"SUBMIT"}
HoldOps     == {"CONFIRM", "CANCEL", "SUBMIT", "SET_STATUS", "EDIT", "PAY"}
UnpaidOps   == AllOps \ {"PAY"}

\* Bound: a behaviour is followed until a reader is overtaken, after which nothing is
\* promised of the item.
NothingOvertaken == overtaken = {}

\* Bookings and requests are interchangeable; a unit and a property are not.
Symmetry == Permutations(BookingIds) \cup Permutations(Procs)
=============================================================================
