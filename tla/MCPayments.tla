----------------------------- MODULE MCPayments -----------------------------
(* Model values, amounts and symmetry for checking Payments with TLC.       *)
EXTENDS Payments, TLC

CONSTANTS pay1, pay2, pay3, inst1, r1, r2

TwoPayments   == {pay1, pay2}
OnePayment    == {pay1}
OneInst       == {inst1}
InstOrBooking == {inst1, None}
OnlyBooking   == {None}
OneProc       == {r1}
TwoProcs      == {r1, r2}

\* An instalment of two takes one payment of two or two of one; a price of
\* three can be paid exactly or overpaid.
OneOrTwo      == {1, 2}
One           == {1}
TwoEach       == [i \in Insts |-> 2]

Symmetry == Permutations(PaymentIds) \cup Permutations(Procs)
=============================================================================
