--------------------------- MODULE MCPortalOutbox ---------------------------
(* Model values for checking PortalOutbox with TLC.                         *)
EXTENDS PortalOutbox, TLC

CONSTANTS b1, x1, w1, w2, c1, c2

OneBooking == {b1}
OnePayment == {x1}
OneWorker  == {w1}
TwoWorkers == {w1, w2}
OneCaller  == {c1}
TwoCallers == {c1, c2}
=============================================================================
