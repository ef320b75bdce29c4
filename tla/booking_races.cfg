SPECIFICATION Spec
CONSTANTS
  u1 = u1  p1 = p1  b1 = b1  b2 = b2  b3 = b3  r1 = r1  r2 = r2
  None = None
  Items <- OneUnit
  Units <- OneUnit
  BookingIds <- TwoBookings
  Procs <- TwoProcs
  MaxCrashes = 1
  Ops <- FormOps
SYMMETRY Symmetry
INVARIANT HandoffExactlyOnce
INVARIANT ApprovedFormIsConfirmed
CHECK_DEADLOCK FALSE
