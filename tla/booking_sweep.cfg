SPECIFICATION FairSpec
CONSTANTS
  u1 = u1  p1 = p1  b1 = b1  b2 = b2  b3 = b3  r1 = r1  r2 = r2
  None = None
  Items <- OneUnit
  Units <- OneUnit
  BookingIds <- TwoBookings
  Procs <- OneProc
  MaxCrashes = 0
  Ops <- HoldOps
PROPERTY ExpiredLocksResolved
CHECK_DEADLOCK FALSE
