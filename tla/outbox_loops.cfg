SPECIFICATION Spec
CONSTANTS
  b1 = b1  x1 = x1  w1 = w1  w2 = w2  c1 = c1  c2 = c2
  None = None
  BookingIds <- OneBooking
  PaymentIds <- OnePayment
  Workers <- TwoWorkers
  Callers <- TwoCallers
  MaxRetries = 2
  MaxEvents = 2
  MaxFaults = 1
INVARIANT ClaimedAndToldOnce
CHECK_DEADLOCK FALSE
