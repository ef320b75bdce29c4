SPECIFICATION FairSpec
CONSTANTS
  b1 = b1  x1 = x1  w1 = w1  w2 = w2  c1 = c1  c2 = c2
  None = None
  BookingIds <- OneBooking
  PaymentIds <- OnePayment
  Workers <- OneWorker
  Callers <- OneCaller
  MaxRetries = 3
  MaxEvents = 3
  MaxFaults = 0
INVARIANT DeliveriesSound
PROPERTY EventsSettle
PROPERTY OutcomeReachesMapping
CHECK_DEADLOCK FALSE
