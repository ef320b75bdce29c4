SPECIFICATION Spec
CONSTANTS
  w1 = w1  h1 = h1  c1 = c1  c2 = c2
  Workers <- OneWorker
  HR <- OneHR
  LastDay = 3
  ValidDays = 1
  FreeLogouts = 1
  StartDesks <- SomeDesks
  Calls <- TwoCalls
  MaxRequests = 2
SYMMETRY Symmetry
INVARIANT TypeOK
INVARIANT RequestsCarriedOutOnce
INVARIANT OneRecordADay
PROPERTY ForgottenCostsNothing
PROPERTY RollupCreditsDuty
CHECK_DEADLOCK FALSE
