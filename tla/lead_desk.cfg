SPECIFICATION Spec
CONSTANTS
  p1 = p1  md = md  tc = tc  c1 = c1  c2 = c2
  None = None
  Phones <- OnePhone
  LeadIds <- OneLead
  Employees <- Staff
  Management <- Bosses
  Transferrers <- Bosses
  Restorers <- Bosses
  Permitted <- Seeded
  Telecallers <- Callers
  Contexts <- SomeContexts
  Calls <- TwoCalls
  UnreachableDays = 1
  MaxRequests = 5
INVARIANT TypeOK
INVARIANT ClaimedOnce
INVARIANT RecoveredOnce
PROPERTY HandedOver
CHECK_DEADLOCK FALSE
