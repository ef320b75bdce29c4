SPECIFICATION Spec
CONSTANTS
  p1 = p1  p2 = p2  tc = tc  md = md  i1 = i1  c1 = c1  c2 = c2
  None = None
  VisitIds <- TwoVisits
  Items <- OneItem
  ProjectPMs <- TwoPMs
  Telecallers <- OneCaller
  Directors <- TheMD
  Permitted <- Seeded
  StartRows <- SomeRows
  Days = 2
  Calls <- TwoCalls
  MaxRequests = 2
SYMMETRY Callers
INVARIANT VisitsHappenOnce
INVARIANT NoDealWithoutVisit
INVARIANT DirectorsTold
CHECK_DEADLOCK FALSE
