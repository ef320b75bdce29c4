SPECIFICATION Spec
CONSTANTS
  a1 = a1  a2 = a2  boss = boss  i1 = i1  i2 = i2  r1 = r1  k1 = k1  t1 = t1
  l1 = l1  l2 = l2  rest = rest  foreign = foreign  c1 = c1  c2 = c2
  n1 = n1  n2 = n2  m1 = m1  m2 = m2  tc = tc  s1 = s1  s2 = s2
  Nil = Nil  Bad = Bad  None = None  Absent = Absent  Nobody = Nobody  Heir0 = Heir0
  Items <- OneItem
  Agents <- TwoAgents
  Bosses <- TheBoss
  MaxOpps = 2
  Demos <- OneDemo
  StartDeals <- SomeDeals
  Claimants <- TwoAgents
  Accountants <- TwoAgents
  Approvers <- TheBoss
  Refunds <- OneRefund
  Complaint <- OneComplaint
  Helpers <- TwoAgents
  Doers <- TwoAgents
  Chiefs <- TheBoss
  Tasks <- OneTask
  Workers <- TwoAgents
  Leads <- TwoLeads
  Rest = rest
  Foreign = foreign
  StartPeople <- SomePeople
  MaxKeys = 4
  Phones <- Numbers
  Batches <- Uploads
  File <- Files
  Telecallers <- OneCaller
  Servers <- TwoServers
  MaxCount = 1
  MaxLeads = 2
  MaxTimeouts = 1
  Calls <- TwoCalls
  MaxRequests = 5
  Share <- Shares
SYMMETRY Symmetry
INVARIANT TypeOK
INVARIANT ConvertedOnce
INVARIANT PaidAfterBothApprovals
INVARIANT ReopeningsSound
INVARIANT WorkHandedOnOrTold
INVARIANT KeyUsedOnce
INVARIANT UnassignedExact
CHECK_DEADLOCK FALSE
