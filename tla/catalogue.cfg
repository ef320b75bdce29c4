SPECIFICATION Spec
CONSTANTS
  h1 = h1  pm1 = pm1  pm2 = pm2  md = md  ad = ad  u1 = u1  u2 = u2  n1 = n1  n2 = n2
  b1 = b1  b2 = b2  c1 = c1  c2 = c2
  None = None  Nobody = Nobody
  Properties <- OneProperty
  Images <- TwoPhotos
  Managers <- TwoManagers
  MDs <- TheMD
  Admins <- NoOne
  Marketing <- NoOne
  Clerks <- NoOne
  Units <- TwoUnits
  Numbers <- TwoNumbers
  Buyers <- TwoBuyers
  Updates <- TwoUpdates
  ProjectPMs <- OnePM
  ProjectAdmins <- TheAdmin
  ProjectHeads <- NoOne
  ProjectClerks <- NoOne
  ProjectMDs <- TheMD
  StartListings <- SomeListings
  StartProjects <- SomeProjects
  PricedItems <- ItemsPriced
  Plans <- TwoPlans
  Media <- TwoMedia
  MediaKinds <- SomeKinds
  Documents <- OneDocument
  Elsewhere = Elsewhere
  Calls <- TwoCalls
  MaxRequests = 3
SYMMETRY Symmetry
INVARIANT PricesFresh
INVARIANT ListedWasLocated
INVARIANT OnePrimaryPhoto
INVARIANT ProjectRecordsAgree
CHECK_DEADLOCK FALSE
