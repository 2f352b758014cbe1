\* Each service with one more customer than it has room for, two handlers that
\* race, and one failure: the smallest numbers in which a race overshoots by one
\* and by two.
SPECIFICATION FairSpec
CONSTANTS
  BidRequests = {r1, r2}
  UpgradeTickets = {t1, t2, t3}
  BidAmounts = {1, 2, 3}
  UpgradeSlots = 2
  StartingPrice = 1
  MinIncrement = 1
  MaxBids = 4
  Preorders = {p1, p2, p3}
  Quantities = {1, 2}
  StockTotal = 3
  Contribs = {c1, c2, c3, c4}
  Confirmers = {w1, w2}
  TierSizes = {1, 2}
  LargestTier = 2
  Deliveries = {d1}
  MaxAttempts = 3
  MaxJobs = 4
  MaxReplays = 1
  MaxStalls = 1
  InsuredTickets = {i1}
  Claimers = {k1, k2, k3}
  Coverages = 8
  MaxMishaps = 1
  LoyaltyWorkers = {l1, l2}
  PointAmounts = {1}
  TierMinimums = {1, 2}
  MaxEarned = 2
  MaxRestores = 1
INVARIANTS
  AwardsGoToBestOffers
  StockCoversPreorders
  TierOvershootBounded
  PayoutsBounded
  SpendingBounded
PROPERTY DeliveriesEnd
CHECK_DEADLOCK FALSE
