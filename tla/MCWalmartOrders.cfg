SPECIFICATION FairSpec
CONSTANTS
  p1 = p1
  p2 = p2
  r1 = r1
  PO = {p1, p2}
  Return = {r1}
  Of <- MCOf
  Work <- MCWork
  JobId <- MCJobId
  MaxAttempts = 2
  BatchSize = 1
  PageSize = 1
  MaxPages = 2
  Stuck = {p2}
  Orphaned = {p1}
  MaxFaults = 1
INVARIANTS TypeOK DecisionsAreQueued ToldOnlyDecisions
PROPERTIES DecisionsReachWalmart MissedOrdersAreIngested RefundsReachOrders
