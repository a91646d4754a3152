SPECIFICATION FairSpec
CONSTANTS
  v1 = v1
  v2 = v2
  Variant = {v1, v2}
  Work = {v1, v2}
  Refused = {v2}
  Traded = {v1}
  e1 = e1
  e2 = e2
  Enqueuer = {e1, e2}
  Figure <- MCFigure
  JobId <- MCJobId
  Unknown = Unknown
  MaxAttempts = 2
  BatchSize = 2
  MaxChanges = 2
  MaxFaults = 1
INVARIANTS TypeOK StaleIsOwed
PROPERTIES LiveFiguresSettle
