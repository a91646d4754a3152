SPECIFICATION FairSpec
CONSTANTS
  f1 = f1
  o1 = o1
  b1 = b1
  File = {f1}
  Other = {o1}
  Button = {b1}
  Caller <- MCCaller
  Image <- MCImage
  OnSite <- MCOnSite
  MaxClicks = 2
  MaxFaults = 1
INVARIANTS TypeOK ReadyHasObject UploadsNeverCollide UnlockedGridIsCurrent
PROPERTIES MovesSwapNeighbours SavedIsShown
CHECK_DEADLOCK FALSE
