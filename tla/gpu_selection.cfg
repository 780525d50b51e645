SPECIFICATION Spec
CONSTANTS
  NumDatacenters = 2
  NumGpus = 2
  MaxPrice = 2
CHECK_DEADLOCK FALSE
INVARIANTS TypeOK TakesFirstAdmissible TrailTellsTheWalk  VolumeReachable PreflightKeepsItsWord StockOutIsNoFalseAlarm
