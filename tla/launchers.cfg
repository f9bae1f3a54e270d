SPECIFICATION FairSpec
CONSTANTS
  Gate = 47
  SnapshotLimit = 26
  TrafficLimit = 192
  CheckHours = {0, 2, 9}
  MaxBehind = 2
  MaxFaults = 2
INVARIANTS OneCollector OkIsTrue QuietIsHealthy LagIsBounded
PROPERTIES BackfillAttempted
