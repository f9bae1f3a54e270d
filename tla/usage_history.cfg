SPECIFICATION Spec
CONSTANTS
  LastDay = 7
  Windows <- Overlapping
  Traffics <- SomeTraffic
  Retention = 3
  Months18 = 2
INVARIANTS TypeOK CoverageIsUnion HitsAreTrue
PROPERTIES PruneKeepsReports
CHECK_DEADLOCK FALSE
