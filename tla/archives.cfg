SPECIFICATION FairSpec
CONSTANTS
  r1 = r1
  r2 = r2
  NoRun = NoRun
  q1 = q1
  q2 = q2
  Runs = {r1, r2}
  Restorers = {q1, q2}
  LastDay = 2
  Retention = 1
  Wanted = {r1}
  AsOf = {3}
  MaxFaults = 2
INVARIANTS EvidenceKept LitterBounded RestoreWhole
PROPERTIES PurgeHeals
CHECK_DEADLOCK FALSE
