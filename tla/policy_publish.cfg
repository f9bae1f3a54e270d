SPECIFICATION LiveSpec
CONSTANTS
  r1 = r1
  r2 = r2
  r3 = r3
  r4 = r4
  r5 = r5
  r6 = r6
  r7 = r7
  r8 = r8
  RunIds <- EightRuns
  Absent = Absent
  Partial = Partial
  Rules = {1, 2}
  MaxCrashes = 1
  MaxFaults = 1
  MaxRestoreFaults = 1
INVARIANTS KeptUnlessUndoFails RestConsistent PresenceMatches
PROPERTIES SnapshotReturns Reconciled
