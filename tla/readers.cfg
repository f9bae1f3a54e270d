SPECIFICATION ReadersSpec
CONSTANTS
  RunIds = {1, 2, 3, 4}
  Absent = Absent
  Partial = Partial
  Rules = {1}
  MaxCrashes = 2
  MaxFaults = 2
  MaxRestoreFaults = 1
INVARIANTS ReadersTypeOK ReferencesNotOlder ReferencesWhole
CHECK_DEADLOCK FALSE
