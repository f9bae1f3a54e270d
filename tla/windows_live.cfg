SPECIFICATION FairSpec
CONSTANTS
  p1 = p1
  p2 = p2
  NoProc = NoProc
  NoRun = NoRun
  Procs <- OneProc
  Direct = {}
  RunIds = {1, 2, 3, 4, 5, 6}
  Kinds = {"TRAFFIC", "BACKFILL"}
  WindowDays = 2
  BackfillDays = 3
  LastDay = 4
  Sundays = {2}
  InitialStarts <- PastStart
  Targets = {3, 4}
  MaxCrashes = 0
  MaxFailures = 1
  MaxLost = 1
PROPERTIES BackfillCompletes WeeklyCatchesUp
CHECK_DEADLOCK FALSE
