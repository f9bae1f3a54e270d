SPECIFICATION Spec
CONSTANTS
  p1 = p1
  p2 = p2
  NoProc = NoProc
  NoRun = NoRun
  Procs <- TwoProcs
  Direct = {}
  RunIds = {1, 2, 3, 4}
  Kinds = {"TRAFFIC", "BACKFILL"}
  WindowDays = 2
  BackfillDays = 3
  LastDay = 4
  Sundays = {2}
  InitialStarts <- SomeStarts
  Targets = {3, 5}
  MaxCrashes = 1
  MaxFailures = 2
  MaxLost = 1
INVARIANTS TablesAgree CompletedUnlessOvertaken
PROPERTIES LedgersRefined ReplayUnchanged
SYMMETRY Symmetry
CHECK_DEADLOCK FALSE
