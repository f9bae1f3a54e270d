SPECIFICATION PollSpec
CONSTANTS
  q1 = q1
  q2 = q2
  Queries <- TwoQueries
  InitialDelay = 2
  Interval = 2
  Deadline = 5
  RateDelay = 2
  RateMax = 2
  TransportDelay = 1
  TransportMax = 1
  MaxCommand = 1
  Expiry = 7
  Horizon = 16
INVARIANTS OvershootBounded FinishedInTime
PROPERTIES PollEnds
CHECK_DEADLOCK FALSE
