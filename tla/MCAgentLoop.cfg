SPECIFICATION Spec
CONSTANTS
  QueueCap = 2
  DrainOne = TRUE
  MaxTurns = 2
  RetryMax = 1
  MaxRuns = 2
  MaxInputs = 3
  MaxStreams = 2
  MaxCalls = 2
INVARIANTS
  NothingLostOrTwice
  ResultsPaired
  RequestPaired
  MirrorAgrees
  DoneMeansAnswered
PROPERTY AbortEnds
CHECK_DEADLOCK FALSE
