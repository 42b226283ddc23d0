SPECIFICATION SpecPanicking
CONSTANTS
  QueueCap = 2
  DrainOne = FALSE
  MaxTurns = 2
  RetryMax = 1
  MaxRuns = 1
  MaxInputs = 2
  MaxStreams = 2
  MaxCalls = 1
INVARIANT EndCarriesRun
CHECK_DEADLOCK FALSE
