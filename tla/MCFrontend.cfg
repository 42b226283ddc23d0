\* Two runs and two calls, the mode changed twice.
SPECIFICATION Spec
CONSTANTS
  Calls <- MCCalls
  MaxCalls = 2
  MaxSwitches = 2
  MaxRuns = 2
INVARIANT AllowedRightly
PROPERTY RunsEnd
CHECK_DEADLOCK FALSE
