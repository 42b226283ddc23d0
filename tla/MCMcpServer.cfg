SPECIFICATION Spec
CONSTANTS
  MaxStrikes = 1
  Calls = {1}
  MaxChanges = 1
  MaxReconnects = 1
  MaxResets = 1
INVARIANTS
  NoCallStranded
  ChannelsNeverFull
  OneProcess
PROPERTIES
  WaitsReturn
CHECK_DEADLOCK FALSE
