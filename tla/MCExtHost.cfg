SPECIFICATION Spec
CONSTANTS
  N = 2
  r1 = r1
  r2 = r2
  Reqs <- MCReqs
  QueueCap = 1
  MaxStrikes = 1
  Backoffs = 1
  ActCap = 1
  Scenes <- MCScenes
INVARIANTS
  AnswersOwnRequest
  NoRequestStranded
  QueueKeepsNewest
  ToolOwnerIsFirst
  BindMissesNothing
PROPERTIES
  WaitsEnd
CHECK_DEADLOCK FALSE
