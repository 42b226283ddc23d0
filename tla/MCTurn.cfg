\* An answer of three blocks and two retries of either kind; three mutations
\* of two files; a command with two calls; or two goroutines of one process
\* over one session tree.
SPECIFICATION MCSpec
CONSTANTS
  Ops = {1, 2, 3}
  Paths = {"old", "new"}
  Disks <- MCDisks
  JobCalls = {1, 2}
  MaxShown = 1
  MaxOut = 4
  Kinds = {"thinking", "other"}
  Cap = 1
  defaultMaxRetries = 1
  retryMaxAttempts = 1
  MaxBlocks = 3
  MaxPieces = 2
  g1 = g1
  g2 = g2
  Goroutines <- MCGoroutines
  MaxEntries = 5
INVARIANTS
  NoLostEdit
  OutputOnce
  ShownIsKept
  TypeOK
  TreeChained
  LeafIsReplay
  AncestorIsBranchPoint
  ForkKeepsConversation
PROPERTIES
  KillsEnd
  TurnEnds
CHECK_DEADLOCK FALSE
