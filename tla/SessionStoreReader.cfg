SPECIFICATION Spec
CONSTANTS
  creator = creator
  other = other
  NoProc = NoProc
  Creator = creator
  Procs <- MCProcs
  AppendKinds <- MCKindsNoLeaf
  MaxEntries = 3
  MaxFiles = 1
  Fsync = FALSE
  Faults = {"kill"}
INVARIANTS
  ReadersShowSession
CHECK_DEADLOCK FALSE
