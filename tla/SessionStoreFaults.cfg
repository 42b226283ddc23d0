SPECIFICATION Spec
CONSTANTS
  creator = creator
  other = other
  NoProc = NoProc
  Creator = creator
  Procs <- MCProcs
  AppendKinds <- MCKinds
  MaxEntries = 3
  MaxFiles = 2
  Fsync = TRUE
  Faults = {"kill", "write", "sync"}
INVARIANTS
  WritersExclude
  ChainOnDisk
CHECK_DEADLOCK FALSE
