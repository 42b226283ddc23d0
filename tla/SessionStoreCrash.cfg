SPECIFICATION Spec
CONSTANTS
  creator = creator
  other = other
  NoProc = NoProc
  Creator = creator
  Procs <- MCProcs
  AppendKinds <- MCKindsNoLeaf
  MaxEntries = 3
  MaxFiles = 1
  Fsync = TRUE
  Faults = {"kill", "power"}
INVARIANTS
  MemoryMatchesDisk
  ReaderSeesPast
PROPERTIES
  ImplementsLog
CHECK_DEADLOCK FALSE
