SPECIFICATION Spec
CONSTANTS
  creator = creator
  other = other
  NoProc = NoProc
  Creator = creator
  Procs <- MCCreatorAlone
  AppendKinds <- MCKinds
  MaxEntries = 4
  MaxFiles = 1
  Fsync = FALSE
  Faults = {"write"}
INVARIANTS
  OwedSurvive
CHECK_DEADLOCK FALSE
