\* A history of seven entries, two kept, with a /compact, failed append or
\* restart twice; two batches of two tools on a file that is changed twice;
\* arguments of up to two members; files of three characters and two edits.
SPECIFICATION MCSpec
CONSTANTS
  KeepRecent = 2
  MaxCalls = 2
  MaxPath = 7
  MaxAside = 2
  Tools = {1, 2}
  MaxBatches = 2
  MaxChanges = 2
  Docs <- MCDocs
  Files <- MCFiles
  EditLists <- MCEdits
INVARIANTS
  NothingForgotten
  PairsKept
  ChangesNoticed
  ArgsFollowText
  EditsInPlace
CHECK_DEADLOCK FALSE
