SPECIFICATION Spec
CONSTANTS
  run = run
  other = other
  print = print
  slow = slow
  Pubs <- MCPubs
  Run = run
  Subs <- MCSubs
  Printer = print
  Cap = 1
  Quota <- MCQuota
PROPERTIES
  WholeOrCut
  EveryoneReturns
CHECK_DEADLOCK FALSE
