SPECIFICATION FairHSpec
CONSTANTS
  t1 = t1
  t2 = t2
  none = none
  dir = dir
  file = file
  empty = empty
  null = null
  Threads <- MCThreads
  NoThread = none
  Paths <- MCPaths
  EmptyPath = empty
  NoPath = null
  Matches <- MCMatches
  UserPaths <- MCOnePath
  States <- MCTurnOn
  MaxNodes = 2
  AllocFails = TRUE
  CopyFaults = TRUE
  ZeroedAlloc = TRUE
INVARIANT
  Inv
PROPERTY
  CallsReturn
CHECK_DEADLOCK FALSE
