SPECIFICATION Spec
CONSTANTS
  t1 = t1
  t2 = t2
  none = none
  dir = dir
  file = file
  empty = empty
  null = null
  Threads <- MCThreads
  NoThread = none
  Paths <- MCPaths
  EmptyPath = empty
  NoPath = null
  Matches <- MCMatches
  UserPaths <- MCUserPaths
  States <- MCStates
  MaxNodes = 3
  AllocFails = FALSE
  CopyFaults = FALSE
  ZeroedAlloc = TRUE
INVARIANT
  SizeIsLength
CHECK_DEADLOCK FALSE
