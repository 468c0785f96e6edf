SPECIFICATION HSpec
CONSTANTS
  t1 = t1
  t2 = t2
  none = none
  dir = dir
  file = file
  empty = empty
  null = null
  Threads <- MCThreads
  NoThread = none
  Paths <- MCPaths
  EmptyPath = empty
  NoPath = null
  Matches <- MCMatches
  UserPaths <- MCUserPaths
  States <- MCStates
  MaxNodes = 3
  AllocFails = FALSE
  CopyFaults = FALSE
  ZeroedAlloc = TRUE
INVARIANTS
  TypeOK
  NoDuplicates
  CheckHonoursEntries
  CheckIsGrounded
  PrintIsComplete
  PrintIsGrounded
  SizeCoversEntries
PROPERTY
  ImplementsSet
SYMMETRY MCSymmetry
CHECK_DEADLOCK FALSE
