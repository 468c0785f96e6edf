SPECIFICATION FairSpec
CONSTANTS
  a1 = a1
  a2 = a2
  u1 = u1
  u2 = u2
  w1 = w1
  dir = dir
  file = file
  log = log
  top = top
  Admins <- MCAdmins1
  Users <- MCUsers1
  Workers <- MCWorkers
  Paths <- MCPaths
  Entries <- MCEntries
  Parent <- MCParent
  Matches <- MCMatches
  LogPath = log
  ProbeArray <- MCProbes10
  MaxActive = 2
  Requests <- MCRequests10
  MaxOps = 1
  States <- MCStates
  Mounted = TRUE
  Registered = TRUE
  AllocFails = FALSE
INVARIANTS
  TypeOK
  Protection
  ProbesFollowState
PROPERTY
  RefusalsAreLogged
