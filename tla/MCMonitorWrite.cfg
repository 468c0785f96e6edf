SPECIFICATION Spec
CONSTANTS
  a1 = a1
  a2 = a2
  u1 = u1
  u2 = u2
  w1 = w1
  dir = dir
  file = file
  log = log
  top = top
  Admins <- MCAdmins1
  Users <- MCUsers1
  Workers <- MCWorkers
  Paths <- MCPaths
  Entries <- MCEntries
  Parent <- MCParent
  Matches <- MCMatches
  LogPath = log
  ProbeArray <- MCProbes3
  MaxActive = 2
  Requests <- MCRequests3
  MaxOps = 1
  States <- MCOnOff
  Mounted = TRUE
  Registered = TRUE
  AllocFails = FALSE
INVARIANT RefusedHaveNoEffect
