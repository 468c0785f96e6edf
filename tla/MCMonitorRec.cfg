SPECIFICATION FairSpec
CONSTANTS
  a1 = a1
  a2 = a2
  u1 = u1
  u2 = u2
  w1 = w1
  dir = dir
  file = file
  log = log
  top = top
  Admins <- MCAdmins2
  Users <- MCUsers1
  Workers <- MCWorkers
  Paths <- MCPaths
  Entries <- MCEntries
  Parent <- MCParent
  Matches <- MCMatches
  LogPath = log
  ProbeArray <- MCProbes2
  MaxActive = 2
  Requests <- MCRequests2
  MaxOps = 1
  States <- MCRecOff
  Mounted = TRUE
  Registered = TRUE
  AllocFails = FALSE
PROPERTY ReconfiguredInRec
