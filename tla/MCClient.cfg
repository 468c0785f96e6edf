SPECIFICATION Spec
CONSTANTS
  Procs = {p1, p2}
  PageSize = 9
  Pages = 3
  Fanout = 2
  TableSize = 9
  MAX_FREE = 1
  Path = path
  NUM_KRETPROBES = 2
  Goals = {0, 3}
  Images <- MCImages
  NiOffsets <- MCNiOffsets
  Number <- MCNumber
  KernelWords <- MCKernelWords
SYMMETRY Symmetry
INVARIANTS
  TypeOK
  TableIsRestored
  NumbersReachTheirCalls
  DiscoveryIsSound
  AloneIsSafe
  LoneSwitchSettles
CHECK_DEADLOCK FALSE
