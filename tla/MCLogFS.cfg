SPECIFICATION FairSpec
CONSTANTS
  w1 = w1
  w2 = w2
  r1 = r1
  none = none
  Writers <- MCWriters
  Readers <- MCReaders
  NoThread = none
  BlockSize = 3
  Blocks = 2
  HeaderLen = 1
  Payloads <- MCPayloads
  Lengths <- MCLengths
  MaxWrites = 2
  AllocFails = TRUE
  Faults = TRUE
  Reclaims = TRUE
INVARIANTS
  TypeOK
  RowsAreWhole
  ReadersFollow
PROPERTY
  CallsReturn
CHECK_DEADLOCK FALSE
