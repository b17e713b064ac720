SPECIFICATION HotSpec
CONSTANTS
  Programs <- One
  MaxBuilds = 4
  Refused <- MCRefused
  MaxSec = 1
  MAX_INODES = 5
  Known <- MCKnown
  MaxRamps = 2
  MaxMixed = 2
INVARIANTS
  ReloadsSound
PROPERTIES
  NewestUsed
CHECK_DEADLOCK FALSE
