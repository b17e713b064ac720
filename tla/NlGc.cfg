SPECIFICATION GcSpec
CONSTANTS
  main = main
  other = other
  table = table
  NoOne = NoOne
  NoRegion = NoRegion
  ARENA = 10
  THRESHOLD = 4
  Mappings <- MCMappings
  Requests <- MCRequests
  GcRequests <- MCGcRequests
  Threads <- MCThreads
  Regions <- MCRegions
  MAX_ROOTS = 1
  Threshold = 1
  MaxSince = 1
  MaxDisabled = 1
  MaxWords = 2
  MaxBlocks = 2
INVARIANTS
  HeapSound
  CollectionExact
  NoFailureWithGarbage
VIEW Seen
SYMMETRY Alike
