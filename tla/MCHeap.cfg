CONSTANTS
  Word = 8
  Maps <- MCMaps32
  BssCounts = {0, 3}
  Requests = {1, 2, 3}
  MaxPages = 8
SPECIFICATION Spec
INVARIANTS TypeOK BlocksDisjoint HeapAtLargest BlocksInUsableMemory
CHECK_DEADLOCK FALSE
