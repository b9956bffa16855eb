CONSTANTS
  Word = 8
  Maps <- MCMaps64
  BssCounts = {0, 3}
  Requests = {1, 2, 3}
  MaxPages = 8
SPECIFICATION Spec
INVARIANT HeapAtLargest
CHECK_DEADLOCK FALSE
