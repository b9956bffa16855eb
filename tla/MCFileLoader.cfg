CONSTANTS
  Disks <- MCDisks
  Matching <- MCMatching
  Word = 12
  Buf = 1
  FatEntries = 2
  FatWindow = 2
  DirEntries = 3
  Half = 4
  Mask = 32
  EndOfChain = 24
SPECIFICATION Spec
INVARIANTS TypeOK FileInBuffer SegmentsInPlace KernelFound
PROPERTY LoaderEnds
CHECK_DEADLOCK FALSE
