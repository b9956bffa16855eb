CONSTANTS
  Word = 1048576
  Maps <- MCMaps
  BssCounts = {0}
  Requests = {1, 3840, 4095, 7935}
  DriverRequests = {3840, 4095, 7935}
  MaxPages = 12000
  Machines <- MCMachines
  StubBytes = 65536
  Frames = 8192
  SleepTicks = 2
SPECIFICATION BootSpec
INVARIANTS MemoryApart ReportsIntact
PROPERTY Boots
CHECK_DEADLOCK FALSE
