CONSTANTS
  NP = 3
  Slots = 2
  Base = 2
  Chunk = 2
  Room = 5
  Requests <- MCRequests
  NoRequest = NoRequest
  MaxRequests = 2
  Connected <- MCConnected
  Uppers = {0}
  HonoursW = FALSE
  PerPage = 1
SPECIFICATION Spec
INVARIANTS TypeOK NeverAstray DisksRegistered DeviceListRight
PROPERTIES ImplementsStore DriverReturns
CHECK_DEADLOCK FALSE
