CONSTANTS
  NP = 2
  Slots = 2
  Base = 2
  Chunk = 2
  Room = 5
  Requests <- MCRequestsAll
  NoRequest = NoRequest
  MaxRequests = 2
  Connected <- MCConnectedDisks
  Uppers = {0}
  HonoursW = TRUE
  PerPage = 1
SPECIFICATION Spec
PROPERTY DriverReturns
CHECK_DEADLOCK FALSE
