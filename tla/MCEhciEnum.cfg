CONSTANTS
  N_PORTS = 3
  Devices <- MCDevices
  BiosAddresses = {1, 2, 3}
  PacketSize = 2
  MaxErrors = 2
SPECIFICATION FairSpec
INVARIANTS TypeOK AddressesUnique TransactionsComplete DiskDescribed
PROPERTIES EnumerationEnds
CHECK_DEADLOCK FALSE
