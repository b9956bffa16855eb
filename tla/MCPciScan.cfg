CONSTANTS
  MaxBus = 1
  MaxDevice = 1
  MaxFunction = 2
  Classes <- MCClasses
  Spaces <- MCSpaces
SPECIFICATION Spec
INVARIANTS TypeOK TokensAreTheFunctions ControllersFound
PROPERTY EthernetFound
CHECK_DEADLOCK FALSE
