CONSTANTS
  Sources <- MCSources
  DriverLines <- MCDriverLines
  SleepTicks = 2
  LeftInEax <- BuildLeftInEax

SPECIFICATION FairSpec

INVARIANT TypeOK
INVARIANT NoWildDispatch
INVARIANT NoTornGate
INVARIANT MaskUnlessSpoiled
INVARIANT NothingLeftInService

PROPERTY BootReachesLoop
PROPERTY KeyServed
PROPERTY SleepImplementsTimer
