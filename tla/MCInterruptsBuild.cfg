CONSTANTS
  Sources <- MCSources
  DriverLines <- NoDriverLines
  SleepTicks = 2
  LeftInEax <- BuildLeftInEax

SPECIFICATION Spec

INVARIANT MaskTracksEnables
