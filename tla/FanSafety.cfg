CONSTANTS
  Co2Levels <- MCLevels
  Counts <- MCCounts
  Targets <- MCTargetsTwo
  Speeds <- MCSpeeds
  Modes <- MCModesWide
  ReadingCap = 1
  WriteCap = 1
  SpeedCap = 1
  CloseDelay = 1
  BlockDelay = 2

SPECIFICATION Spec

INVARIANT TypeOK
INVARIANT SpeedDelivered
INVARIANT OverrunBound
INVARIANT ValveWillClose
INVARIANT SpeedInRange
PROPERTY DutySpec
