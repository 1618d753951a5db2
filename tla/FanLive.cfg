CONSTANTS
  Co2Levels <- MCLevelsLive
  Counts = {}
  Targets <- MCTargets
  Speeds <- MCSpeeds
  Modes <- MCModes
  ReadingCap = 1
  WriteCap = 1
  SpeedCap = 1
  CloseDelay = 1
  BlockDelay = 2

SPECIFICATION FairSpec

PROPERTY ValveComesBack
PROPERTY CriticalReachesFan
