CONSTANTS
  Targets <- MCTargets
  Speeds <- MCSpeeds
  Bad = Bad
  QueueLen = 1
  MaxEvents = 2

SPECIFICATION FairSpec

INVARIANT TypeOK
PROPERTIES DurableSpec SettingsAreStored
