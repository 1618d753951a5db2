CONSTANTS
  Timeout = 5000
  Interval = 2
  DataLen = 1
  ResponseLen = 2
  MaxCommands = 2
  MaxSilent = 2

SPECIFICATION FairSpec

INVARIANTS TypeOK CallbacksHaveState TimeoutIsReported RepeatNeedsSilence

PROPERTY RequestEnds
