CONSTANTS
  a = a
  b = b
  Nobody = Nobody
  Bad = Bad
  Tasks <- MCTasks
  Jobs <- MCJobs
  Depth = 2

SPECIFICATION MCSpec

INVARIANTS TypesOK ServesHolder
INVARIANTS NoThirdNumber ChecksumsDivide FramesCarryNumbers WhoHearsCanCommand
PROPERTIES AtomicSpec CallsReturn SubscribersAreFed
