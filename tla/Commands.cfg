CONSTANTS
  Step = 10
  MaxSpeed = 10
  MaxTarget = 0
  Stored <- MCStored
  HeapCommands <- MCHeapCommands
  KnobEvents <- MCKnobEvents
  WebCommands <- MCWebCommands
  LowHalves <- MCLowHalves
  WriteCap = 1
  ScreenCap = 1

SPECIFICATION OneUserSpec

INVARIANTS TypeOK KnobSettled ScreenAgrees WebAloneHolds
PROPERTY PressIsSent
