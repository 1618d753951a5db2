SPECIFICATION Spec
CONSTANTS
  co2 = co2
  fan = fan
  NoFrame = NoFrame
  Readers <- MCReaders
  Writer <- MCWriter
  ReplyLen <- MCReplyLen
  Depth = 2
  MaxRequests = 3
INVARIANT OwnReply
PROPERTY GapUnlessOutOfStep
CHECK_DEADLOCK FALSE
