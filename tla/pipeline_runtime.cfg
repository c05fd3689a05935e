SPECIFICATION FairSpec
CONSTANTS
  Pools = {p1, p2}
  Streams = {s}
  Workers = {w1, w2}
  None = None
  AnonymizerCapacity = 2
  EncoderCapacity = 1
  MaxFrames = 2
INVARIANTS
  NothingOutlivesStop
PROPERTIES
  FramesLeaveRight
  CallsEnd
CHECK_DEADLOCK FALSE
