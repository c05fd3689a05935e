SPECIFICATION FairSpec
CONSTANTS
  Threads = {h1, h2}
  Free = Free
  Streams = {s}
  MaxPeers = 1
  MaxSessions = 2
INVARIANTS
  RoomIsKept
  SessionsAreOwned
PROPERTY
  CallsEnd
