SPECIFICATION FairSpec
CONSTANTS
  Clients = {c1, c2}
  Free = free
  Streams = {s1, s2}
  MaxCommands = 3
INVARIANTS
  CommandsAgree
PROPERTIES
  CommandsEnd
CHECK_DEADLOCK FALSE
