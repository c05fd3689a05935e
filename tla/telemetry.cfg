SPECIFICATION FairSpec
CONSTANTS
  Publishers = {f, m}
  MetricsThread = m
  Capacity = 2
  MaxSteps = 5
  MaxSubscribers = 2
INVARIANTS
  WatchersSeeTheNewest
PROPERTIES
  ClosedIsFinal
  WatchersWake
CHECK_DEADLOCK FALSE
