SPECIFICATION FairSpec
CONSTANTS
  Threads = {t1, t2, t3}
  Cap = 2
  MaxPushes = 5
INVARIANTS
  QueueIsExact
  NoLostWakeup
PROPERTIES
  StopWakes
CHECK_DEADLOCK TRUE
