SPECIFICATION FairSpec
CONSTANTS
  Workers = {w1, w2}
  Tracks = {t1}
  Ttl = 1
  MaxFrames = 4
  MaxReloads = 1
INVARIANTS
  OneExtraction
  ReloadReaches
  OnlyEnrolledAllowed
PROPERTIES
  MarksResolve
CHECK_DEADLOCK FALSE
