SPECIFICATION Spec
CONSTANTS
  Workers = {w1, w2}
  Tracks = {t1}
  Ttl = 1
  MaxFrames = 3
  MaxReloads = 1
INVARIANT ReloadIsFinal
CHECK_DEADLOCK FALSE
