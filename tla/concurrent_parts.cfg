SPECIFICATION Spec
CONSTANTS
  Viewers = {v1, v2}
  MaxSeq = 2
  Rules = {r1}
  Callers = {c1, c2}
  MaxVersion = 2
  Capacity = 1
  MaxFrames = 2
  Cancels = {k1, k2}
  Candidates = {f1, f2}
  Requests = {q1, q2}
  MaxCopies = 3
INVARIANTS
  EnrolledOnceAndLoaded
PROPERTIES
  ViewersCatchUp
  StopEnds
  AnalyticsSettles
  JobsSettle
CHECK_DEADLOCK FALSE
