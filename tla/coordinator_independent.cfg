SPECIFICATION Spec
CONSTANTS
  MaxFrames = 4
  ReorderWindow = 1
  PendingLimit = 2
  FaceMode = "independent"
INVARIANTS
  NothingStaysBehind
PROPERTIES
  ProbesAreKept
  DeliversFrames
CHECK_DEADLOCK TRUE
