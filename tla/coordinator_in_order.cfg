SPECIFICATION InOrderSpec
CONSTANTS
  MaxFrames = 3
  ReorderWindow = 1
  PendingLimit = 2
  FaceMode = "independent"
PROPERTIES
  EveryFrameSettles
CHECK_DEADLOCK TRUE
