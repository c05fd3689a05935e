SPECIFICATION FairSpec
CONSTANTS
  MaxFrames = 3
  ReorderWindow = 1
  PendingLimit = 1
  FaceMode = "person_bbox"
INVARIANTS
  OneStage
  MapsAreBounded
PROPERTIES
  DrainEnds
CHECK_DEADLOCK TRUE
