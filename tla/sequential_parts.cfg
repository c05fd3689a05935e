SPECIFICATION Spec
CONSTANTS
  SizeRange = 65536
  PendingCap = 2
  MaxPts = 4
  InputSizes = {32, 48, 64}
  TopK = 3
  MaxBoxes = 4
  MaxScore = 2
  MaxSide = 3
  GridPairs = 4
  MaxIou = 2
  MaxExtra = 1
  Threshold = 1
  TrackBuffer = 1
  MaxDets = 2
  MaxTracks = 3
  MaxFrame = 4
  Persons = {p1, p2}
  MaxFaces = 2
  MaxLength = 20
  MinGap = 2
  Dwell = 2
  MaxVideo = 4
  MaxFailures = 1
INVARIANTS
  AcceptedIsUsable
  DetectionsAreTrue
  AssociationIsBest
  TracksAreConsistent
  DetectionsAreReported
  PeopleAreCovered
  OutputFollowsInput
  EventsAreStays
PROPERTIES
  PairsAreRight
  RemovedTracksStayRemoved
CHECK_DEADLOCK FALSE
