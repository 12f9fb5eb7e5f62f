CONSTANTS
  Nodes = {n1}
  Zones <- Behind
  ServerZone = 1
  Day = 2
  LastTick = 3
  Kinds = {"log", "event"}
  Selects <- Chosen
  Subjects <- Overlapping
  CaptureEvents = TRUE
  MaxQueryLimit = 2
  MaxQueryWindow = 2
  StreamCap = 1
  MaxMessages = 2
  MaxFailures = 1
  None = None
SPECIFICATION Spec
CHECK_DEADLOCK FALSE
INVARIANTS TypeOK QueryExact StoredOnce
