CONSTANTS
  s1 = s1
  s2 = s2
  u1 = u1
  n1 = n1
  n2 = n2
  Calls = {s1}
  Nodes = {n1}
  ChanCap = 2
  MaxChunks = 1
  Kind <- Kinds
  Target <- Targets
  Faults = {"tool"}
  Anywhere = Anywhere
  None = None
SPECIFICATION FairSpec
CHECK_DEADLOCK FALSE
PROPERTIES StreamCloses
