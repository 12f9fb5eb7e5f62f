CONSTANTS
  s1 = s1
  s2 = s2
  u1 = u1
  n1 = n1
  n2 = n2
  Calls = {s1, u1}
  Nodes = {n1, n2}
  ChanCap = 1
  MaxChunks = 1
  Kind <- Kinds
  Target <- Targets
  Faults = {"node"}
  Anywhere = Anywhere
  None = None
SPECIFICATION Spec
CHECK_DEADLOCK FALSE
INVARIANTS TypeOK NoSilentGap StoppedForCause
PROPERTIES PromiseKept
