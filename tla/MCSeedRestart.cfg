CONSTANTS
  Nodes <- TwoNodes
  Forced = {}
  Times <- FourTimes
  Clock = "distinct"
  Faults = {"leave"}
  Nobody = Nobody
SPECIFICATION FairSpec
CHECK_DEADLOCK FALSE
PROPERTIES SplitBrainHeals
