CONSTANTS
  Nodes <- TwoNodes
  Forced = {}
  Times <- TwoTimes
  Clock = "seconds"
  Faults = {}
  Nobody = Nobody
SPECIFICATION Spec
CHECK_DEADLOCK FALSE
PROPERTIES DiscoveryDemotes
