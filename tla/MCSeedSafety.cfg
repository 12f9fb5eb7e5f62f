CONSTANTS
  Nodes <- ThreeNodes
  Forced = {3}
  Times <- TwoTimes
  Clock = "skewed"
  Faults = {"mdns"}
  Nobody = Nobody
SPECIFICATION Spec
CHECK_DEADLOCK FALSE
INVARIANTS TypeOK SeedRemains DemotesUpward
