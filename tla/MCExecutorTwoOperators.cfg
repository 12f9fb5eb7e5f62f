CONSTANTS
  Tools = {t1}
  Msgpack = {t1}
  Monitored = {t1}
  Procs = {p1, p2}
  Operators = {o1, o2}
  Callers = {c1}
  Threshold = 1
  FailureCap = 1
  None = None
SPECIFICATION Spec
PROPERTIES StopLeavesNothing
