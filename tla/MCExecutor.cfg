CONSTANTS
  Tools = {t1, t2}
  Msgpack = {t1}
  Monitored = {t1, t2}
  Procs = {p1, p2}
  Operators = {o1}
  Callers = {c1}
  Threshold = 1
  FailureCap = 1
  None = None
SPECIFICATION FairSpec
INVARIANTS TypeOK NoOrphan HealthLoopOwned MsgpackSupervised StatusAgrees
PROPERTIES HealthLoopEnds
