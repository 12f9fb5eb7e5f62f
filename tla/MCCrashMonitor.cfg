CONSTANTS
  Tools = {t1}
  Loops = {l1, l2}
  MaxRetries = 3
  MaxDoubled = 2
  FailureCap = 5
  None = None
SPECIFICATION FairSpec
CHECK_DEADLOCK FALSE
INVARIANTS TypeOK OneLoopPerTool RestartsBounded
PROPERTIES CancelledLoopEnds CrashIsSettled
