CONSTANTS
  Tools = {t1, t2}
  Persistent = {t1}
  Repl = {t1}
  Streaming = {t1, t2}
  Versions = {v1, v2, half}
  Rejected = {}
  BadMethods = {half}
  BadStreams = {half}
  Handlers = {h1, h2}
  MaxRegistered = 3
  MaxReconnects = 0
  None = None
SPECIFICATION Spec
CONSTRAINT NoOverlap
SYMMETRY SameVersions
INVARIANTS TypeOK ServedAsInstalled NodeCallsRunOnce StreamsOnce RunningIsInstalled RunsWhatIsServed
