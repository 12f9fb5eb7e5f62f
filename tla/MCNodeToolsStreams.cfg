CONSTANTS
  Tools = {t1}
  Persistent = {}
  Repl = {}
  Streaming = {t1}
  Versions = {v1, half}
  Rejected = {}
  BadMethods = {half}
  BadStreams = {half}
  Handlers = {h1}
  MaxRegistered = 3
  MaxReconnects = 0
  None = None
SPECIFICATION Spec
INVARIANTS StreamsNeverDouble
