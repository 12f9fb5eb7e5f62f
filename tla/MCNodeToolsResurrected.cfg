CONSTANTS
  Tools = {t1}
  Persistent = {}
  Repl = {}
  Streaming = {}
  Versions = {v1, v2}
  Rejected = {}
  BadMethods = {}
  BadStreams = {}
  Handlers = {h1}
  MaxRegistered = 3
  MaxReconnects = 1
  None = None
SPECIFICATION Spec
INVARIANTS UninstalledStaysGone
