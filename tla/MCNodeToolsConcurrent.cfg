CONSTANTS
  Tools = {t1}
  Persistent = {t1}
  Repl = {t1}
  Streaming = {}
  Versions = {v1, half, refused}
  Rejected = {refused}
  BadMethods = {half}
  BadStreams = {}
  Handlers = {h1, h2}
  MaxRegistered = 4
  MaxReconnects = 1
  None = None
SPECIFICATION Spec
SYMMETRY HandlerSymmetry
INVARIANTS ServicesSaved NoStraySubscription
