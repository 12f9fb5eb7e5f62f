CONSTANTS
  Tools = {t1}
  Persistent = {t1}
  Repl = {t1}
  Streaming = {}
  Versions = {v1, v2}
  Rejected = {}
  BadMethods = {}
  BadStreams = {}
  Handlers = {h1}
  MaxRegistered = 3
  MaxReconnects = 0
  None = None
SPECIFICATION Spec
PROPERTIES StoppedBeforeReplaced
