CONSTANTS
  t1 = t1
  t2 = t2
  a = a
  b = b
  c = c
  Names = {t1, t2}
  MaxVersion = 4
  Manifest <- Renamed
  Packages = {a, b, c}
  Declared <- SameFile
  Bare = Bare
  MaxFaults = 0
  Service = t1
  None = None
SPECIFICATION Spec
PROPERTY UpdateInstalls
