CONSTANTS
  n1 = n1
  n2 = n2
  b1 = b1
  b2 = b2
  Nodes = {n1, n2}
  Serving = {n1, n2}
  Buckets = {b1, b2}
  Homes <- OneBucket
  Called = {n1}
  Clients = {c1}
  Requests <- SomeRequests
  Keys = {k1, k2}
  Params = {p1, p2}
  Plain = Plain
  MaxRequests = 2
  MaxCalls = 1
  MaxFailures = 1
  None = None
SPECIFICATION Spec
CHECK_DEADLOCK FALSE
INVARIANT AnyNodeServes
SYMMETRY KeySymmetry
