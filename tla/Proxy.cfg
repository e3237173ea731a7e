\* Safety of the requests: two of them, every pool, one dashboard.
SPECIFICATION Spec
CONSTANTS
  Req = {r1, r2}
  Answer <- MCPool
  Pool <- MCPool
  General = "general"
  Upstreams <- MCUpstreams
  BadURL = {"%"}
  CounterMod = 4
  MaxWraps = 1
  Client = {c1}
  EventsCap = 2
  ChanCap = 1
  None = None
  NoLabel = ""
SYMMETRY Symmetry
INVARIANTS
  TypeOK
  Conservation
  DenseIds
  ShownIsCounted
  RealTimeOrder
\* Each request and each connection is used once.
CHECK_DEADLOCK FALSE
