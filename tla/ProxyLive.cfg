\* Liveness of the requests: no symmetry, and one pool.
SPECIFICATION Spec
CONSTANTS
  Req = {r1, r2}
  Answer = {"general"}
  Pool = {"general"}
  General = "general"
  Upstreams <- MCOnePool
  BadURL = {"%"}
  CounterMod = 4
  MaxWraps = 1
  Client = {}
  EventsCap = 1
  ChanCap = 1
  None = None
  NoLabel = ""
PROPERTIES
  NeverBlocksOnClassifier
  NeverBlocksOnDashboards
\* Each request and each connection is used once.
CHECK_DEADLOCK FALSE
