\* One request is enough.
SPECIFICATION Spec
CONSTANTS
  Req = {r1}
  Answer <- MCPool
  Pool <- MCPool
  General = "general"
  Upstreams <- MCUpstreams
  BadURL = {"%"}
  CounterMod = 4
  MaxWraps = 1
  Client = {c1}
  EventsCap = 1
  ChanCap = 1
  None = None
  NoLabel = ""
INVARIANTS
  ErrorFallsBackToGeneral
\* Each request and each connection is used once.
CHECK_DEADLOCK FALSE
