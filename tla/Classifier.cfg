\* Three payloads against a cache of two, three calls against one thread.  No
\* symmetry, for the liveness property; the model has one verdict.
SPECIFICATION Spec
CONSTANTS
  Call = {c1, c2, c3}
  Payload = {p1, p2, p3}
  Verdict = {v1}
  Poison = Poison
  Default = Default
  MaxSize = 2
  Threads = 1
  None = None
INVARIANTS
  TypeOK
  Honest
  CachedWasReplied
PROPERTIES
  EveryCallAnswered
\* Each call is made once.
CHECK_DEADLOCK FALSE
