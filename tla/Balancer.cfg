\* A counter that wraps at 4 under a pool of 3, so that a wrap breaks the turn.
SPECIFICATION Spec
CONSTANTS
  Label <- MCLabel
  Pool <- MCPool
  General = "general"
  Upstreams <- MCUpstreams
  Blank = Blank
  CounterMod = 4
  MaxWraps = 4
INVARIANTS
  TypeOK
  Balanced
\* The bound MaxWraps stops the model.
CHECK_DEADLOCK FALSE
