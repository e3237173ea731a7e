\* One event and one client are enough for a send on a closed channel.
SPECIFICATION Spec
CONSTANTS
  Event = {e1}
  Client = {c1}
  EventsCap = 1
  ChanCap = 1
  None = None
INVARIANTS
  BroadcastNeverPanics
CHECK_DEADLOCK FALSE
