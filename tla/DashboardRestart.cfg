\* One event before the restart and one after it.
SPECIFICATION Spec
CONSTANTS
  RouteLabel = {"general", "fast-path"}
  Unknown = ""
  MAX_EVENTS = 2
  RPS_WINDOW = 1
  MAX_POINTS = 2
  MAX_ROWS = 1
  MaxArrivals = 3
  MaxRestarts = 1
  MaxTime = 1
  None = None
INVARIANTS
  PacketShowsLatest
CHECK_DEADLOCK FALSE
