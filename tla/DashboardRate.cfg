\* One event, which grows older than the window.
SPECIFICATION FairSpec
CONSTANTS
  RouteLabel = {"general", "fast-path"}
  Unknown = ""
  MAX_EVENTS = 2
  RPS_WINDOW = 1
  MAX_POINTS = 2
  MAX_ROWS = 1
  MaxArrivals = 1
  MaxRestarts = 0
  MaxTime = 2
  None = None
PROPERTIES
  RatesRoll
\* The bounds stop the model.
CHECK_DEADLOCK FALSE
