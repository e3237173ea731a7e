\* Three events against a page that keeps two, a chart of two points, a log of
\* one row, and one restart of the proxy.
SPECIFICATION Spec
CONSTANTS
  RouteLabel = {general, fast}
  Unknown = ""
  MAX_EVENTS = 2
  RPS_WINDOW = 1
  MAX_POINTS = 2
  MAX_ROWS = 1
  MaxArrivals = 3
  MaxRestarts = 1
  MaxTime = 1
  None = None
SYMMETRY Symmetry
INVARIANTS
  TypeOK
  KeepsLatest
  LogMatchesCards
  ChartEndsAtCards
  PacketShowsLatestOfOneProxy
  OneDecision
\* The bounds stop the model.
CHECK_DEADLOCK FALSE
