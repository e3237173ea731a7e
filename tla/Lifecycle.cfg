\* Two requests, a dashboard and a scrape.
SPECIFICATION Spec
CONSTANTS
  RequestConn = {r1, r2}
  StreamConn = {d1}
  ScrapeConn = {m1}
INVARIANTS
  TypeOK
  CutOnlyAfterGrace
  MetricsOutliveRequests
PROPERTIES
  Terminates
\* The process ends.
CHECK_DEADLOCK FALSE
