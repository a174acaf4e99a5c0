SPECIFICATION ReportingSpec
CONSTANTS
  Threads = {t1, t2}
  Workers = {w1, w2, w3}
  Operations = {o1}
  Shapes = {s1, s2}
  NoShape = NoShape
  NoWorker = NoWorker
  MaxQueue = 2
  MaxReports = 3
  Paths = {p1, p2}
  Rests = {r1}
  Window = 1
  BackoffGap = 1
  MaxPending = 1
  MaxHttpCalls = 3
  MaxClock = 2
SYMMETRY Symmetry
INVARIANTS
  QueueAccounted
  OutcomesOnTheirFailures
  RecoveryInferredOnce
CHECK_DEADLOCK FALSE
