SPECIFICATION ClientFairSpec
CONSTANTS
  Threads = {t1}
  Workers = {w1, w2, w3}
  Operations = {o1}
  Shapes = {s1}
  NoShape = NoShape
  NoWorker = NoWorker
  MaxQueue = 2
  MaxReports = 3
  Paths = {p1}
  Rests = {r1}
  Window = 1
  BackoffGap = 1
  MaxPending = 1
  MaxHttpCalls = 3
  MaxClock = 2
PROPERTIES
  NothingStranded
CHECK_DEADLOCK FALSE
