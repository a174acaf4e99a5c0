SPECIFICATION EdgeSpec
CONSTANTS
  None = None
  Nothing = Nothing
  Clients = {"a", "b", "c"}
  Exporter = "a"
  limit = 2
  window_seconds = 2
  max_clients = 2
  MaxTime = 3
  MaxClock = 5
  MaxWrites = 5
  MaxSpans = 2
  Readers = {"p", "q"}
  CacheKeys = {"stats", "services"}
  ttl = 2
  max_entries = 1
  MaxCompute = 1
  MaxVersions = 2
  Teams = {"red", "blue"}
  Tokens = {"k1", "k2", "k3"}
  MaxRows = 3
  MaxRotations = 2
INVARIANTS
  BudgetKept
  AnsweredMeansStored
  FreshEnough
  MergedOnlyByRace
CHECK_DEADLOCK FALSE
