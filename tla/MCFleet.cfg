SPECIFICATION AllSpec
CONSTANTS
  p1 = p1
  None = None
  Providers = {p1}
  PERSONAS <- MCPositions
  lane_personas <- MCLanePersonas
  opencode <- MCOpenCode
  TWINS <- MCTwins
  Cap <- MCCap
  LightCap <- MCLightCap
  LEDGER_CAP = 1
  ARCHIVE_DAYS = 1
  MAX_RUNS_PER_DAY = 2
  RunCalls = 1
  MaxDay = 2
  MaxKills = 1
  EXPLORE_UNTIL_ATTEMPTS = 2
  Personas <- MCPersonas
  Exceptions <- MCExceptions
  Advices <- MCAdvices
  Turns = 3
  MaxCalls = 1
INVARIANTS
  NeverUnderbilled
  CapHolds
  ScoreboardCountsOnce
  DeadMeansWalled
  LedgerTruthful
CHECK_DEADLOCK FALSE
