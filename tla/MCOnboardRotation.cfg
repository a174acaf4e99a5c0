SPECIFICATION OnboardingSpec
CONSTANTS
  max_rows = 3
  BatchRows = 2
  MaxLabRows = 2
  MaxCuts = 1
  MaxPasses = 2
  Nobody = Nobody
  Runs = {"a", "b", "c"}
  ORPHAN_AGE = 1
  MaxCommands = 2
  MaxTicks = 2
  ProviderOf <- MCProviderOf
  Scenes = 2
  Projects = 1
  MAX_MODEL_CALLS = 1
  MAX_ATTEMPTS = 1
  DAILY_CAP = 2
  daily_cap = 3
  AnswerKinds = {"text"}
  MaxUncounted = 0
  Fingerprints = {"x", "y"}
  Models = 2
  MAX_RUNS_PER_DAY = 2
  MAX_CALLS_OF_MODEL = 2
  MAX_TOOL_CALLS = 2
  MaxTears = 1
  MaxAgentRuns = 4
  Unknown = Unknown
  Graders = {"g", "h"}
  Tasks <- MCTasks
  TRUTH_TTL = 1
  MaxLines = 2
  MaxTruth = 2
  RunKinds <- MCRunKinds
  MIN_RUNS_FOR_A_WINNER = 2
  FAIR_ORDER_SINCE = 1
  MCP_RULES_SINCE = 2
  PROVIDER_CONTROL_SINCE = 1
  MaxFiled = 4
  Scenarios = {"clean", "other", "present", "home", "readonly"}
  Marks = {"query", "report", "home", "hook"}
  Conns = {c1, c2}
  Hosts = {"pypi", "lab", "other"}
  Allow = {"pypi", "lab"}
  LAB_HOSTS = {"lab"}
  MAX_CONNECTIONS = 1
  MaxPrograms = 2
  MaxRestarts = 1
  OPENCODE_TIMEOUT = 300
  MAX_TIMEOUT = 300
  OUTPUT_CAP = 2
  WorkTimes = {100}
  CollectTimes = {1, 7, 9}
  OcEvents <- MCOcEvents
  MaxOcEvents = 3
  MaxCanaries = 2
PROPERTIES
  EveryModelMeetsEveryScene
CHECK_DEADLOCK FALSE
