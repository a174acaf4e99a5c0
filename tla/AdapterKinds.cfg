SPECIFICATION Spec
CONSTANTS
  None = None
  MaxCalls = 3
  Sessions = {"s", "r"}
  Tools = {"t"}
  Transient = {"rate_limit"}
  Lasting = {"auth_error"}
  Arguments = {"a", "b"}
  MaxRetryable = 1
  Abreast = 2
  Ways = {"failecho", "disabled", "toolset", "auto", "client", "hard_client", "watch"}
  MaxToolCalls = 3
  Steps = {"cart.add", "checkout.payment"}
  SENSITIVE_STEPS = {"checkout.payment"}
  Versions = {"v1", "v2"}
  Statuses = {0, 200, 402, 403, 504}
  NetworkActions = {"wait_and_retry"}
  MaxSteps = 2
INVARIANTS
  
  NothingLostToTiming
  
  AccountStaysHome
CHECK_DEADLOCK FALSE
