SPECIFICATION FairSpec
CONSTANTS
  MaxCalls = 3
  MaxPosts = 2
  Breaking = {1}
  Shapes = {s1, s2}
  FirstShape = s1
  MaxRetryable = 1
INVARIANTS
  AnswersKept
  CallsReportedOnce
PROPERTIES
  ProxyEnds
CHECK_DEADLOCK FALSE
