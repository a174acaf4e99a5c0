SPECIFICATION RecommendSpec
CONSTANTS
  None = None
  f1 = f1
  f2 = f2
  r1 = r1
  r2 = r2
  r3 = r3
  Failures = {f1, f2}
  Hashes = {r1, r2, r3}
  Recoveries <- MCRecoveries
  Personas <- MCPersonas
  candidates <- MCCandidates
  Works = {"switch_model"}
  Flaky = {"retry"}
  EXPLORE_UNTIL_ATTEMPTS = 2
  min_recovery_attempts = 2
  min_success_percent = 50
  max_reporter_weight_per_hour = 2
  min_unique_reporters = 2
  low_diversity_percent = 70
  wilson_lower_bound <- MCWilson
  MaxAttempts = 2
INVARIANTS
  ExplorersRule
  NotDominated
PROPERTIES
  EventuallyAdvised
