CONSTANTS
  Sources = {"agent", "demo_agent"}
  Fingerprints = {f1}
  Scopes = {}
  Actions = {a1}
  Reporters = {r1, r2}
  Anonymous = anon
  Cap = 1
  RetentionChoices = {0}
  PrivateRetention = 1
  MinutesPerHour = 1
  AdoptionMinObservations = 2
  AdoptionMinSpan = 1
  Pruners = {p1}
  MaxHour = 1
  MaxObservations = 1
  MaxOutcomes = 2
  MaxPrivate = 0
  Readers = {rd1}
  DecayWindow = 0
SPECIFICATION ReadsSpec
INVARIANTS
  ReadsMissNothing

  
