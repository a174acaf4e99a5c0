CONSTANTS
  f1 = f1  f2 = f2  a1 = a1  r1 = r1  r2 = r2  anon = anon  s1 = s1  p1 = p1  p2 = p2
  Sources = {"agent", "first_party"}
  Fingerprints = {f1}
  Scopes = {s1}
  Actions = {a1}
  Reporters = {r1}
  Anonymous = anon
  Cap = 2
  RetentionChoices = {0, 1}
  PrivateRetention = 1
  MinutesPerHour = 2
  AdoptionMinObservations = 2
  AdoptionMinSpan = 1
  Pruners = {p1}
  MaxHour = 2
  MaxObservations = 2
  MaxOutcomes = 3
  MaxPrivate = 1
SPECIFICATION MCSpec
INVARIANTS
  EvidenceConserved
  ArchiveEarned
PROPERTIES
  ImplementsLedger
  StaleRowsFolded
