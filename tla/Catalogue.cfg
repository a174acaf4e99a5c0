CONSTANTS
  Sessions = {q1, q2}
  Fingerprints = {f1}
  NoFingerprint = none
  Reporters = {r1}
  Unsigned = anon
  NoOne = noone
  MaxRequests = 3
  MaxPurges = 1
SPECIFICATION FairSpec
INVARIANTS
  CataloguedUnlessPurged
PROPERTIES
  RequestsEnd
