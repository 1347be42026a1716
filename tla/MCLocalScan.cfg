SPECIFICATION Spec
CONSTANTS
  N = 2
  Remote = {1}
  Private = {2}
  BatchSize = 1
  MaxClaims = 2
  QueueLimit = 1
  MaxChanges = 3
  MaxCrashes = 1
INVARIANTS
  TypeOK
  NothingForgotten
  FreshScanSeesAll
PROPERTIES
  Settles
