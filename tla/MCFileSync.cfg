SPECIFICATION Spec
CONSTANTS
  MaxVersion = 3
  MaxFiles = 2
  MaxCrashes = 1
INVARIANTS
  TypeOK
  SyncedWasStored
PROPERTIES
  ScannedEditsSurvive
  Converges
