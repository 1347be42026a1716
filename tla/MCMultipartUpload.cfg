\* One file, empty, of one chunk, or of two parts; two threads.
SPECIFICATION Spec
CONSTANTS
  Contents = {1, 2}
  Threads = 2
  Sizes = {0, 1, 3}
  ChunkSize = 1
  PartSize = 2
  MaxParts = 2
  MaxCalls = 2
  MaxEdits = 1
  MaxTrouble = 1
INVARIANTS
  TypeOK ManifestMatchesStorage WholeFile ResumeTablesTrue FailsOnlyOnTrouble
PROPERTIES
  ImplementsStoragePuts UploadEnds
