SPECIFICATION Spec
CONSTANTS
  d = d
  n = n
  r = r
  Root = Root
  Entries <- MCEntries
  Dirs <- MCDirs
  PathOrder <- MCPathOrder
  ScanOrder <- MCScanOrder
  ScanBatch = 1
  Parent <- MCParent
  Jobs <- MCJobs
  JobCount = 8
  PageSize = 2
  BatchSize = 2
  MaxEdits = 1
  MaxTrouble = 2
  SyncRunCost = 2
INVARIANTS
  TypeOK
  LoopStoresEdits
  EachFolderMadeOnce
PROPERTIES
  ImplementsQueue
  QueueDrains
  RootFilesReachServer
