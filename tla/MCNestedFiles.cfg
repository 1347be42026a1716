SPECIFICATION Spec
CONSTANTS
  d = d
  n = n
  r = r
  Root = Root
  Entries <- MCEntries
  Dirs <- MCDirs
  PathOrder <- MCPathOrder
  ScanOrder <- MCScanOrder
  ScanBatch = 3
  Parent <- MCParent
  Jobs <- MCJobs
  JobCount = 4
  PageSize = 2
  BatchSize = 2
  MaxEdits = 0
  MaxTrouble = 0
  SyncRunCost = 2
PROPERTY
  ChangedFilesReachServer
