SPECIFICATION Spec
CONSTANTS
  d = d
  f = f
  j1 = j1
  j2 = j2
  j3 = j3
  j4 = j4
  Entries <- MCEntries
  Dirs <- MCDirs
  Jobs <- MCJobs
SYMMETRY MCSymmetry
INVARIANT
  RetryFailedRequeues
