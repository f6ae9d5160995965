SPECIFICATION FairSpec
CONSTANTS
  p1 = p1
  p2 = p2
  a1 = a1
  a2 = a2
  a3 = a3
  a4 = a4
  d1 = d1
  d2 = d2
  d3 = d3
  d4 = d4
  d5 = d5
  d6 = d6
  None = None
  Processes <- OneProcess
  Archives <- MCArchives
  Databases <- MCDatabases
  Keyed <- MCKeyed
  Chunks = 2
  Parts = 2
  MaxConns = 2
  MaxCrashes = 2
  MaxFailures = 2
  MaxRebuilds = 2
INVARIANTS InstalledComplete ArchiveComplete HandlesComplete
PROPERTIES StaysAvailable SuccessIsClean EventuallyServed
