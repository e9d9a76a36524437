CONSTANTS
  Paths <- MCPaths
  Contents = {0, 1, 2, 3, 4, 5}
  None = 0
  Links = {4, 5}
  Kept = {4}
  Newest = 3
  Release <- MCRelease
  Uncopied <- MCUncopied
  Rank <- MCRank
  Programs = {2}
  Procs = {"p"}
  Concurrent = FALSE
  MaxCuts = 2
SPECIFICATION Spec
INVARIANTS
  SuccessMeansComplete
  CanBeFinished
PROPERTIES
  PackageInstalled
CHECK_DEADLOCK FALSE
