CONSTANTS
  Names <- SmallNames
  Paths <- SmallPaths
  PurgeLists <- SmallPurges
  LinkEnds <- SmallEnds
  MaxRepoSize = 7
  DiskFails = TRUE
SPECIFICATION Spec
INVARIANT OnlyPurgePathsRemoved
CHECK_DEADLOCK FALSE
