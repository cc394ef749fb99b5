CONSTANTS
  Names <- SmallNames
  Paths <- SmallPaths
  PurgeLists <- SmallPurges
  LinkEnds <- SmallEnds
  MaxRepoSize = 7
  DiskFails = TRUE
SPECIFICATION Spec
INVARIANTS TypeOK MergedAsPromised WritesStayInside AlwaysMerges
CHECK_DEADLOCK FALSE
