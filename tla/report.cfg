CONSTANTS
  MaxElements = 4
  MaxPieces = 1
  MaxFiles = 2
  MaxDetail = 1
  OtherReports <- SmallAndLarge
SPECIFICATION Spec
INVARIANTS TypeOK ReadAsWritten MessageIsOwn CountsExact ScoreAgrees
CHECK_DEADLOCK FALSE
