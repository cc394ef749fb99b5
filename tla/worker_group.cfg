CONSTANTS
  w1 = w1
  w2 = w2
  s1 = s1
  s2 = s2
  Workers <- TwoWorkers
  Slots <- TwoPermits
  NumMsgs = 2
  Unparseable = {}
  SendMayFail = TRUE
  CommitMayFail = {0, 1}
  MaxFaults = 1
  MaxMoves = 1
SPECIFICATION Spec
SYMMETRY Symmetry
INVARIANTS TypeOK ProduceBeforeCommit NoLossWithoutCrash DuplicatesBounded
CHECK_DEADLOCK FALSE
