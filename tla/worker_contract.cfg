CONSTANTS
  w1 = w1
  w2 = w2
  s1 = s1
  s2 = s2
  Workers <- TwoWorkers
  Slots <- OnePermit
  NumMsgs = 2
  Unparseable = {}
  SendMayFail = FALSE
  CommitMayFail = {0}
  MaxFaults = 1
  MaxMoves = 1
SPECIFICATION FairSpec
INVARIANT NoTaskLost
PROPERTIES ContractSpec CommitCatchesUp DrainEnds
CHECK_DEADLOCK FALSE
