CONSTANTS
  w1 = w1
  w2 = w2
  s1 = s1
  s2 = s2
  Workers <- OneWorker
  Slots <- TwoPermits
  NumMsgs = 3
  Unparseable = {}
  SendMayFail = FALSE
  CommitMayFail = {}
  MaxFaults = 1
  MaxMoves = 0
SPECIFICATION Spec
INVARIANT NoTaskLost
CHECK_DEADLOCK FALSE
