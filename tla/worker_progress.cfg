CONSTANTS
  w1 = w1
  w2 = w2
  s1 = s1
  s2 = s2
  Workers <- OneWorker
  Slots <- TwoPermits
  NumMsgs = 3
  Unparseable = {1}
  SendMayFail = TRUE
  CommitMayFail = {}
  MaxFaults = 1
  MaxMoves = 1
SPECIFICATION FairSpec
PROPERTIES AnsweredOrCrashed StallEnds
CHECK_DEADLOCK FALSE
