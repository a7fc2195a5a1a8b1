CONSTANTS
  n1 = n1
  n2 = n2
  Node <- TwoNodes
  HistorySize = 2
  Threshold = 3
  SeqMod = 8
  RetryCount = 1
  Acker <- OnlySecond
  ChanCap = 2
  Budgets <- Faulty
SPECIFICATION Spec
INVARIANTS TimerArmed ViewMatches HistoryIndexOK
CHECK_DEADLOCK FALSE
