CONSTANTS
  n1 = n1
  n2 = n2
  Node <- TwoNodes
  HistorySize = 2
  Threshold = 3
  SeqMod = 8
  RetryCount = 1
  Acker <- OnlySecond
  ChanCap = 4
  Budgets <- Burst
SPECIFICATION Spec
INVARIANTS FreeEntriesInRange
CHECK_DEADLOCK FALSE
