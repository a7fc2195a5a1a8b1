CONSTANTS
  n1 = n1
  n2 = n2
  Node <- TwoNodes
  HistorySize = 2
  Threshold = 3
  SeqMod = 8
  RetryCount = 1
  Acker <- Nobody
  ChanCap = 5
  Budgets <- Liveness
SPECIFICATION FairSpec
INVARIANTS HistoryConsistent NothingLost InOrder
PROPERTIES ImplementsStream Resolved HandshakeCompletes
CHECK_DEADLOCK FALSE
