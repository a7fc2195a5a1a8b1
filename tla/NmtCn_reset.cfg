SPECIFICATION FairSpec
CONSTANTS
  QueueMax = 3
  MaxResets = 2
  MayReject = {"CsPreOperational2"}
INVARIANTS ReadyEarned Follows NoStaleMove
PROPERTY ResetCompletes
CHECK_DEADLOCK FALSE
