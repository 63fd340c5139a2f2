SPECIFICATION WSpec
CONSTANTS
  None = None
  w1 = w1 w2 = w2
  Writer = {w1, w2} Amounts <- TheAmounts
  MaxEvents = 1 TrimInterval = 1 MaxCrashes = 0 MaxCancels = 1
INVARIANT ChainVerifies
CHECK_DEADLOCK FALSE
