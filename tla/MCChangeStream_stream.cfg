SPECIFICATION FairSpec
CONSTANTS
  MaxRows = 4
  Hidden = {3}
  Threads = {"a", "b"}
  none = "none"
  ThreadOf <- MCThreadOf
  MaxBatch = 2
  MaxPending = 2
CHECK_DEADLOCK FALSE
INVARIANTS NoSilentLoss IdleMeansCaughtUp
PROPERTIES ViewKeeps ImplementsFeed AppCatchesUp
