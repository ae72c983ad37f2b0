SPECIFICATION FairSpec
CONSTANTS
  MaxEvents = 4
  Audience <- MCAudience
  Pollers = {"host", "m1"}
  As <- MCAs
  Page = 2
  Watchers = {"w"}
  ReplayLimit = 2
  MaxFaults = 1
CHECK_DEADLOCK FALSE
INVARIANTS NoLostWakeup ReplayFaithful
PROPERTIES ImplementsRowFeed WatcherCatchesUp
