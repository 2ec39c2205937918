SPECIFICATION FairSpec
CONSTANTS
  NListeners = 2
  MaxConnections = 2
  Backlog = 2
  NArrivals = 6
CHECK_DEADLOCK FALSE
INVARIANT TypeOK
INVARIANT NoLostWakeup
INVARIANT CounterCovers
INVARIANT RegisteredIffUnblocked
PROPERTY QuietUnblocks
