CONSTANTS
  Handoff = TRUE
  Faults = {}
  Timers = {"t1"}
  MaxProc = 3
  MaxItem = 2
  MaxCancel = 1
  MaxSetting = 1
  MaxAsked = 2
  Polls = 1
  None = None
  MaxRequest = 3
  MaxStop = 1
  MaxWorker = 2

SPECIFICATION PoolsSpec
INVARIANTS
  RequestServed
PROPERTIES
  WatchedRenderEnds
  StopsAreHeeded
