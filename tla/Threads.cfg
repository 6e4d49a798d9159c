CONSTANTS
  Waiters = {"a", "b", "c"}
  Handles = {"h"}
  MaxCalls = 1
  EngineThreads = {"a", "b"}
  Addresses = {"m"}
  Places = 2
  MaxShimCalls = 2
  MaxNative = 2
  MaxSession = 3
  Cap = 2
  Occupied = {0, 1}
  MaxMade = 2
  MaxArm = 2
  Spins = 1
  Targets = {"serial", "global"}
  Repeats = {TRUE, FALSE}
  None = None

SPECIFICATION ThreadsSpec
INVARIANTS
  TypeOK
  HandleAlive
  EngineInStep
  SessionOwned
  SlotIsItsOwn
PROPERTIES
  WaitsAreWindows
  CallsReturn
  CancelledEventNeverRuns
  TimerFires
  CleanupComes
CHECK_DEADLOCK FALSE
