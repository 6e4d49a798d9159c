CONSTANTS
  Kinds = {"TGR4"}
  Deadlines = {"drain"}
  MaxReq = 2
  MaxSlice = 1
  Ring = 1
  Cap = 1
  EmptyLimit = 2
  SpinLimit = 3
  QuietLimit = 1
  StreamSettle = 1
  Lookbehind = 1
  SettleTicks = 1
  None = None

SPECIFICATION Spec
INVARIANT StaleNeverCollected
