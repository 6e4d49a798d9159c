CONSTANTS
  Kinds = {"TGR3", "TGR4"}
  Deadlines = {"queue", "reset", "settle", "drain"}
  MaxReq = 2
  MaxSlice = 3
  Ring = 2
  Cap = 1
  EmptyLimit = 2
  SpinLimit = 3
  QuietLimit = 1
  StreamSettle = 1
  Lookbehind = 1
  SettleTicks = 1
  None = None

SPECIFICATION MCSpec
INVARIANTS
  TypeOK
  NoBleed
  WholeUtterance
  NoDoubleCompletion
  CancelIsForThis
  RenderHoldsTimer
PROPERTIES
  EveryRequestAnswered
  ClockKeepsTicking
