CONSTANTS
  Handoff = TRUE
  Faults = {"crash", "refuse", "nostart"}
  Timers = {t1, t2}
  MaxProc = 2
  MaxItem = 2
  MaxCancel = 2
  MaxSetting = 1
  MaxAsked = 2
  Polls = 1
  None = None

SYMMETRY AlikeTimers
SPECIFICATION Spec
INVARIANTS
  TypeOK
  NoOrphan
  RetirementKeepsStreaming
PROPERTIES
  OnlyItsOwn
