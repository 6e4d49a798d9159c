CONSTANTS
  Handoff = TRUE
  Faults = {}
  Timers = {"t1"}
  MaxProc = 3
  MaxItem = 2
  MaxCancel = 1
  MaxSetting = 0
  MaxAsked = 1
  Polls = 1
  None = None

SPECIFICATION Spec
INVARIANTS
  WantedSurvives
