CONSTANTS
  Settings = {TRUE}
  MaxItem = 2
  MaxCancel = 2
  Chunks = 1
  MaxJoin = 2
  None = None

SPECIFICATION Spec
INVARIANTS
  CancelledNotSpoken
