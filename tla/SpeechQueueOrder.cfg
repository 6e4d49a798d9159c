CONSTANTS
  Settings = {TRUE}
  MaxItem = 3
  MaxCancel = 2
  Chunks = 1
  MaxJoin = 2
  None = None

SPECIFICATION Spec
INVARIANTS
  HeardInOrder
