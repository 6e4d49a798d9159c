CONSTANTS
  Files = {"engine", "voice", "dictionary"}
  Engine = "engine"
  MaxKill = 1

SPECIFICATION Spec
INVARIANT OneWholeCopy
CHECK_DEADLOCK FALSE
