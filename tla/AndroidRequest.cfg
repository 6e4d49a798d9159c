CONSTANTS
  MaxRequest = 2
  MaxStop = 1
  MaxWorker = 1

SPECIFICATION Spec
INVARIANT StartsOnQuiet
