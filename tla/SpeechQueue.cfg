CONSTANTS
  Settings = {TRUE, FALSE}
  MaxItem = 2
  MaxCancel = 2
  Chunks = 1
  MaxJoin = 2
  None = None

SPECIFICATION Spec
INVARIANTS
  TypeOK
  OneLateSlice
PROPERTIES
  MarkAfterAudio
  IndexBeforeDone
  DoneIsTold
  LastWordIsHeard
  ThreadsEnd
