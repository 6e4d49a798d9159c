CONSTANTS
  MaxSteps = 60
  BoundBits = 4
  MaxWord = 2
  MaxText = 4
  LongDigits = 3
  MaxParts = 3
  MaxClean = 5
  MaxDigits = 19
  MaxCommand = 3
  MaxWords = 12
  MaxFormat = 2
  MaxParams = 2
  Byte = 2
  MaxOut = 6

  Threads = {"a", "b"}
  Grave = 1
  MaxObjects = 3
  MaxOwned = 1
  AacFrame = 2
  Priming = 3
  MaxRounds = 2
  MaxUnit = 3
  MaxStreams = 2
  Asks = {1, 4}
  Views = {"v"}
  MaxMaps = 1
  Hdr = 2
  Split = 2
  Align = 2
  ArenaRoom = 14
  StackSize = 2
  Needs = {0, 1, 4}
  MaxHeld = 2
  Blk = {"b1", "b2", "b3"}
  Var = {"v1"}
  MaxCopies = 2
  MaxScopes = 2
  Pregs = {"p1", "p2", "p3", "p4"}
  Patterns = {"KB", "th"}
  Abbrevs = {"KB"}
  FirstCap = 2
  MaxProgs = 3
  Natives = {"n1", "n2", "n3", "n4"}
  Boxes = {"x1", "x2", "x3"}
  Top = 3
  Reach = 2
  Midway = 2
  Start = 0
  MaxTable = 1
  MaxTries = 1
  Sizes = {1}
  AskedAt = {1}
  Outputs = {"e", "k"}
  MaxMarked = 2
  MaxFrames = 2
  Capacity = 1
  MaxRequest = 2
  MaxSlice = 2
  MaxPull = 1
  Lookbehind = 1
  Files = {"engine", "voice", "dictionary"}
  Engine = "engine"
  MaxKill = 1

SPECIFICATION LibrarySpec
INVARIANTS
  TextRead
  Linked
  Transforms
  ValuesCarried
  ReferencesHeld
  MemorySound
  SpeechHeard
PROPERTIES
  OnlyProvenGoes
CHECK_DEADLOCK FALSE
