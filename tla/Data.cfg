SPECIFICATION Spec
CONSTANTS
  Keys = {1, 2, 3, 4, 5, 6, 7}
  Size = 4
  Wrap = 16
  MaxIo = 5
  BufferSize = 4
  MaxPacket = 9
  Streams <- SafeStreams
  DictKeys = {0, 2, 6}
  Bits = 3
  InitialExp = 0
  ForceRatio = 1
  EmptyVisits = 2
  Seeds <- JsonSeeds
  Words <- JsonWords
  MaxEdits = 2
  Short = 7
  NestingLimit = 2
  DefaultSize = 2
  WordBits = 11
  Chunks = {0, 1, 8, 55, 56, 64, 130, 260}
  Longest = 130
  MaxUpdates = 3
  Inputs <- HashInputs
  MaxCrc = 5
  DesJobs <- HashJobs
  RecvSize = 4
  MaxSize = 9
  WinStreams <- PortStreams
INVARIANTS
  RingIsQueue
  FramesWhole
  JsonExact
  PrintExact
  HashExact
PROPERTIES
  AvlExact
  DictExact
CHECK_DEADLOCK FALSE
