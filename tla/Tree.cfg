SPECIFICATION Spec
CONSTANTS
  MaxTitle = 4
  MaxOpt = 4
  MaxSeg = 6
  MaxDepth = 10
  MaxKey = 20
  MaxValue = 3
  MaxPayload = 24
  MaxSect = 2
  MaxAry = 3
  Ids = {1, 2, 3, 4, 5, 6, 7, 8, 9, 10}
  MaxRequests = 5
  Atof <- MCAtof
  Fmt3 <- MCFmt3
  Texts <- MCTexts
  Dirs <- MCDirs
  FileCap = 7
  MaxArch = 2
  BootFiles <- MCBootFiles
  ConfigDirs <- MCConfigDirs
  Checkpoints <- MCCheckpoints
INVARIANTS NodesMatchDocument ReadsAgree
PROPERTIES UpdateExact AnswerStored CheckpointsListed
CHECK_DEADLOCK FALSE
