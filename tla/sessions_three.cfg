SPECIFICATION Spec
CONSTANTS
  Workers = {w1, w2, w3}
  NoWorker = NoWorker
  Sessions = {1, 2}
  NoSession = NoSession
  general = general
  coder = coder
  Names = {general, coder}
  NoName = NoName
  Accepts <- OwnOnly
  Asks <- AllPairs
  Objs <- MCObjs
  NoObj = 0
  MaxActive = 1
  MaxTurns = 1
  Maintenance = {"flush", "drop", "clear"}
SYMMETRY CallerSymmetry
INVARIANTS
  TypeOK
  ActiveBounded
  OneInferencePerName
  StatesArePrivate
  LockOrder
PROPERTY CheckpointKeepsTurns
