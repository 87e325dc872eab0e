SPECIFICATION FairSpec
CONSTANTS
  Workers = {w1, w2}
  NoWorker = NoWorker
  Sessions = {1, 2}
  NoSession = NoSession
  general = general
  coder = coder
  Names = {general, coder}
  NoName = NoName
  Accepts <- OwnOnly
  Asks <- TwoModelsOnOne
  Objs <- MCObjs
  NoObj = 0
  MaxActive = 1
  MaxTurns = 2
  Maintenance = {"flush", "drop", "clear"}
INVARIANTS
  OneInferencePerName
  StatesArePrivate
  LockOrder
PROPERTIES
  CheckpointKeepsTurns
  CacheUnlocks
