SPECIFICATION FairSpec
CONSTANTS
  Workers = {w1, w2}
  NoWorker = NoWorker
  Sessions = {1, 2, 3}
  NoSession = NoSession
  general = general
  coder = coder
  Names = {general, coder}
  NoName = NoName
  Accepts <- OwnOnly
  Asks <- AllPairs
  Objs <- MCObjs
  NoObj = 0
  MaxActive = 2
  MaxTurns = 1
  Maintenance = {}
PROPERTY TurnCheckpointed
