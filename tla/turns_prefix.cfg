SPECIFICATION Spec
CONSTANTS
  coder = coder
  general = general
  Tokens = {x, y}
  Models = {coder}
  NoModel = NoModel
  Hash <- SameHash
  Identity <- OwnIdentity
  NoId = NoId
  Broken = {}
  Budgets = {5}
  MaxOutputs = {1, 3}
  MaxPrompt = 5
  NoCell = NoCell
  NoFile = NoFile
  EosInTime = TRUE
  Unloads = {}
INVARIANT ReusedPrefixComputed
