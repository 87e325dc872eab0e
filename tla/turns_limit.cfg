SPECIFICATION Spec
CONSTANTS
  coder = coder
  general = general
  Tokens = {x, y}
  Models = {coder}
  NoModel = NoModel
  Hash <- SameHash
  Identity <- OwnIdentity
  NoId = NoId
  Broken = {}
  Budgets = {4}
  MaxOutputs = {1}
  MaxPrompt = 3
  NoCell = NoCell
  NoFile = NoFile
  EosInTime = FALSE
  Unloads = {}
INVARIANT ReusedPrefixComputed
