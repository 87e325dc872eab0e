SPECIFICATION Spec
CONSTANTS
  coder = coder
  general = general
  Tokens = {x, y}
  Models = {coder, general}
  NoModel = NoModel
  Hash <- SameHash
  Identity <- OwnIdentity
  NoId = NoId
  Broken = {general}
  Budgets = {2, 3}
  MaxOutputs = {1, 2}
  MaxPrompt = 3
  NoCell = NoCell
  NoFile = NoFile
  EosInTime = FALSE
  Unloads = {"evict", "restart", "torn"}
INVARIANTS
  WithinContext
  CellsAreNamed
