SPECIFICATION EngineSpec
CONSTANTS
  Workers = {w1}
  SessionIds = {1}
  read = read
  Tools = {read}
  Queries <- MCQueries
  NoName = NoName
  MaxSessions = 2
  MaxClock = 0
  Overlap = {}
SYMMETRY Symmetry
INVARIANT ToolsOutliveTurns
