SPECIFICATION EngineSpec
CONSTANTS
  Workers = {w1, w2}
  SessionIds = {1}
  read = read
  Tools = {read}
  Queries <- MCQueries
  NoName = NoName
  MaxSessions = 2
  MaxClock = 0
  Overlap = {1}
PROPERTY StateIsMaintained
