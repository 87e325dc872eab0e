SPECIFICATION EngineSpec
CONSTANTS
  Workers = {w1, w2}
  SessionIds = {1, 2}
  read = read
  Tools = {read}
  Queries <- MCQueries
  NoName = NoName
  MaxSessions = 1
  MaxClock = 1
  Overlap = {1}
INVARIANT RegistryConsistent
INVARIANT CatalogHasSession
PROPERTY ResultsAreKept
