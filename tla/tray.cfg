SPECIFICATION FairSpec
CONSTANTS
  Workers = {w1}
  Main = main
  Handler = handler
  Pids = {p1, p2}
  Polls = 2
  None = None
INVARIANTS
  OwnChildrenOnly
  KnownEngines
PROPERTIES
  StopEnds
  QuitEnds
  MenuFollows
CHECK_DEADLOCK FALSE
