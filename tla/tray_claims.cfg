SPECIFICATION FairSpec
CONSTANTS
  Workers = {w1}
  Main = main
  Handler = handler
  Pids = {p1, p2}
  Polls = 2
  None = None
CHECK_DEADLOCK FALSE
\* Each of these is refuted; check one at a time.
INVARIANT NoEngineOutlivesTray
\* PROPERTY SignalEndsTray
