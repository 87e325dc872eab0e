SPECIFICATION FairSpec
CONSTANTS
  engine = engine
  tray = tray
  e1 = e1
  e2 = e2
  t1 = t1
  t2 = t2
  secret = secret
  port = port
  d = d
  a = a
  Procs = {engine, tray}
  Threads = {e1, e2, t1}
  Owner <- OwnerOf
  Main <- MainOf
  Engine = engine
  Posters = {t1}
  Order <- KeyOrder
  Secret = secret
  Bodies <- PostedBodies
  Values = {d, a}
  Default = d
  Generated = a
  Absent = Absent
  MaxCalls = 1
INVARIANTS
  ReaderKnows
PROPERTIES
  EngineCatchesUp
