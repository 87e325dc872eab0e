SPECIFICATION Spec
CONSTANTS
  engine = engine
  tray = tray
  e1 = e1
  e2 = e2
  t1 = t1
  t2 = t2
  secret = secret
  port = port
  d = d
  a = a
  Procs = {tray}
  Threads = {t1, t2}
  Owner <- OwnerOf
  Main <- MainOf
  Engine = engine
  Posters = {t1, t2}
  Order <- KeyOrder
  Secret = secret
  Bodies <- OppositeBodies
  Values = {d, a}
  Default = d
  Generated = a
  Absent = Absent
  MaxCalls = 2
INVARIANTS
  SetIsRead
