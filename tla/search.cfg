SPECIFICATION Spec
CONSTANTS
  Threads = {t1, t2}
  Files = {a, b}
  NoFile = NoFile
  Contents = {"v1", "v2"}
  NoContent = NoContent
  Chunks <- Parsed
  Words = {"cache", "put"}
  NamesWith <- Naming
  Notes <- Memories
  NoName = NoName
  TopK = 3
  MaxCalls = 3
SYMMETRY Symmetry
INVARIANTS
  TypeOK
  SettledIndex
  ResultsDistinct
  NothingBetterHidden
