SPECIFICATION FairSpec
CONSTANTS
  general = general
  coder = coder
  router = router
  unknown = unknown
  Threads = {t1, t2}
  NoThread = NoThread
  NoModel = NoModel
  Models = {general, coder}
  Registered <- MCGguf
  Gguf <- MCGguf
  GpuPreferred <- MCGguf
  BudgetRoles = {coder}
  Bytes <- MCBytes
  SafeCeiling = 3
  GpuAvailable = TRUE
PROPERTY IdleModelUnloaded
CHECK_DEADLOCK FALSE
