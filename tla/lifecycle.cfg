SPECIFICATION FairSpec
CONSTANTS
  general = general
  coder = coder
  router = router
  unknown = unknown
  Threads = {t1, t2}
  NoThread = NoThread
  NoModel = NoModel
  Models <- MCModels
  Registered <- MCRegistered
  Gguf <- MCGguf
  GpuPreferred <- MCGguf
  BudgetRoles = {coder}
  Bytes <- MCBytes
  SafeCeiling = 3
  GpuAvailable = TRUE
INVARIANTS
  UsersCountLeases
  AdmissionStillHolds
  VramAccounted
PROPERTY ImplementsLeasePool
CHECK_DEADLOCK FALSE
PROPERTY ManagerUnlocks
