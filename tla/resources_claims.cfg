SPECIFICATION HostSpec
CONSTANTS
  router = router
  general = general
  coder = coder
  audio_stt = audio_stt
  m1 = m1
  m2 = m2
  m3 = m3
  m4 = m4
  f1 = f1
  f2 = f2
  f3 = f3
  Total <- HostMemory
  Others <- OtherUse
  Base <- BaseUse
  BudgetPct = 50
  HeadroomPct = 110
  Vram <- FreeVram
  Roles = {router, general, coder, audio_stt}
  Priority <- RolePriority
  Router = router
  OnDemand = {audio_stt}
  ModelIds = {m1, m2, m3, m4}
  NoModelId = NoModelId
  File <- ModelFile
  Size <- FileSize
  NoFile = NoFile
  Bindings <- RoleBindings
  Named = {m2}
  Shares = {10, 100}
  Sessions = {s1, s2}
  Shapes <- Requests
  Window = 8192
  TokenSize = 256
  MaxTurns = 2
\* Each of these is refuted; check one at a time.
INVARIANT RamWithinCeiling
\* INVARIANT GpuWithinCeiling
\* INVARIANT PromptFits
