SPECIFICATION Spec
CONSTANTS
  Targets = {t1}
  Sources = {s1}
  MountID <- OwnSource
  Slots = {g1}
  NoUID = NoUID
  NoCRD = NoCRD
  NoSlot = NoSlot
  NoSource = NoSource
  NoTarget = NoTarget
  UnmountBound = 2
  CrashLoopRestartThreshold = 2
  MaxGen = 2
  MaxDepth = 3
  MaxFaults = 1
  FaultKinds = {"crash", "terminal", "evict", "leak", "restart", "overlap", "bind", "slow", "api"}
  PeriodicCleanup = TRUE
  PodInfoOnMount = TRUE
INVARIANTS TypeOK
PROPERTIES ServiceKept Served Reclaimed PodReclaimed
