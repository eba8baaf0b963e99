SPECIFICATION SafeSpec
CONSTANTS
  Targets = {t1}
  Sources = {s1}
  MountID <- OwnSource
  Slots = {g1, g2}
  NoUID = NoUID
  NoCRD = NoCRD
  NoSlot = NoSlot
  NoSource = NoSource
  NoTarget = NoTarget
  UnmountBound = 1
  CrashLoopRestartThreshold = 1
  MaxGen = 2
  MaxDepth = 2
  MaxFaults = 1
  FaultKinds = {"crash", "terminal", "evict", "bind", "slow", "api"}
  PeriodicCleanup = FALSE
  PodInfoOnMount = TRUE
INVARIANTS UnpublishedIsBare
PROPERTIES StackUnderLock ServiceKept
SYMMETRY SlotSymmetry
