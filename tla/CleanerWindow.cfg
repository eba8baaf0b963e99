SPECIFICATION SafeSpec
CONSTANTS
  Targets = {t1}
  Sources = {s1}
  MountID <- OwnSource
  Slots = {g1, g2}
  NoUID = NoUID
  NoCRD = NoCRD
  NoSlot = NoSlot
  NoSource = NoSource
  NoTarget = NoTarget
  UnmountBound = 1
  CrashLoopRestartThreshold = 1
  MaxGen = 2
  MaxDepth = 2
  MaxFaults = 0
  FaultKinds = {}
  PeriodicCleanup = TRUE
  PodInfoOnMount = TRUE
PROPERTIES CleanerSparesMounting
