SPECIFICATION MCSpec
CONSTANTS
  Targets = {t1, t2}
  Volumes = {v1, v2}
  Minors = {m1, m2}
  None = None
  Stale = Stale
  Slots = {1, 2}
  MinorReuse = FALSE
  MaxFaults = 0
INVARIANT ListensInOwnDir
CHECK_DEADLOCK FALSE
