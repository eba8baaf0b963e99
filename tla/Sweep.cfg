\* One minor for all: every connection takes over that of the one before it.
SPECIFICATION Spec
CONSTANTS
  c1 = c1
  c2 = c2
  c3 = c3
  v1 = v1
  v2 = v2
  Conns = {c1, c2, c3}
  Minors = {m1}
  Mode <- OneOfEach
  Owners = {v1, v2}
  Owner <- PodOfSidecar
  NoMinor = NoMinor
  OrphanConfirmSweeps = 2
  MaxFaults = 1
INVARIANTS AbortedIsConfirmed
PROPERTIES SparesServed SparesHandoff OrphanAborted
