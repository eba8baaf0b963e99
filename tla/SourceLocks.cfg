\* Three goroutines over two sources; one refMutex object per goroutine is
\* enough, since at most that many can be reachable at once.
SPECIFICATION Spec
CONSTANTS
  Procs = {p1, p2, p3}
  Sources = {s1, s2}
  Locks = {l1, l2, l3}
  NoLock = NoLock
  NoProc = NoProc
INVARIANTS MutualExclusion EntryIffReferenced
PROPERTIES Served ImplementsMutex
CHECK_DEADLOCK TRUE
