SPECIFICATION Spec
CONSTANTS
  Callers = {p1, p2}
  Targets = {t1, t2}
  NoUID = NoUID
  NoCRD = NoCRD
  NoOp = NoOp
  NoSnap = NoSnap
  MaxAttempts = 2
  MaxVersion = 4
SYMMETRY ClientSymmetry
PROPERTIES ImplementsObject StaleSparesLive
CHECK_DEADLOCK FALSE
