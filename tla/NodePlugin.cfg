SPECIFICATION Spec
CONSTANTS
  StartupTaints = {s1}
  OtherTaints = {o1}
  MaxChanges = 1
  Volumes = {v1, f1}
  Ours = {v1}
  Wedged = {f1}
  NoVolume = NoVolume
  MaxCalls = 1
  MaxFaults = 2
PROPERTIES OthersTaintsKept TaintLifted FileOfKubeletKept PartialOnlyUnremoved Unwedged StopsByItself
