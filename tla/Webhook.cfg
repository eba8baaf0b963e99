\* Two volumes of every kind, three grace periods around the minimum.
SPECIFICATION Spec
CONSTANTS
  MaxQuantity = 2
  DefaultMountMemoryRequest = 2
  DefaultMountMemoryRequestReadOnly = 1
  Volume <- MCVolume
  MaxVolumes = 2
  MinTerminationGracePeriodSeconds = 2
  Graces <- MCGraces
  Formats = {json, text}
  NoSidecar = NoSidecar
  NoMountPod = NoMountPod
INVARIANTS ExpectsWhatComes RequestWithinLimit  WritersGetMemory GraceHonoured
PROPERTIES HealedAlike
CHECK_DEADLOCK FALSE
