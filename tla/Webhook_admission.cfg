SPECIFICATION Spec
CONSTANTS
  Templates <- AnyPod
  Sidecars <- AnySidecar
  ConfigSets <- AnyConfigSet
  NoPod = NoPod
  MaxEdits = 1
  MaxFaults = 1
INVARIANTS
  TypeOK
  StarterInPlace
  CommandKept
  QuotaCovers
  UpdatesAccepted
  PatchedIsValid
CHECK_DEADLOCK FALSE
