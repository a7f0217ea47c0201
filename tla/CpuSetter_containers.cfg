CONSTANTS
  NumCPU = 8
  Pools <- FourPools
  HTSiblings <- FarSiblings
  NodeOf <- TwoNodes
  CoreOf <- SameCore
  Pods = {p}
  NoPod = NoPod
  Names <- OneName
  Name <- SameName
  Local = {p}
  Containers <- CAndD
  SpecContainers <- TwoContainers
  Requests <- Mixed
  Workers = {w}
  MaxRetryCount = 2
  MaxStarts = 1
  Restarting = {p}
  MaxCrashes = 0
  MaxFaults = 0
  TickerFires = TRUE
  NodeReadMayFail = FALSE
SPECIFICATION Spec
INVARIANTS
  Isolation
  OwnCpusOnly
  AllocatedCpusGranted
  SiblingsUnassigned
  EmulationAgrees
PROPERTIES
  SetOnce
CHECK_DEADLOCK FALSE
