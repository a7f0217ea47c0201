CONSTANTS
  NumCPU = 3
  Pools <- TwoPools
  HTSiblings <- PairSiblings
  NodeOf <- OneNode
  CoreOf <- SameCore
  Pods = {p, q}
  NoPod = NoPod
  Names <- OneName
  Name <- SameName
  Local = {p}
  Containers <- JustC
  SpecContainers <- OneContainer
  Requests <- ExclusiveEach
  Workers = {v, w}
  MaxRetryCount = 1
  MaxStarts = 2
  Restarting = {p}
  MaxCrashes = 0
  MaxFaults = 0
  TickerFires = TRUE
  NodeReadMayFail = FALSE
SPECIFICATION Spec
INVARIANTS
  TypeOK
  HandlesStartedPods
  Confined
  EmulationAgrees
PROPERTIES
  ImplementsCpusetSpec
SYMMETRY WorkerSymmetry
CHECK_DEADLOCK FALSE
