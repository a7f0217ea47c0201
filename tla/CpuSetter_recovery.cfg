CONSTANTS
  NumCPU = 4
  Pools <- ThreePools
  HTSiblings <- NoSiblings
  NodeOf <- OneNode
  CoreOf <- SameCore
  Pods = {p}
  NoPod = NoPod
  Names <- OneName
  Name <- SameName
  Local = {p}
  Containers <- JustC
  SpecContainers <- OneContainer
  Requests <- ExclusiveEach
  Workers = {w}
  MaxRetryCount = 2
  MaxStarts = 1
  Restarting = {p}
  MaxCrashes = 1
  MaxFaults = 1
  TickerFires = TRUE
  NodeReadMayFail = FALSE
SPECIFICATION FairSpec
INVARIANTS
  AnnotationTruthful
PROPERTIES
  EventuallyProvisioned
  WorkersReturn
CHECK_DEADLOCK FALSE
