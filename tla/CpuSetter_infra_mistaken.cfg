CONSTANTS
  NumCPU = 4
  Pools <- ThreePools
  HTSiblings <- NoSiblings
  NodeOf <- OneNode
  CoreOf <- SameCore
  Pods = {p}
  NoPod = NoPod
  Names <- OneName
  Name <- SameName
  Local = {p}
  Containers <- JustC
  SpecContainers <- OneContainer
  Requests <- ExclusiveEach
  Workers = {w}
  MaxRetryCount = 2
  MaxStarts = 2
  Restarting = {p}
  MaxCrashes = 0
  MaxFaults = 0
  TickerFires = TRUE
  NodeReadMayFail = FALSE
SPECIFICATION Spec
INVARIANTS
  OwnCpusOnly
CHECK_DEADLOCK FALSE
