CONSTANTS
  NumCPU = 6
  Pools <- HyperthreadPools
  HTSiblings <- HyperthreadSiblings
  NodeOf <- OneNode
  CoreOf <- SameCore
  Pods = {p, q}
  NoPod = NoPod
  Names = {p, q}
  Name <- OwnName
  Local = {p, q}
  Containers <- JustC
  SpecContainers <- OneContainer
  Requests <- ExclusiveEach
  Workers = {w}
  MaxRetryCount = 2
  MaxStarts = 1
  Restarting = {p}
  MaxCrashes = 0
  MaxFaults = 0
  TickerFires = FALSE
  NodeReadMayFail = FALSE
SPECIFICATION Spec
INVARIANTS
  Isolation
CHECK_DEADLOCK FALSE
