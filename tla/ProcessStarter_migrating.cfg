SPECIFICATION Spec
CONSTANTS
  NumCPU = 16
  Pools <- SixPools
  HTSiblings <- Siblings
  NodeOf <- TwoNodes
  CoreOf <- SameCore
  Cases <- FirstStarts
  MaxPolls = 3
  Threads = {t1, t2}
INVARIANTS
  PinnedToAllocated
CHECK_DEADLOCK FALSE
