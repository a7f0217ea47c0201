SPECIFICATION FairSpec
CONSTANTS
  NumCPU = 16
  Pools <- SixPools
  HTSiblings <- Siblings
  NodeOf <- TwoNodes
  CoreOf <- SameCore
  Cases <- EveryKind
  MaxPolls = 3
  Threads = {t1, t2}
INVARIANTS
  TypeOK
  EntrypointProvisioned
  MasksDisjoint
  CpusTogether
  PreferredComplete
PROPERTIES
  StarterProceeds
CHECK_DEADLOCK FALSE
