SPECIFICATION FairSpec
CONSTANTS
  Configs <- AnyConfig
  NoPool = NoPool
  NoLabels = NoLabels
  DialRetry = 2
  ReadMayFail = TRUE
  MaxKubeletStarts = 2
  MaxLaunches = 2
  MaxEdits = 1
INVARIANTS
  TypeOK
  ServersManaged
  RegisteredServed
  OneSharedPool
  PreferredAnswered
PROPERTIES
  RegistersEveryPool
CHECK_DEADLOCK FALSE
