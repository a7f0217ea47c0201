SPECIFICATION FairSpec
CONSTANTS
  Configs <- UsualOnly
  NoPool = NoPool
  NoLabels = NoLabels
  DialRetry = 2
  ReadMayFail = FALSE
  MaxKubeletStarts = 3
  MaxLaunches = 1
  MaxEdits = 0
PROPERTIES
  ReRegisters
CHECK_DEADLOCK FALSE
