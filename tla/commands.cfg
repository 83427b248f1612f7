SPECIFICATION CommandSpec
CONSTANTS
  CheckScenes <- AnyChecks
  BatchThreshold = 2
  VerifyBatch = 2
  VerifyBytes = 6
  RestoreScenes <- AnyRestores
  RestoreThreads = {1, 2}
  MaxGap = 3
  MaxRead = 6
  MaxBatch = 3
  MaxHandles = 1
  MountScenes <- AnyMounts
  MountClients = {c1, c2}
  CacheSize = 2
  ReadCounts = {2, 9}
  Seeks <- MCSeeks
  MountOps = 3
  CycleScenes <- AnyCycles
  DeskScenes <- AnyDesktops
  TreeScenes <- AnyTrees
  RetScenes <- AnyRetentions
  Labels = {"a", "b"}
  Bucket <- MCBucket
  FindScenes <- AnyFinds
INVARIANTS
  
  
  
  
  CycleOrderly
  ReportsHonest
  
  TreeFaithful
  FindExact
PROPERTIES
  
  CommandsEnd
CHECK_DEADLOCK FALSE
