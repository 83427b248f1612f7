SPECIFICATION DataSpec
CONSTANTS
  c1 = c1
  c2 = c2
  p1 = p1
  p2 = p2
  p3 = p3
  Calls = {c1, c2}
  ServerScenes <- MCServers
  MaxRetries = 1
  Clients = {p1, p2, p3}
  Keys = {1, 2, 3, 4}
  DirOf <- MCDirOf
  MaxConnections = 1
  BackendScenes <- MCStores
  WriteScenes <- DataWrites
  WriteChunks = {1, 2, 3, 4, 5, 6, 7, 101, 102, 103, 104, 105, 106, 107}
  TreeBase = 100
  StreamItems = 3
  BatchFiles = 2
  BatchChunks = 2
  MaxUploads = 1
  Headroom = 1
  JournalEvery = 2
  TargetBase = 2
  CacheScenes <- DataCaches
  CacheChunks = {1, 2, 3, 4}
  MaxGeneration = 9
  FileScenes <- DataFiles
  SizeOf <- MCSizeOf
  LimitScenes <- DataLimits
INVARIANTS
  StorageInv
  QuotaKept
  KeptBlobsSurvive
  PoolConserved
  
  LossBounded
  
  
  
PROPERTIES
  
  ImplementsObjectStore
  RollbackExact
  
  
  DataPathEnds
CHECK_DEADLOCK FALSE
