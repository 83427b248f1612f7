SPECIFICATION StorageSpec
CONSTANTS
  c1 = c1
  c2 = c2
  p1 = p1
  p2 = p2
  p3 = p3
  Calls = {c1, c2}
  ServerScenes <- LostReply
  MaxRetries = 1
  Clients = {p1, p2, p3}
  Keys = {1, 2, 3, 4}
  DirOf <- MCDirOf
  MaxConnections = 1
  BackendScenes <- OnlyNoStore
INVARIANT RepackedIndexResolves
CHECK_DEADLOCK FALSE
