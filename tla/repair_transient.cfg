SPECIFICATION CheckSpec
CONSTANTS
  CheckScenes <- RemoteFailure
  BatchThreshold = 2
  VerifyBatch = 2
  VerifyBytes = 6
INVARIANT HealthyKept
CHECK_DEADLOCK FALSE
