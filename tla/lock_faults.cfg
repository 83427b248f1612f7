SPECIFICATION Spec
CONSTANTS
    b1 = b1  b2 = b2  r1 = r1  m1 = m1  m2 = m2
    None = None
    Backups = {b1}
    Readers = {}
    Maints = {m1}
    StaleLock = 2
    MaxUnrefreshed = 1
    RefreshInterval = 1
    StaleSession = 2
    ProbeAttempts = 1
    CommitAttempts = 1
    MaxWrites = 1
    MaxTime = 3
    MaxCrashes = 1
    MaxBreaks = 1
    SameHost = TRUE
    Flaky = TRUE
INVARIANTS
  FencedWriteOwnsLock

  
CHECK_DEADLOCK FALSE
