SPECIFICATION FairSpec
CONSTANTS
    b1 = b1  b2 = b2  r1 = r1  m1 = m1  m2 = m2
    None = None
    Backups = {b1}
    Readers = {r1}
    Maints = {m1}
    StaleLock = 3
    MaxUnrefreshed = 2
    RefreshInterval = 1
    StaleSession = 3
    ProbeAttempts = 2
    CommitAttempts = 2
    MaxWrites = 1
    MaxTime = 0
    MaxCrashes = 1
    MaxBreaks = 0
    SameHost = TRUE
    Flaky = FALSE
INVARIANTS
  MaintenanceExcludesSessions
PROPERTIES
  EveryProcessEnds
CHECK_DEADLOCK FALSE
