SPECIFICATION Spec
CONSTANTS
    b1 = b1  b2 = b2  r1 = r1  m1 = m1  m2 = m2
    None = None
    Backups = {b1, b2}
    Readers = {}
    Maints = {}
    StaleLock = 3
    MaxUnrefreshed = 2
    RefreshInterval = 1
    StaleSession = 3
    ProbeAttempts = 1
    CommitAttempts = 1
    MaxWrites = 1
    MaxTime = 0
    MaxCrashes = 0
    MaxBreaks = 0
    SameHost = TRUE
    Flaky = FALSE
INVARIANT AtMostOneHolder
CHECK_DEADLOCK FALSE
