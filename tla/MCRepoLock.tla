------------------------------ MODULE MCRepoLock -------------------------------
\* Small instances of RepoLock for TLC: at most two backups, a reader and two
\* maintenance commands.
EXTENDS RepoLock

CONSTANTS b1, b2, r1, m1, m2
================================================================================
