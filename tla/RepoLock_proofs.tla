---------------------------- MODULE RepoLock_proofs ----------------------------
(***************************************************************************)
(* The inductive invariant of RepoLock and the theorems that follow from   *)
(* it, for any number of processes and any value of the time-outs.  First  *)
(* types, distinct keys, the phases of a process and the markers of the    *)
(* sessions; then the exclusion of sessions by maintenance and how old a   *)
(* lock object can be; then the theorems.                                  *)
(***************************************************************************)
EXTENDS RepoLock, TLAPS

\* The lock keys on storage are numbers.
LEMMA KeysAreNat == TypeOK => LockKeys \subseteq Nat
BY Zenon DEF TypeOK, LockKeys

\* Type correctness is inductive by itself.
LEMMA TypeInductive == TypeOK /\ [Next]_vars => TypeOK'
<1> SUFFICES ASSUME TypeOK, [Next]_vars PROVE TypeOK'
  OBVIOUS
<1>0. LockKeys \subseteq Nat
  BY KeysAreNat, Zenon
<1> USE LockAssumption DEF TypeOK, PCs, Procs, Sessions, storageVars, clockVars,
                           fenceVars, scanVars, historyVars, boundVars
<1>1. ASSUME NEW p \in Procs, CleanupStaleLocks(p) PROVE TypeOK'
  BY <1>1, SMTT(30) DEF CleanupStaleLocks, Outcomes
<1>2. ASSUME NEW p \in Procs, Stamp(p) PROVE TypeOK'
  BY <1>2, SMTT(30) DEF Stamp, Removals, Without
<1>3. ASSUME NEW p \in Procs, PutLock(p) PROVE TypeOK'
  BY <1>3, SMTT(30) DEF PutLock, Outcomes
<1>4. ASSUME NEW p \in Procs, LockWon(p) PROVE TypeOK'
  BY <1>4, SMTT(30) DEF LockWon, WinsLock
<1>5. ASSUME NEW p \in Procs, LockLost(p) PROVE TypeOK'
  BY <1>5, SMTT(30) DEF LockLost, WinsLock
<1>6. ASSUME NEW p \in Procs, ListFailed(p) PROVE TypeOK'
  BY <1>6, Zenon DEF ListFailed
<1>7. ASSUME NEW p \in Procs, Withdraw(p) PROVE TypeOK'
  BY <1>7, SMTT(30) DEF Withdraw, AttemptsLeft, Removals, Without, DropGuard
<1>8. ASSUME NEW p \in Procs, Refused(p) PROVE TypeOK'
  BY <1>8, SMTT(30) DEF Refused, DropGuard
<1>9. ASSUME NEW p \in Procs, RegisterSession(p) PROVE TypeOK'
  BY <1>9, SMTT(30) DEF RegisterSession, BeginAcquire
<1>10. ASSUME NEW p \in Procs, ReleaseProbe(p) PROVE TypeOK'
  BY <1>10, SMTT(30) DEF ReleaseProbe, Outcomes, Without, DropGuard
<1>11. ASSUME NEW p \in Procs, LeaveSession(p) PROVE TypeOK'
  BY <1>11, Zenon DEF LeaveSession
<1>12. ASSUME NEW p \in Procs, BeginCommit(p) PROVE TypeOK'
  BY <1>12, SMTT(30) DEF BeginCommit, BeginAcquire
<1>13. ASSUME NEW p \in Procs, DeregisterSession(p) PROVE TypeOK'
  BY <1>13, ZenonT(30) DEF DeregisterSession, Outcomes
<1>14. ASSUME NEW p \in Procs, BeginMaintenance(p) PROVE TypeOK'
  BY <1>14, SMTT(30) DEF BeginMaintenance, BeginAcquire
<1>15. ASSUME NEW p \in Procs, ScanStaleSessions(p) PROVE TypeOK'
  BY <1>15, Zenon DEF ScanStaleSessions
<1>16. ASSUME NEW p \in Procs, ReapStaleSessions(p) PROVE TypeOK'
  BY <1>16, SMTT(30) DEF ReapStaleSessions, Removals
<1>17. ASSUME NEW p \in Procs, CheckSessions(p) PROVE TypeOK'
  BY <1>17, ZenonT(30) DEF CheckSessions, NoSessions, Outcomes
<1>18. ASSUME NEW p \in Procs, FencePass(p) PROVE TypeOK'
  BY <1>18, SMTT(30) DEF FencePass, Outcomes, Without
<1>19. ASSUME NEW p \in Procs, FenceFail(p) PROVE TypeOK'
  BY <1>19, Zenon DEF FenceFail, WindUp
<1>20. ASSUME NEW p \in Procs, GuardedWrite(p) PROVE TypeOK'
  BY <1>20, SMTT(30) DEF GuardedWrite
<1>21. ASSUME NEW p \in Procs, FinishWrites(p) PROVE TypeOK'
  BY <1>21, Zenon DEF FinishWrites, WindUp
<1>22. ASSUME NEW p \in Procs, ReleaseLock(p) PROVE TypeOK'
  BY <1>22, SMTT(30) DEF ReleaseLock, Removals, Without, DropGuard
<1>23. ASSUME NEW p \in Procs, Crash(p) PROVE TypeOK'
  BY <1>23, SMTT(30) DEF Crash, DropGuard
<1>24. ASSUME NEW s \in Sessions, RefreshSession(s) PROVE TypeOK'
  BY <1>24, Zenon DEF RefreshSession
<1>25. CASE Tick
  BY <1>25, SMTT(30) DEF Tick
<1>26. CASE BreakLock
  BY <1>26, <1>0, SMTT(30) DEF BreakLock
<1>27. CASE ClearAllSessions
  BY <1>27, Zenon DEF ClearAllSessions
<1>28. CASE UNCHANGED vars
  BY <1>28, Zenon DEF vars
<1> QED
  BY <1>1, <1>2, <1>3, <1>4, <1>5, <1>6, <1>7, <1>8, <1>9, <1>10, <1>11, <1>12,
     <1>13, <1>14, <1>15, <1>16, <1>17, <1>18, <1>19, <1>20, <1>21, <1>22,
     <1>23, <1>24, <1>25, <1>26, <1>27, <1>28, ZenonT(30)
     DEF Next, Step

\* Keys stay distinct: each is stamped with a fresh position.
LEMMA KeysInductive ==
    TypeOK /\ KeysInv /\ [Next]_vars => KeysInv'
<1> SUFFICES ASSUME TypeOK, KeysInv, [Next]_vars
             PROVE  KeysInv'
  OBVIOUS
<1> USE LockAssumption DEF TypeOK, KeysInv, PCs, Procs, Sessions, storageVars,
                           clockVars, fenceVars, scanVars, historyVars,
                           boundVars
<1>1. ASSUME NEW p \in Procs, CleanupStaleLocks(p) PROVE KeysInv'
  BY <1>1, SMTT(30) DEF CleanupStaleLocks, Outcomes
<1>2. ASSUME NEW p \in Procs, Stamp(p) PROVE KeysInv'
  BY <1>2, SMTT(30) DEF Stamp, Removals, Without
<1>3. ASSUME NEW p \in Procs, PutLock(p) PROVE KeysInv'
  BY <1>3, SMTT(30) DEF PutLock, Outcomes
<1>4. ASSUME NEW p \in Procs, LockWon(p) PROVE KeysInv'
  BY <1>4, Zenon DEF LockWon, WinsLock
<1>5. ASSUME NEW p \in Procs, LockLost(p) PROVE KeysInv'
  BY <1>5, Zenon DEF LockLost, WinsLock
<1>6. ASSUME NEW p \in Procs, ListFailed(p) PROVE KeysInv'
  BY <1>6, Zenon DEF ListFailed
<1>7. ASSUME NEW p \in Procs, Withdraw(p) PROVE KeysInv'
  BY <1>7, Zenon DEF Withdraw, AttemptsLeft, Removals, Without, DropGuard
<1>8. ASSUME NEW p \in Procs, Refused(p) PROVE KeysInv'
  BY <1>8, Zenon DEF Refused, DropGuard
<1>9. ASSUME NEW p \in Procs, RegisterSession(p) PROVE KeysInv'
  BY <1>9, Zenon DEF RegisterSession, BeginAcquire
<1>10. ASSUME NEW p \in Procs, ReleaseProbe(p) PROVE KeysInv'
  BY <1>10, SMTT(30) DEF ReleaseProbe, Outcomes, Without, DropGuard
<1>11. ASSUME NEW p \in Procs, LeaveSession(p) PROVE KeysInv'
  BY <1>11, Zenon DEF LeaveSession
<1>12. ASSUME NEW p \in Procs, BeginCommit(p) PROVE KeysInv'
  BY <1>12, Zenon DEF BeginCommit, BeginAcquire
<1>13. ASSUME NEW p \in Procs, DeregisterSession(p) PROVE KeysInv'
  BY <1>13, Zenon DEF DeregisterSession, Outcomes
<1>14. ASSUME NEW p \in Procs, BeginMaintenance(p) PROVE KeysInv'
  BY <1>14, Zenon DEF BeginMaintenance, BeginAcquire
<1>15. ASSUME NEW p \in Procs, ScanStaleSessions(p) PROVE KeysInv'
  BY <1>15, Zenon DEF ScanStaleSessions
<1>16. ASSUME NEW p \in Procs, ReapStaleSessions(p) PROVE KeysInv'
  BY <1>16, Zenon DEF ReapStaleSessions, Removals
<1>17. ASSUME NEW p \in Procs, CheckSessions(p) PROVE KeysInv'
  BY <1>17, SMTT(30) DEF CheckSessions, NoSessions, Outcomes
<1>18. ASSUME NEW p \in Procs, FencePass(p) PROVE KeysInv'
  BY <1>18, SMTT(30) DEF FencePass, Outcomes, Without
<1>19. ASSUME NEW p \in Procs, FenceFail(p) PROVE KeysInv'
  BY <1>19, Zenon DEF FenceFail, WindUp
<1>20. ASSUME NEW p \in Procs, GuardedWrite(p) PROVE KeysInv'
  BY <1>20, Zenon DEF GuardedWrite
<1>21. ASSUME NEW p \in Procs, FinishWrites(p) PROVE KeysInv'
  BY <1>21, Zenon DEF FinishWrites, WindUp
<1>22. ASSUME NEW p \in Procs, ReleaseLock(p) PROVE KeysInv'
  BY <1>22, Zenon DEF ReleaseLock, Removals, Without, DropGuard
<1>23. ASSUME NEW p \in Procs, Crash(p) PROVE KeysInv'
  BY <1>23, Zenon DEF Crash, DropGuard
<1>24. ASSUME NEW s \in Sessions, RefreshSession(s) PROVE KeysInv'
  BY <1>24, Zenon DEF RefreshSession
<1>25. CASE Tick
  BY <1>25, Zenon DEF Tick
<1>26. CASE BreakLock
  BY <1>26, Zenon DEF BreakLock
<1>27. CASE ClearAllSessions
  BY <1>27, Zenon DEF ClearAllSessions
<1>28. CASE UNCHANGED vars
  BY <1>28, Zenon DEF vars
<1> QED
  BY <1>1, <1>2, <1>3, <1>4, <1>5, <1>6, <1>7, <1>8, <1>9, <1>10, <1>11, <1>12,
     <1>13, <1>14, <1>15, <1>16, <1>17, <1>18, <1>19, <1>20, <1>21, <1>22,
     <1>23, <1>24, <1>25, <1>26, <1>27, <1>28, ZenonT(30)
     DEF Next, Step

\* Each kind of process stays in its own part of the protocol.
LEMMA PhaseInductive ==
    TypeOK /\ PhaseInv /\ [Next]_vars => PhaseInv'
<1> SUFFICES ASSUME TypeOK, PhaseInv, [Next]_vars
             PROVE  PhaseInv'
  OBVIOUS
<1> USE LockAssumption DEF TypeOK, PhaseInv, PCs, Procs, Sessions, storageVars,
                           clockVars, fenceVars, scanVars, historyVars,
                           boundVars
<1>1. ASSUME NEW p \in Procs, CleanupStaleLocks(p) PROVE PhaseInv'
  BY <1>1, SMTT(30) DEF CleanupStaleLocks, Outcomes
<1>2. ASSUME NEW p \in Procs, Stamp(p) PROVE PhaseInv'
  BY <1>2, Zenon DEF Stamp, Removals, Without
<1>3. ASSUME NEW p \in Procs, PutLock(p) PROVE PhaseInv'
  BY <1>3, SMTT(30) DEF PutLock, Outcomes
<1>4. ASSUME NEW p \in Procs, LockWon(p) PROVE PhaseInv'
  BY <1>4, SMTT(30) DEF LockWon, WinsLock
<1>5. ASSUME NEW p \in Procs, LockLost(p) PROVE PhaseInv'
  BY <1>5, Zenon DEF LockLost, WinsLock
<1>6. ASSUME NEW p \in Procs, ListFailed(p) PROVE PhaseInv'
  BY <1>6, Zenon DEF ListFailed
<1>7. ASSUME NEW p \in Procs, Withdraw(p) PROVE PhaseInv'
  BY <1>7, Zenon DEF Withdraw, AttemptsLeft, Removals, Without, DropGuard
<1>8. ASSUME NEW p \in Procs, Refused(p) PROVE PhaseInv'
  BY <1>8, Zenon DEF Refused, DropGuard
<1>9. ASSUME NEW p \in Procs, RegisterSession(p) PROVE PhaseInv'
  BY <1>9, Zenon DEF RegisterSession, BeginAcquire
<1>10. ASSUME NEW p \in Procs, ReleaseProbe(p) PROVE PhaseInv'
  BY <1>10, SMTT(30) DEF ReleaseProbe, Outcomes, Without, DropGuard
<1>11. ASSUME NEW p \in Procs, LeaveSession(p) PROVE PhaseInv'
  BY <1>11, Zenon DEF LeaveSession
<1>12. ASSUME NEW p \in Procs, BeginCommit(p) PROVE PhaseInv'
  BY <1>12, Zenon DEF BeginCommit, BeginAcquire
<1>13. ASSUME NEW p \in Procs, DeregisterSession(p) PROVE PhaseInv'
  BY <1>13, Zenon DEF DeregisterSession, Outcomes
<1>14. ASSUME NEW p \in Procs, BeginMaintenance(p) PROVE PhaseInv'
  BY <1>14, Zenon DEF BeginMaintenance, BeginAcquire
<1>15. ASSUME NEW p \in Procs, ScanStaleSessions(p) PROVE PhaseInv'
  BY <1>15, Zenon DEF ScanStaleSessions
<1>16. ASSUME NEW p \in Procs, ReapStaleSessions(p) PROVE PhaseInv'
  BY <1>16, Zenon DEF ReapStaleSessions, Removals
<1>17. ASSUME NEW p \in Procs, CheckSessions(p) PROVE PhaseInv'
  BY <1>17, SMTT(30) DEF CheckSessions, NoSessions, Outcomes
<1>18. ASSUME NEW p \in Procs, FencePass(p) PROVE PhaseInv'
  BY <1>18, Zenon DEF FencePass, Outcomes, Without
<1>19. ASSUME NEW p \in Procs, FenceFail(p) PROVE PhaseInv'
  BY <1>19, Zenon DEF FenceFail, WindUp
<1>20. ASSUME NEW p \in Procs, GuardedWrite(p) PROVE PhaseInv'
  BY <1>20, Zenon DEF GuardedWrite
<1>21. ASSUME NEW p \in Procs, FinishWrites(p) PROVE PhaseInv'
  BY <1>21, Zenon DEF FinishWrites, WindUp
<1>22. ASSUME NEW p \in Procs, ReleaseLock(p) PROVE PhaseInv'
  BY <1>22, Zenon DEF ReleaseLock, Removals, Without, DropGuard
<1>23. ASSUME NEW p \in Procs, Crash(p) PROVE PhaseInv'
  BY <1>23, Zenon DEF Crash, DropGuard
<1>24. ASSUME NEW s \in Sessions, RefreshSession(s) PROVE PhaseInv'
  BY <1>24, Zenon DEF RefreshSession
<1>25. CASE Tick
  BY <1>25, Zenon DEF Tick
<1>26. CASE BreakLock
  BY <1>26, Zenon DEF BreakLock
<1>27. CASE ClearAllSessions
  BY <1>27, Zenon DEF ClearAllSessions
<1>28. CASE UNCHANGED vars
  BY <1>28, Zenon DEF vars
<1> QED
  BY <1>1, <1>2, <1>3, <1>4, <1>5, <1>6, <1>7, <1>8, <1>9, <1>10, <1>11, <1>12,
     <1>13, <1>14, <1>15, <1>16, <1>17, <1>18, <1>19, <1>20, <1>21, <1>22,
     <1>23, <1>24, <1>25, <1>26, <1>27, <1>28, ZenonT(30)
     DEF Next, Step

\* A session keeps its marker unless it is reaped.
LEMMA MarkerInductive ==
    TypeOK /\ PhaseInv /\ MarkerInv /\ [Next]_vars => MarkerInv'
<1> SUFFICES ASSUME TypeOK, PhaseInv, MarkerInv, [Next]_vars
             PROVE  MarkerInv'
  OBVIOUS
<1> USE LockAssumption DEF TypeOK, PhaseInv, MarkerInv, Marked, PCs, Procs,
                           Sessions, storageVars, clockVars, fenceVars,
                           scanVars, historyVars, boundVars
<1>1. ASSUME NEW p \in Procs, CleanupStaleLocks(p) PROVE MarkerInv'
  BY <1>1, SMTT(30) DEF CleanupStaleLocks, Outcomes
<1>2. ASSUME NEW p \in Procs, Stamp(p) PROVE MarkerInv'
  BY <1>2, Zenon DEF Stamp, Removals, Without
<1>3. ASSUME NEW p \in Procs, PutLock(p) PROVE MarkerInv'
  BY <1>3, ZenonT(30) DEF PutLock, Outcomes
<1>4. ASSUME NEW p \in Procs, LockWon(p) PROVE MarkerInv'
  BY <1>4, Zenon DEF LockWon, WinsLock
<1>5. ASSUME NEW p \in Procs, LockLost(p) PROVE MarkerInv'
  BY <1>5, Zenon DEF LockLost, WinsLock
<1>6. ASSUME NEW p \in Procs, ListFailed(p) PROVE MarkerInv'
  BY <1>6, Zenon DEF ListFailed
<1>7. ASSUME NEW p \in Procs, Withdraw(p) PROVE MarkerInv'
  BY <1>7, Zenon DEF Withdraw, AttemptsLeft, Removals, Without, DropGuard
<1>8. ASSUME NEW p \in Procs, Refused(p) PROVE MarkerInv'
  BY <1>8, Zenon DEF Refused, DropGuard
<1>9. ASSUME NEW p \in Procs, RegisterSession(p) PROVE MarkerInv'
  BY <1>9, SMTT(30) DEF RegisterSession, BeginAcquire
<1>10. ASSUME NEW p \in Procs, ReleaseProbe(p) PROVE MarkerInv'
  BY <1>10, ZenonT(30) DEF ReleaseProbe, Outcomes, Without, DropGuard
<1>11. ASSUME NEW p \in Procs, LeaveSession(p) PROVE MarkerInv'
  BY <1>11, Zenon DEF LeaveSession
<1>12. ASSUME NEW p \in Procs, BeginCommit(p) PROVE MarkerInv'
  BY <1>12, Zenon DEF BeginCommit, BeginAcquire
<1>13. ASSUME NEW p \in Procs, DeregisterSession(p) PROVE MarkerInv'
  BY <1>13, SMTT(30) DEF DeregisterSession, Outcomes
<1>14. ASSUME NEW p \in Procs, BeginMaintenance(p) PROVE MarkerInv'
  BY <1>14, Zenon DEF BeginMaintenance, BeginAcquire
<1>15. ASSUME NEW p \in Procs, ScanStaleSessions(p) PROVE MarkerInv'
  BY <1>15, Zenon DEF ScanStaleSessions
<1>16. ASSUME NEW p \in Procs, ReapStaleSessions(p) PROVE MarkerInv'
  BY <1>16, SMTT(30) DEF ReapStaleSessions, Removals
<1>17. ASSUME NEW p \in Procs, CheckSessions(p) PROVE MarkerInv'
  BY <1>17, ZenonT(30) DEF CheckSessions, NoSessions, Outcomes
<1>18. ASSUME NEW p \in Procs, FencePass(p) PROVE MarkerInv'
  BY <1>18, Zenon DEF FencePass, Outcomes, Without
<1>19. ASSUME NEW p \in Procs, FenceFail(p) PROVE MarkerInv'
  BY <1>19, Zenon DEF FenceFail, WindUp
<1>20. ASSUME NEW p \in Procs, GuardedWrite(p) PROVE MarkerInv'
  BY <1>20, Zenon DEF GuardedWrite
<1>21. ASSUME NEW p \in Procs, FinishWrites(p) PROVE MarkerInv'
  BY <1>21, Zenon DEF FinishWrites, WindUp
<1>22. ASSUME NEW p \in Procs, ReleaseLock(p) PROVE MarkerInv'
  BY <1>22, Zenon DEF ReleaseLock, Removals, Without, DropGuard
<1>23. ASSUME NEW p \in Procs, Crash(p) PROVE MarkerInv'
  BY <1>23, Zenon DEF Crash, DropGuard
<1>24. ASSUME NEW s \in Sessions, RefreshSession(s) PROVE MarkerInv'
  BY <1>24, SMTT(30) DEF RefreshSession
<1>25. CASE Tick
  BY <1>25, Zenon DEF Tick
<1>26. CASE BreakLock
  BY <1>26, Zenon DEF BreakLock
<1>27. CASE ClearAllSessions
  BY <1>27, Zenon DEF ClearAllSessions
<1>28. CASE UNCHANGED vars
  BY <1>28, Zenon DEF vars
<1> QED
  BY <1>1, <1>2, <1>3, <1>4, <1>5, <1>6, <1>7, <1>8, <1>9, <1>10, <1>11, <1>12,
     <1>13, <1>14, <1>15, <1>16, <1>17, <1>18, <1>19, <1>20, <1>21, <1>22,
     <1>23, <1>24, <1>25, <1>26, <1>27, <1>28, ZenonT(30)
     DEF Next, Step

--------------------------------------------------------------------------------

\* The keys of processes that are after the lock, or have it, differ.
LEMMA KeysDiffer ==
    ASSUME TypeOK, KeysInv, NEW p \in Procs, NEW r \in Procs, r # p,
           pc[r] \in {"put", "list", "reap", "reaping", "check", "held", "fenced"}
    PROVE  key[r] # key[p]
<1>1. key[r] > 0
  BY Zenon DEF KeysInv
<1>2. key[r] = key[p] => key[r] = 0
  BY Zenon DEF KeysInv
<1> QED
  BY <1>1, <1>2, SMT

\* Rewriting a lock object that is there changes no key.
LEMMA RefreshKeepsKeys ==
    ASSUME NEW k \in LockKeys, NEW t,
           locks' = Without({k}) \cup {[key |-> k, time |-> t]}
    PROVE  /\ LockKeys' = LockKeys
           /\ \A l \in locks' : \/ l \in locks /\ l.key # k
                                \/ l.key = k /\ l.time = t
<1>1. \A l \in locks' : \/ l \in locks /\ l.key # k
                        \/ l.key = k /\ l.time = t
  BY SMTT(30) DEF Without
<1>2. LockKeys' \subseteq LockKeys
  BY <1>1, Zenon DEF LockKeys
<1>3. ASSUME NEW j \in LockKeys PROVE j \in LockKeys'
  <2>1. CASE j = k
    <3>1. [key |-> k, time |-> t] \in locks' /\ [key |-> k, time |-> t].key = j
      BY <2>1, Zenon
    <3> QED
      BY <3>1, Zenon DEF LockKeys
  <2>2. CASE j # k
    <3>1. PICK l \in locks : l.key = j
      BY Zenon DEF LockKeys
    <3>2. l \in locks'
      BY <2>2, <3>1, Zenon DEF Without
    <3> QED
      BY <3>1, <3>2, Zenon DEF LockKeys
  <2> QED
    BY <2>1, <2>2, Zenon
<1>4. LockKeys' = LockKeys
  BY <1>2, <1>3, Zenon
<1> QED
  BY <1>1, <1>4, Zenon

\* A step of p that gives nobody the repository: no maintenance command starts,
\* and p, if it is a session, goes on losing.
Calm(p) ==
    /\ reaped \subseteq reaped'
    /\ \A q \in Procs \ {p} : pc'[q] = pc[q] /\ phase'[q] = phase[q] /\ key'[q] = key[q]
    /\ \A m \in Maints : Maintaining(m)' /\ HasLock(m)'
                            => Maintaining(m) /\ HasLock(m) /\ key'[m] = key[m]
    /\ p \in Sessions /\ Marked(p)' =>
         \A m \in Maints :
            Maintaining(m) /\ (Marked(p) => Losing(p, m)) => Losing(p, m)'

LEMMA CalmKeepsExclusion ==
    ASSUME ExclusionInv, NEW p \in Procs, Calm(p)
    PROVE  ExclusionInv'
<1> SUFFICES ASSUME NEW m \in Maints, NEW s \in Sessions,
                    Maintaining(m)', HasLock(m)', Marked(s)', s \notin reaped'
             PROVE  Losing(s, m)'
  BY Zenon DEF ExclusionInv, Sessions
<1>1. Maintaining(m) /\ HasLock(m) /\ s \notin reaped /\ key'[m] = key[m]
  BY Zenon DEF Calm
<1>2. Marked(s) => Losing(s, m)
  BY <1>1, Zenon DEF ExclusionInv
<1>3. CASE s = p
  BY <1>1, <1>2, <1>3, Zenon DEF Calm
<1>4. CASE s # p
  <2>1. pc'[s] = pc[s] /\ phase'[s] = phase[s] /\ key'[s] = key[s]
    BY <1>4, Zenon DEF Calm, Procs, Sessions
  <2> QED
    BY <1>1, <1>2, <2>1, Zenon DEF Marked, Losing
<1> QED
  BY <1>3, <1>4, Zenon

\* Sessions that come too late lose the race for the lock.
LEMMA ExclusionInductive ==
    TypeOK /\ KeysInv /\ PhaseInv /\ MarkerInv /\ ExclusionInv /\ [Next]_vars
        => ExclusionInv'
<1> SUFFICES ASSUME TypeOK, KeysInv, PhaseInv, MarkerInv, ExclusionInv, [Next]_vars
             PROVE  ExclusionInv'
  OBVIOUS
<1>0. /\ pc \in [Procs -> PCs] /\ phase \in [Procs -> {"probe", "commit", "maint"}]
      /\ key \in [Procs -> Nat] /\ reaped \in SUBSET Sessions
      /\ nextKey \in Nat /\ \A q \in Procs : key[q] < nextKey
      /\ PhaseInv
  BY Zenon DEF TypeOK, KeysInv
<1> USE DEF Procs, Sessions, storageVars, historyVars
<1>1. ASSUME NEW p \in Procs, CleanupStaleLocks(p) PROVE ExclusionInv'
  <2>1. LockKeys' = LockKeys
    BY <1>1, Zenon DEF CleanupStaleLocks, LockKeys
  <2>2. Calm(p)
    BY <1>0, <1>1, <2>1, Zenon
       DEF Calm, Maintaining, Marked, Losing, HasLock, PhaseInv, CleanupStaleLocks
  <2> QED
    BY <2>2, CalmKeepsExclusion, Zenon
<1>2. ASSUME NEW p \in Procs, Stamp(p) PROVE ExclusionInv'
  <2>1. LockKeys' \subseteq LockKeys
    BY <1>2, Zenon DEF Stamp, Without, LockKeys
  <2>2. Calm(p)
    BY <1>0, <1>2, <2>1, Zenon
       DEF Calm, Maintaining, Marked, Losing, HasLock, PhaseInv, Stamp
  <2> QED
    BY <2>2, CalmKeepsExclusion, Zenon
<1>3. ASSUME NEW p \in Procs, PutLock(p) PROVE ExclusionInv'
  <2>1. \A k \in LockKeys' : k # key[p] => k \in LockKeys
    BY <1>3, SMTT(30) DEF PutLock, LockKeys
  <2>2. \A m \in Maints : pc[m] \in {"held", "fenced"} => key[m] # key[p]
    BY <1>3, KeysDiffer, Zenon DEF PutLock
  <2>3. Calm(p)
    BY <1>0, <1>3, <2>1, <2>2, Zenon
       DEF Calm, Maintaining, Marked, Losing, HasLock, PhaseInv, PutLock
  <2> QED
    BY <2>3, CalmKeepsExclusion, Zenon
<1>4. ASSUME NEW p \in Procs, LockLost(p) PROVE ExclusionInv'
  <2>1. LockKeys' = LockKeys
    BY <1>4, Zenon DEF LockLost, LockKeys
  <2>2. Calm(p)
    BY <1>0, <1>4, <2>1, Zenon
       DEF Calm, Maintaining, Marked, Losing, HasLock, PhaseInv, LockLost
  <2> QED
    BY <2>2, CalmKeepsExclusion, Zenon
<1>5. ASSUME NEW p \in Procs, ListFailed(p) PROVE ExclusionInv'
  <2>1. LockKeys' = LockKeys
    BY <1>5, Zenon DEF ListFailed, LockKeys
  <2>2. Calm(p)
    BY <1>0, <1>5, <2>1, Zenon
       DEF Calm, Maintaining, Marked, Losing, HasLock, PhaseInv, ListFailed
  <2> QED
    BY <2>2, CalmKeepsExclusion, Zenon
<1>6. ASSUME NEW p \in Procs, Withdraw(p) PROVE ExclusionInv'
  <2>1. LockKeys' \subseteq LockKeys
    BY <1>6, Zenon DEF Withdraw, Without, LockKeys
  <2>2. Calm(p)
    BY <1>0, <1>6, <2>1, Zenon
       DEF Calm, Maintaining, Marked, Losing, HasLock, PhaseInv, Withdraw
  <2> QED
    BY <2>2, CalmKeepsExclusion, Zenon
<1>7. ASSUME NEW p \in Procs, Refused(p) PROVE ExclusionInv'
  <2>1. LockKeys' = LockKeys
    BY <1>7, Zenon DEF Refused, LockKeys
  <2>2. Calm(p)
    BY <1>0, <1>7, <2>1, Zenon
       DEF Calm, Maintaining, Marked, Losing, HasLock, PhaseInv, Refused
  <2> QED
    BY <2>2, CalmKeepsExclusion, Zenon
<1>8. ASSUME NEW p \in Procs, RegisterSession(p) PROVE ExclusionInv'
  <2>1. LockKeys' = LockKeys
    BY <1>8, Zenon DEF RegisterSession, LockKeys
  <2>2. Calm(p)
    BY <1>0, <1>8, <2>1, Zenon
       DEF Calm, Maintaining, Marked, Losing, HasLock, PhaseInv, RegisterSession,
           BeginAcquire
  <2> QED
    BY <2>2, CalmKeepsExclusion, Zenon
<1>9. ASSUME NEW p \in Procs, ReleaseProbe(p) PROVE ExclusionInv'
  <2>1. LockKeys' \subseteq LockKeys
    BY <1>9, Zenon DEF ReleaseProbe, Without, LockKeys
  <2>2. Calm(p)
    BY <1>0, <1>9, <2>1, Zenon
       DEF Calm, Maintaining, Marked, Losing, HasLock, PhaseInv, ReleaseProbe
  <2> QED
    BY <2>2, CalmKeepsExclusion, Zenon
<1>10. ASSUME NEW p \in Procs, LeaveSession(p) PROVE ExclusionInv'
  <2>1. LockKeys' = LockKeys
    BY <1>10, Zenon DEF LeaveSession, LockKeys
  <2>2. Calm(p)
    BY <1>0, <1>10, <2>1, Zenon
       DEF Calm, Maintaining, Marked, Losing, HasLock, PhaseInv, LeaveSession
  <2> QED
    BY <2>2, CalmKeepsExclusion, Zenon
<1>11. ASSUME NEW p \in Procs, BeginCommit(p) PROVE ExclusionInv'
  <2>1. LockKeys' = LockKeys
    BY <1>11, Zenon DEF BeginCommit, LockKeys
  <2>2. Calm(p)
    BY <1>0, <1>11, <2>1, Zenon
       DEF Calm, Maintaining, Marked, Losing, HasLock, PhaseInv, BeginCommit,
           BeginAcquire
  <2> QED
    BY <2>2, CalmKeepsExclusion, Zenon
<1>12. ASSUME NEW p \in Procs, DeregisterSession(p) PROVE ExclusionInv'
  <2>1. LockKeys' = LockKeys
    BY <1>12, Zenon DEF DeregisterSession, LockKeys
  <2>2. Calm(p)
    BY <1>0, <1>12, <2>1, Zenon
       DEF Calm, Maintaining, Marked, Losing, HasLock, PhaseInv, DeregisterSession
  <2> QED
    BY <2>2, CalmKeepsExclusion, Zenon
<1>13. ASSUME NEW p \in Procs, BeginMaintenance(p) PROVE ExclusionInv'
  <2>1. LockKeys' = LockKeys
    BY <1>13, Zenon DEF BeginMaintenance, LockKeys
  <2>2. Calm(p)
    BY <1>0, <1>13, <2>1, Zenon
       DEF Calm, Maintaining, Marked, Losing, HasLock, PhaseInv, BeginMaintenance,
           BeginAcquire
  <2> QED
    BY <2>2, CalmKeepsExclusion, Zenon
<1>14. ASSUME NEW p \in Procs, ScanStaleSessions(p) PROVE ExclusionInv'
  <2>1. LockKeys' = LockKeys
    BY <1>14, Zenon DEF ScanStaleSessions, LockKeys
  <2>2. Calm(p)
    BY <1>0, <1>14, <2>1, Zenon
       DEF Calm, Maintaining, Marked, Losing, HasLock, PhaseInv, ScanStaleSessions
  <2> QED
    BY <2>2, CalmKeepsExclusion, Zenon
<1>15. ASSUME NEW p \in Procs, ReapStaleSessions(p) PROVE ExclusionInv'
  <2>1. LockKeys' = LockKeys
    BY <1>15, Zenon DEF ReapStaleSessions, LockKeys
  <2>2. Calm(p)
    BY <1>0, <1>15, <2>1, Zenon
       DEF Calm, Maintaining, Marked, Losing, HasLock, PhaseInv, ReapStaleSessions
  <2> QED
    BY <2>2, CalmKeepsExclusion, Zenon
<1>16. ASSUME NEW p \in Procs, FencePass(p) PROVE ExclusionInv'
  <2>1. LockKeys' = LockKeys
    <3>1. key[p] \in LockKeys
      BY <1>16, Zenon DEF FencePass, LockValid, HasLock
    <3>2. \/ UNCHANGED locks
          \/ locks' = Without({key[p]}) \cup {[key |-> key[p], time |-> now]}
      BY <1>16, Zenon DEF FencePass
    <3>3. CASE UNCHANGED locks
      BY <3>3, Zenon DEF LockKeys
    <3> QED
      BY <3>1, <3>2, <3>3, RefreshKeepsKeys, Zenon
  <2>2. Calm(p)
    BY <1>0, <1>16, <2>1, Zenon
       DEF Calm, Maintaining, Marked, Losing, HasLock, PhaseInv, FencePass
  <2> QED
    BY <2>2, CalmKeepsExclusion, Zenon
<1>17. ASSUME NEW p \in Procs, FenceFail(p) PROVE ExclusionInv'
  <2>1. LockKeys' = LockKeys
    BY <1>17, Zenon DEF FenceFail, LockKeys
  <2>2. Calm(p)
    BY <1>0, <1>17, <2>1, Zenon
       DEF Calm, Maintaining, Marked, Losing, HasLock, PhaseInv, FenceFail, WindUp
  <2> QED
    BY <2>2, CalmKeepsExclusion, Zenon
<1>18. ASSUME NEW p \in Procs, GuardedWrite(p) PROVE ExclusionInv'
  <2>1. LockKeys' = LockKeys
    BY <1>18, Zenon DEF GuardedWrite, LockKeys
  <2>2. Calm(p)
    BY <1>0, <1>18, <2>1, Zenon
       DEF Calm, Maintaining, Marked, Losing, HasLock, PhaseInv, GuardedWrite
  <2> QED
    BY <2>2, CalmKeepsExclusion, Zenon
<1>19. ASSUME NEW p \in Procs, FinishWrites(p) PROVE ExclusionInv'
  <2>1. LockKeys' = LockKeys
    BY <1>19, Zenon DEF FinishWrites, LockKeys
  <2>2. Calm(p)
    BY <1>0, <1>19, <2>1, Zenon
       DEF Calm, Maintaining, Marked, Losing, HasLock, PhaseInv, FinishWrites,
           WindUp
  <2> QED
    BY <2>2, CalmKeepsExclusion, Zenon
<1>20. ASSUME NEW p \in Procs, ReleaseLock(p) PROVE ExclusionInv'
  <2>1. LockKeys' \subseteq LockKeys
    BY <1>20, Zenon DEF ReleaseLock, Without, LockKeys
  <2>2. Calm(p)
    BY <1>0, <1>20, <2>1, Zenon
       DEF Calm, Maintaining, Marked, Losing, HasLock, PhaseInv, ReleaseLock
  <2> QED
    BY <2>2, CalmKeepsExclusion, Zenon
<1>21. ASSUME NEW p \in Procs, Crash(p) PROVE ExclusionInv'
  <2>1. LockKeys' = LockKeys
    BY <1>21, Zenon DEF Crash, LockKeys
  <2>2. Calm(p)
    BY <1>0, <1>21, <2>1, Zenon
       DEF Calm, Maintaining, Marked, Losing, HasLock, PhaseInv, Crash
  <2> QED
    BY <2>2, CalmKeepsExclusion, Zenon
<1>22. ASSUME NEW p \in Procs, LockWon(p) PROVE ExclusionInv'
  <2> SUFFICES ASSUME NEW m \in Maints, NEW s \in Sessions,
                      Maintaining(m)', HasLock(m)', Marked(s)', s \notin reaped'
               PROVE  Losing(s, m)'
    BY Zenon DEF ExclusionInv
  <2>1. /\ pc[p] = "list" /\ WinsLock(p) /\ LockKeys' = LockKeys
        /\ UNCHANGED <<phase, key, reaped>>
        /\ \A q \in Procs \ {p} : pc'[q] = pc[q]
        /\ phase[p] = "maint" => pc'[p] = "reap"
    BY <1>0, <1>22, Zenon DEF LockWon, LockKeys
  <2>2. m # p
    BY <1>0, <2>1, Zenon DEF PhaseInv, Maintaining
  <2>3. Maintaining(m) /\ HasLock(m)
    BY <2>1, <2>2, Zenon DEF Maintaining, HasLock
  <2>4. CASE s = p
    <3>1. key[p] > key[m]
      BY <2>1, <2>3, <2>4, Zenon DEF ExclusionInv, Losing, Marked
    <3>2. key[p] <= key[m]
      BY <2>1, <2>3, Zenon DEF WinsLock, HasLock
    <3>3. key[p] \in Nat /\ key[m] \in Nat
      BY <1>0, Zenon
    <3> QED
      BY <3>1, <3>2, <3>3, SMTT(30)
  <2>5. CASE s # p
    <3>1. pc'[s] = pc[s]
      BY <2>1, <2>5, Zenon
    <3> QED
      BY <2>1, <2>3, <3>1, Zenon DEF ExclusionInv, Losing, Marked
  <2> QED
    BY <2>4, <2>5, Zenon
<1>23. ASSUME NEW p \in Procs, CheckSessions(p) PROVE ExclusionInv'
  <2> SUFFICES ASSUME NEW m \in Maints, NEW s \in Sessions,
                      Maintaining(m)', HasLock(m)', Marked(s)', s \notin reaped'
               PROVE  Losing(s, m)'
    BY SMTT(30) DEF ExclusionInv
  <2>1. /\ p \in Maints /\ LockKeys' = LockKeys /\ UNCHANGED <<phase, key, reaped>>
        /\ \A q \in Procs \ {p} : pc'[q] = pc[q]
        /\ pc'[p] = "held" => NoSessions
        /\ pc'[p] \in {"held", "release"}
    BY <1>0, <1>23, Zenon DEF CheckSessions, LockKeys
  <2>2. s # p
    BY <2>1, LockAssumption, Zenon
  <2>3. pc'[s] = pc[s] /\ Marked(s)
    BY <2>1, <2>2, Zenon DEF Marked
  <2>4. m # p
    <3> SUFFICES ASSUME m = p PROVE FALSE
      OBVIOUS
    <3>1. NoSessions
      BY <2>1, Zenon DEF Maintaining
    <3> QED
      BY <2>1, <2>3, <3>1, Zenon DEF MarkerInv, NoSessions
  <2> QED
    BY <2>1, <2>3, <2>4, Zenon DEF ExclusionInv, Losing, Maintaining, HasLock
<1>24. ASSUME UNCHANGED <<pc, phase, key>>, LockKeys' \subseteq LockKeys,
              reaped \subseteq reaped'
       PROVE  ExclusionInv'
  BY <1>24, Zenon DEF ExclusionInv, Losing, Maintaining, HasLock, Marked
<1>25. ASSUME NEW s \in Sessions, RefreshSession(s) PROVE ExclusionInv'
  BY <1>24, <1>25, Zenon DEF RefreshSession, LockKeys
<1>26. CASE Tick
  BY <1>24, <1>26, Zenon DEF Tick, LockKeys
<1>27. CASE BreakLock
  BY <1>24, <1>27, Zenon DEF BreakLock, LockKeys
<1>28. CASE ClearAllSessions
  BY <1>24, <1>28, Zenon DEF ClearAllSessions, LockKeys
<1>29. CASE UNCHANGED vars
  BY <1>24, <1>29, Zenon DEF vars, LockKeys
<1> QED
  BY <1>1, <1>2, <1>3, <1>4, <1>5, <1>6, <1>7, <1>8, <1>9, <1>10, <1>11, <1>12,
     <1>13, <1>14, <1>15, <1>16, <1>17, <1>18, <1>19, <1>20, <1>21, <1>22, <1>23,
     <1>25, <1>26, <1>27, <1>28, <1>29, Zenon
     DEF Next, Step

\* A process that goes on, or lets go of its lock, without touching the clock, the
\* locks of others or a scan.
Quiet(p) ==
    /\ now' = now /\ key' = key /\ broken' = broken
    /\ locks' \subseteq locks /\ \A l \in locks : l.key # key[p] => l \in locks'
    /\ \A q \in Procs : pc'[q] = "stamp" => pc[q] = "stamp" /\ victims'[q] = victims[q]
    /\ \A r \in Procs \ {p} :
         /\ pc'[r] = pc[r] /\ written'[r] = written[r] /\ lag'[r] = lag[r]
         /\ refreshed'[r] = refreshed[r] /\ fencedAt'[r] = fencedAt[r]
    /\ \/ pc'[p] \notin {"put", "list", "reap", "reaping", "check", "held", "fenced"}
       \/ /\ pc[p] \in {"reap", "reaping", "check", "held", "fenced"}
          /\ pc'[p] \in {"reap", "reaping", "check", "held"}
          /\ lag'[p] = lag[p] /\ refreshed'[p] = refreshed[p]

LEMMA QuietKeepsFence ==
    ASSUME TypeOK, KeysInv, FenceInv, NEW p \in Procs, Quiet(p)
    PROVE  FenceInv'
<1>1. \A k : Doomed(k)' => Doomed(k)
  BY Zenon DEF Quiet, Doomed
<1>2. \A l \in locks' : l \in locks
  BY Zenon DEF Quiet
<1>3. LockKeys' \subseteq LockKeys
  BY <1>2, Zenon DEF LockKeys
<1>4. \A k \in LockKeys : k # key[p] => k \in LockKeys'
  BY Zenon DEF Quiet, LockKeys
<1>5. ASSUME NEW r \in Procs, r # p PROVE LockAge(r)'
  <2>1. /\ pc'[r] = pc[r] /\ written'[r] = written[r] /\ lag'[r] = lag[r]
        /\ refreshed'[r] = refreshed[r] /\ fencedAt'[r] = fencedAt[r]
        /\ now' = now /\ key'[r] = key[r] /\ broken' = broken
    BY <1>5, Zenon DEF Quiet
  <2>2. pc[r] = "fenced" /\ HasLock(r) => HasLock(r)'
    BY <1>4, <1>5, <2>1, KeysDiffer, Zenon DEF HasLock
  <2>3. LockAge(r)
    BY Zenon DEF FenceInv
  <2> QED
    BY <1>1, <1>2, <1>3, <2>1, <2>2, <2>3, Zenon DEF LockAge
<1>6. LockAge(p)'
  <2>1. CASE pc'[p] \notin {"put", "list", "reap", "reaping", "check", "held", "fenced"}
    BY <2>1, Zenon DEF LockAge
  <2>2. CASE /\ pc[p] \in {"reap", "reaping", "check", "held", "fenced"}
             /\ pc'[p] \in {"reap", "reaping", "check", "held"}
             /\ lag'[p] = lag[p] /\ refreshed'[p] = refreshed[p]
    <3>1. LockAge(p) /\ now' = now /\ key' = key
      BY Zenon DEF FenceInv, Quiet
    <3> QED
      BY <1>1, <1>2, <2>2, <3>1, Zenon DEF LockAge
  <2> QED
    BY <2>1, <2>2, Zenon DEF Quiet
<1> QED
  BY <1>5, <1>6, Zenon DEF FenceInv

\* The scan of a process dooms only keys that are too old.
LEMMA ScanKeepsFence ==
    ASSUME TypeOK, FenceInv, NEW p \in Procs, CleanupStaleLocks(p)
    PROVE  FenceInv'
<1>1. /\ UNCHANGED <<now, locks, key, written, lag, refreshed, fencedAt, broken>>
      /\ UNCHANGED LockKeys
      /\ \A r \in Procs : \/ pc'[r] = pc[r]
                          \/ pc'[r] \in {"stamp", "refused"}
  BY Zenon
     DEF CleanupStaleLocks, storageVars, clockVars, fenceVars, historyVars, TypeOK,
         LockKeys
<1>2. ASSUME NEW k, Doomed(k)'
      PROVE  Doomed(k) \/ \E l \in locks : l.key = k /\ now - l.time > StaleLock
  BY <1>2, SMTT(30) DEF CleanupStaleLocks, Doomed, TypeOK
<1>3. ASSUME NEW r \in Procs PROVE LockAge(r)'
  <2>1. LockAge(r)
    BY Zenon DEF FenceInv
  <2>2. CASE pc'[r] \in {"stamp", "refused"}
    BY <2>2, Zenon DEF LockAge
  <2>3. CASE pc'[r] = pc[r]
    <3>1. pc[r] = "put" => ~Doomed(key[r])'
      BY <1>1, <1>2, <2>1, SMTT(30) DEF LockAge, LockKeys
    <3>2. pc[r] = "list" /\ Doomed(key[r])' => now - written[r] > StaleLock
      BY <1>2, <2>1, <1>1, Zenon DEF LockAge
    <3>3. /\ now \in Int /\ refreshed[r] \in Int /\ lag[r] \in Int /\ StaleLock \in Int
          /\ \A l \in locks : l.time \in Int
      BY LockAssumption, SMTT(30) DEF TypeOK
    <3>4. pc[r] \in {"reap", "reaping", "check", "held", "fenced"}
             /\ Doomed(key[r])' /\ lag[r] <= StaleLock - MaxUnrefreshed
             => now - refreshed[r] > StaleLock - lag[r]
      BY <1>1, <1>2, <2>1, <3>3, SMTT(30) DEF LockAge
    <3> QED
      BY <1>1, <2>1, <2>3, <3>1, <3>2, <3>4, Zenon DEF LockAge, HasLock
  <2> QED
    BY <1>1, <2>2, <2>3, Zenon
<1> QED
  BY <1>3, Zenon DEF FenceInv

\* A stamp is fresh, and what is deleted before it belongs to nobody whose write
\* is in time.
LEMMA StampKeepsFence ==
    ASSUME TypeOK, KeysInv, FenceInv, NEW p \in Procs, Stamp(p)
    PROVE  FenceInv'
<1>1. /\ UNCHANGED <<now, lag, refreshed, fencedAt, broken>>
      /\ pc[p] = "stamp" /\ pc'[p] = "put" /\ written'[p] = now
      /\ key'[p] = nextKey /\ victims'[p] = {}
      /\ \A r \in Procs \ {p} : /\ pc'[r] = pc[r] /\ key'[r] = key[r]
                                /\ written'[r] = written[r] /\ victims'[r] = victims[r]
      /\ \A l \in locks' : l \in locks
      /\ \A l \in locks : l.key \notin victims[p] => l \in locks'
  BY Zenon DEF Stamp, Removals, Without, historyVars, TypeOK
<1>2. \A k : Doomed(k)' => Doomed(k)
  BY <1>1, Zenon DEF Doomed
<1>3. /\ LockKeys' \subseteq LockKeys
      /\ \A k \in LockKeys : ~Doomed(k) => k \in LockKeys'
  BY <1>1, Zenon DEF LockKeys, Doomed
<1>4. LockAge(p)'
  <2>1. nextKey \notin LockKeys
    BY SMTT(30) DEF KeysInv, LockKeys, TypeOK
  <2>2. ~Doomed(nextKey)
    BY SMTT(30) DEF KeysInv, Doomed, TypeOK
  <2>3. now \in Int
    BY SMTT(30) DEF TypeOK
  <2> QED
    BY <1>1, <1>2, <1>3, <2>1, <2>2, <2>3, SMTT(30) DEF LockAge
<1>5. ASSUME NEW r \in Procs, r # p PROVE LockAge(r)'
  <2>1. LockAge(r)
    BY Zenon DEF FenceInv
  <2>2. /\ now \in Int /\ refreshed[r] \in Int /\ lag[r] \in Int
        /\ StaleLock \in Int /\ MaxUnrefreshed \in Int /\ fencedAt[r] \in Int
    BY LockAssumption, SMTT(30) DEF TypeOK
  <2>3. /\ pc[r] = "fenced" /\ HasLock(r)
        /\ lag[r] + (now - fencedAt[r]) <= StaleLock - MaxUnrefreshed
        => HasLock(r)'
    <3>1. /\ pc[r] = "fenced"
          /\ lag[r] + (now - fencedAt[r]) <= StaleLock - MaxUnrefreshed
          => ~Doomed(key[r])
      BY <2>1, <2>2, SMTT(30) DEF LockAge
    <3> QED
      BY <1>1, <1>3, <1>5, <3>1, Zenon DEF HasLock
  <2> QED
    BY <1>1, <1>2, <1>3, <1>5, <2>1, <2>3, Zenon DEF LockAge
<1> QED
  BY <1>4, <1>5, Zenon DEF FenceInv

\* The new lock object carries the time its owner stamped.
LEMMA PutKeepsFence ==
    ASSUME TypeOK, KeysInv, FenceInv, NEW p \in Procs, PutLock(p)
    PROVE  FenceInv'
<1>1. /\ UNCHANGED <<now, key, written, lag, refreshed, fencedAt, broken, victims>>
      /\ pc[p] = "put" /\ pc'[p] \in {"list", "refused"}
      /\ \A r \in Procs \ {p} : pc'[r] = pc[r]
      /\ locks \subseteq locks'
      /\ \A l \in locks' : l \in locks \/ (l.key = key[p] /\ l.time = written[p])
  BY SMTT(30) DEF PutLock, clockVars, fenceVars, scanVars, historyVars, TypeOK
<1>2. \A k : Doomed(k)' => Doomed(k)
  BY <1>1, Zenon DEF Doomed
<1>3. /\ LockKeys \subseteq LockKeys'
      /\ \A k \in LockKeys' : k # key[p] => k \in LockKeys
  BY <1>1, Zenon DEF LockKeys
<1>4. LockAge(p)'
  <2>1. LockAge(p)
    BY Zenon DEF FenceInv
  <2>2. \A l \in locks : l.key # key[p]
    BY <1>1, <2>1, Zenon DEF LockAge, LockKeys
  <2> QED
    BY <1>1, <1>2, <2>1, <2>2, Zenon DEF LockAge
<1>5. ASSUME NEW r \in Procs, r # p PROVE LockAge(r)'
  <2>1. LockAge(r)
    BY Zenon DEF FenceInv
  <2>2. pc[r] \in {"put", "list", "reap", "reaping", "check", "held", "fenced"}
           => key[r] # key[p]
    BY <1>5, KeysDiffer, Zenon
  <2> QED
    BY <1>1, <1>2, <1>3, <1>5, <2>1, <2>2, Zenon DEF LockAge, HasLock
<1> QED
  BY <1>4, <1>5, SMTT(30) DEF FenceInv

\* The lag of a lock is the time from its stamp to its acquisition.
LEMMA WonKeepsFence ==
    ASSUME TypeOK, FenceInv, NEW p \in Procs, LockWon(p)
    PROVE  FenceInv'
<1>1. /\ UNCHANGED <<now, locks, key, written, fencedAt, broken, victims>>
      /\ UNCHANGED LockKeys
      /\ pc[p] = "list" /\ pc'[p] \in {"probed", "held", "reap"}
      /\ refreshed'[p] = now /\ lag'[p] = now - written[p]
      /\ \A r \in Procs \ {p} : /\ pc'[r] = pc[r] /\ lag'[r] = lag[r]
                                /\ refreshed'[r] = refreshed[r]
  BY Zenon
     DEF LockWon, clockVars, storageVars, scanVars, historyVars, TypeOK, LockKeys
<1>2. \A k : Doomed(k)' => Doomed(k)
  BY <1>1, Zenon DEF Doomed
<1>3. LockAge(p)'
  <2>1. LockAge(p) /\ now \in Int /\ written[p] \in Int /\ StaleLock \in Int
    BY LockAssumption, SMTT(30) DEF FenceInv, TypeOK
  <2> QED
    BY <1>1, <1>2, <2>1, SMTT(30) DEF LockAge
<1>4. ASSUME NEW r \in Procs, r # p PROVE LockAge(r)'
  <2>1. LockAge(r)
    BY Zenon DEF FenceInv
  <2> QED
    BY <1>1, <1>2, <1>4, <2>1, Zenon DEF LockAge, HasLock
<1> QED
  BY <1>3, <1>4, Zenon DEF FenceInv

\* A fence passes for a lock that is there and young enough.
LEMMA FencePassKeepsFence ==
    ASSUME TypeOK, KeysInv, FenceInv, NEW p \in Procs, FencePass(p)
    PROVE  FenceInv'
<1>1. /\ UNCHANGED <<now, key, written, lag, broken, victims>>
      /\ pc[p] = "held" /\ pc'[p] = "fenced" /\ fencedAt'[p] = now
      /\ HasLock(p) /\ now - refreshed[p] <= MaxUnrefreshed
      /\ refreshed'[p] = refreshed[p] \/ refreshed'[p] = now
      /\ \A r \in Procs \ {p} : /\ pc'[r] = pc[r] /\ fencedAt'[r] = fencedAt[r]
                                /\ refreshed'[r] = refreshed[r]
      /\ \/ locks' = locks /\ refreshed'[p] = refreshed[p]
         \/ locks' = Without({key[p]}) \cup {[key |-> key[p], time |-> now]}
  BY Zenon DEF FencePass, LockValid, clockVars, scanVars, historyVars, TypeOK
<1>2. \A k : Doomed(k)' => Doomed(k)
  BY <1>1, Zenon DEF Doomed
<1>3. /\ LockKeys' = LockKeys
      /\ \/ locks' = locks /\ refreshed'[p] = refreshed[p]
         \/ \A l \in locks' : \/ l \in locks /\ l.key # key[p]
                              \/ l.key = key[p] /\ l.time = now
  <2>1. CASE locks' = locks /\ refreshed'[p] = refreshed[p]
    BY <2>1, Zenon DEF LockKeys
  <2>2. CASE locks' = Without({key[p]}) \cup {[key |-> key[p], time |-> now]}
    <3>1. key[p] \in LockKeys
      BY <1>1, Zenon DEF HasLock
    <3> QED
      BY <2>2, <3>1, RefreshKeepsKeys, Zenon
  <2> QED
    BY <1>1, <2>1, <2>2, Zenon
<1>4. LockAge(p)'
  <2>1. LockAge(p)
    BY Zenon DEF FenceInv
  <2>2. /\ now \in Int /\ refreshed[p] \in Int /\ lag[p] \in Int
        /\ StaleLock \in Int /\ MaxUnrefreshed \in Int /\ refreshed'[p] \in Int
        /\ MaxUnrefreshed >= 0
    <3>1. refreshed'[p] = refreshed[p] \/ refreshed'[p] = now
      BY <1>1, Zenon
    <3> QED
      BY <3>1, LockAssumption, SMTT(30) DEF TypeOK
  <2>3. lag[p] <= StaleLock - MaxUnrefreshed => ~Doomed(key[p])
    <3>1. /\ Doomed(key[p]) /\ lag[p] <= StaleLock - MaxUnrefreshed
                => now - refreshed[p] > StaleLock - lag[p]
          /\ now - refreshed[p] <= MaxUnrefreshed
      BY <1>1, <2>1, Zenon DEF LockAge
    <3> QED
      BY <2>2, <3>1, SMTT(30)
  <2>4. refreshed'[p] <= now /\ now - refreshed'[p] <= MaxUnrefreshed
    <3>1. /\ refreshed'[p] = refreshed[p] \/ refreshed'[p] = now
          /\ refreshed[p] <= now /\ now - refreshed[p] <= MaxUnrefreshed
      BY <1>1, <2>1, Zenon DEF LockAge
    <3> QED
      BY <2>2, <3>1, SMTT(30)
  <2>5. \A l \in locks' : l.key = key[p] => l.time >= refreshed'[p] - lag[p]
    BY <1>1, <1>3, <2>1, <2>2, SMTT(30) DEF LockAge
  <2>6. HasLock(p)'
    BY <1>1, <1>3, Zenon DEF HasLock
  <2>7. lag[p] >= 0
    BY <1>1, <2>1, Zenon DEF LockAge
  <2> QED
    BY <1>1, <1>2, <2>2, <2>3, <2>4, <2>5, <2>6, <2>7, SMTT(30) DEF LockAge
<1>5. ASSUME NEW r \in Procs, r # p PROVE LockAge(r)'
  <2>1. LockAge(r)
    BY Zenon DEF FenceInv
  <2>2. pc[r] \in {"put", "list", "reap", "reaping", "check", "held", "fenced"}
           => key[r] # key[p]
    BY <1>5, KeysDiffer, SMTT(30)
  <2>3. \A l \in locks' : l.key # key[p] => l \in locks
    BY <1>3, Zenon
  <2> QED
    BY <1>1, <1>2, <1>3, <1>5, <2>1, <2>2, <2>3, Zenon DEF LockAge, HasLock
<1> QED
  BY <1>4, <1>5, SMTT(30) DEF FenceInv

\* A lock object is never older than its holder believes plus its lag.
LEMMA FenceInductive ==
    TypeOK /\ KeysInv /\ PhaseInv /\ FenceInv /\ [Next]_vars => FenceInv'
<1> SUFFICES ASSUME TypeOK, KeysInv, PhaseInv, FenceInv, [Next]_vars
             PROVE  FenceInv'
  OBVIOUS
<1>1. ASSUME NEW p \in Procs, LockLost(p) PROVE FenceInv'
  <2>1. Quiet(p)
    BY <1>1, Zenon
       DEF Quiet, TypeOK, Procs, Sessions, storageVars, clockVars, fenceVars,
         scanVars, historyVars, LockLost
  <2> QED
    BY <2>1, QuietKeepsFence, Zenon
<1>2. ASSUME NEW p \in Procs, ListFailed(p) PROVE FenceInv'
  <2>1. Quiet(p)
    BY <1>2, Zenon
       DEF Quiet, TypeOK, Procs, Sessions, storageVars, clockVars, fenceVars,
         scanVars, historyVars, ListFailed
  <2> QED
    BY <2>1, QuietKeepsFence, Zenon
<1>3. ASSUME NEW p \in Procs, Withdraw(p) PROVE FenceInv'
  <2>1. Quiet(p)
    BY <1>3, Zenon
       DEF Quiet, TypeOK, Procs, Sessions, storageVars, clockVars, fenceVars,
         scanVars, historyVars, Withdraw, AttemptsLeft, Removals, Without, DropGuard
  <2> QED
    BY <2>1, QuietKeepsFence, Zenon
<1>4. ASSUME NEW p \in Procs, Refused(p) PROVE FenceInv'
  <2>1. Quiet(p)
    BY <1>4, Zenon
       DEF Quiet, TypeOK, Procs, Sessions, storageVars, clockVars, fenceVars,
         scanVars, historyVars, Refused, DropGuard
  <2> QED
    BY <2>1, QuietKeepsFence, Zenon
<1>5. ASSUME NEW p \in Procs, RegisterSession(p) PROVE FenceInv'
  <2>1. Quiet(p)
    BY <1>5, Zenon
       DEF Quiet, TypeOK, Procs, Sessions, storageVars, clockVars, fenceVars,
         scanVars, historyVars, RegisterSession, BeginAcquire
  <2> QED
    BY <2>1, QuietKeepsFence, Zenon
<1>6. ASSUME NEW p \in Procs, ReleaseProbe(p) PROVE FenceInv'
  <2>1. Quiet(p)
    BY <1>6, Zenon
       DEF Quiet, TypeOK, Procs, Sessions, storageVars, clockVars, fenceVars,
         scanVars, historyVars, ReleaseProbe, Without, DropGuard
  <2> QED
    BY <2>1, QuietKeepsFence, Zenon
<1>7. ASSUME NEW p \in Procs, LeaveSession(p) PROVE FenceInv'
  <2>1. Quiet(p)
    BY <1>7, Zenon
       DEF Quiet, TypeOK, Procs, Sessions, storageVars, clockVars, fenceVars,
         scanVars, historyVars, LeaveSession
  <2> QED
    BY <2>1, QuietKeepsFence, Zenon
<1>8. ASSUME NEW p \in Procs, BeginCommit(p) PROVE FenceInv'
  <2>1. Quiet(p)
    BY <1>8, Zenon
       DEF Quiet, TypeOK, Procs, Sessions, storageVars, clockVars, fenceVars,
         scanVars, historyVars, BeginCommit, BeginAcquire
  <2> QED
    BY <2>1, QuietKeepsFence, Zenon
<1>9. ASSUME NEW p \in Procs, DeregisterSession(p) PROVE FenceInv'
  <2>1. Quiet(p)
    BY <1>9, Zenon
       DEF Quiet, TypeOK, Procs, Sessions, storageVars, clockVars, fenceVars,
         scanVars, historyVars, DeregisterSession
  <2> QED
    BY <2>1, QuietKeepsFence, Zenon
<1>10. ASSUME NEW p \in Procs, BeginMaintenance(p) PROVE FenceInv'
  <2>1. Quiet(p)
    BY <1>10, Zenon
       DEF Quiet, TypeOK, Procs, Sessions, storageVars, clockVars, fenceVars,
         scanVars, historyVars, BeginMaintenance, BeginAcquire
  <2> QED
    BY <2>1, QuietKeepsFence, Zenon
<1>11. ASSUME NEW p \in Procs, ScanStaleSessions(p) PROVE FenceInv'
  <2>1. Quiet(p)
    BY <1>11, Zenon
       DEF Quiet, TypeOK, Procs, Sessions, storageVars, clockVars, fenceVars,
         scanVars, historyVars, ScanStaleSessions
  <2> QED
    BY <2>1, QuietKeepsFence, Zenon
<1>12. ASSUME NEW p \in Procs, ReapStaleSessions(p) PROVE FenceInv'
  <2>1. Quiet(p)
    BY <1>12, Zenon
       DEF Quiet, TypeOK, Procs, Sessions, storageVars, clockVars, fenceVars,
         scanVars, historyVars, ReapStaleSessions
  <2> QED
    BY <2>1, QuietKeepsFence, Zenon
<1>13. ASSUME NEW p \in Procs, CheckSessions(p) PROVE FenceInv'
  <2>1. Quiet(p)
    BY <1>13, Zenon
       DEF Quiet, TypeOK, Procs, Sessions, storageVars, clockVars, fenceVars,
         scanVars, historyVars, CheckSessions
  <2> QED
    BY <2>1, QuietKeepsFence, Zenon
<1>14. ASSUME NEW p \in Procs, FenceFail(p) PROVE FenceInv'
  <2>1. Quiet(p)
    BY <1>14, Zenon
       DEF Quiet, TypeOK, Procs, Sessions, storageVars, clockVars, fenceVars,
         scanVars, historyVars, FenceFail, WindUp
  <2> QED
    BY <2>1, QuietKeepsFence, Zenon
<1>15. ASSUME NEW p \in Procs, GuardedWrite(p) PROVE FenceInv'
  <2>1. Quiet(p)
    BY <1>15, Zenon
       DEF Quiet, TypeOK, Procs, Sessions, storageVars, clockVars, fenceVars,
         scanVars, historyVars, GuardedWrite
  <2> QED
    BY <2>1, QuietKeepsFence, Zenon
<1>16. ASSUME NEW p \in Procs, FinishWrites(p) PROVE FenceInv'
  <2>1. Quiet(p)
    BY <1>16, Zenon
       DEF Quiet, TypeOK, Procs, Sessions, storageVars, clockVars, fenceVars,
         scanVars, historyVars, FinishWrites, WindUp
  <2> QED
    BY <2>1, QuietKeepsFence, Zenon
<1>17. ASSUME NEW p \in Procs, ReleaseLock(p) PROVE FenceInv'
  <2>1. Quiet(p)
    BY <1>17, Zenon
       DEF Quiet, TypeOK, Procs, Sessions, storageVars, clockVars, fenceVars,
         scanVars, historyVars, ReleaseLock, Removals, Without, DropGuard
  <2> QED
    BY <2>1, QuietKeepsFence, Zenon
<1>18. ASSUME NEW p \in Procs, Crash(p) PROVE FenceInv'
  <2>1. Quiet(p)
    BY <1>18, Zenon
       DEF Quiet, TypeOK, Procs, Sessions, storageVars, clockVars, fenceVars,
         scanVars, historyVars, Crash, DropGuard
  <2> QED
    BY <2>1, QuietKeepsFence, Zenon
<1>19. ASSUME NEW p \in Procs, CleanupStaleLocks(p) PROVE FenceInv'
  BY <1>19, ScanKeepsFence, Zenon
<1>20. ASSUME NEW p \in Procs, Stamp(p) PROVE FenceInv'
  BY <1>20, StampKeepsFence, Zenon
<1>21. ASSUME NEW p \in Procs, PutLock(p) PROVE FenceInv'
  BY <1>21, PutKeepsFence, Zenon
<1>22. ASSUME NEW p \in Procs, LockWon(p) PROVE FenceInv'
  BY <1>22, WonKeepsFence, SMTT(30)
<1>23. ASSUME NEW p \in Procs, FencePass(p) PROVE FenceInv'
  BY <1>23, FencePassKeepsFence, SMTT(30)
<1>24. ASSUME UNCHANGED <<now, locks, key, pc, written, lag, refreshed, fencedAt, broken,
                          victims>>
       PROVE  FenceInv'
  <2>1. UNCHANGED LockKeys /\ \A k : Doomed(k)' <=> Doomed(k)
    BY <1>24, Zenon DEF LockKeys, Doomed
  <2>2. ASSUME NEW r \in Procs PROVE LockAge(r)'
    BY <1>24, <2>1, Zenon DEF FenceInv, LockAge, HasLock
  <2> QED
    BY <2>2, Zenon DEF FenceInv
<1>25. CASE Tick
  <2>1. /\ UNCHANGED <<locks, key, pc, written, lag, refreshed, fencedAt, broken, victims>>
        /\ now' = now + 1
    BY <1>25, Zenon DEF Tick, storageVars, fenceVars, scanVars, historyVars
  <2>2. UNCHANGED LockKeys /\ \A k : Doomed(k)' <=> Doomed(k)
    BY <2>1, Zenon DEF LockKeys, Doomed
  <2>3. ASSUME NEW r \in Procs PROVE LockAge(r)'
    <3>1. /\ now \in Int /\ written[r] \in Int /\ refreshed[r] \in Int /\ lag[r] \in Int
          /\ fencedAt[r] \in Int /\ StaleLock \in Int /\ MaxUnrefreshed \in Int
      BY LockAssumption, SMTT(30) DEF TypeOK
    <3>2. LockAge(r)
      BY Zenon DEF FenceInv
    <3> QED
      BY <2>1, <2>2, <3>1, <3>2, SMTT(30) DEF LockAge, HasLock
  <2> QED
    BY <2>3, SMTT(30) DEF FenceInv
<1>26. CASE BreakLock
  <2>1. /\ UNCHANGED <<now, key, pc, written, lag, refreshed, fencedAt, victims>>
        /\ locks' = {} /\ broken' = broken \cup LockKeys
    BY <1>26, Zenon DEF BreakLock, clockVars, fenceVars, scanVars
  <2>2. LockKeys' = {} /\ \A k : Doomed(k)' <=> Doomed(k)
    BY <2>1, Zenon DEF LockKeys, Doomed
  <2>3. ASSUME NEW r \in Procs PROVE LockAge(r)'
    <3>1. LockAge(r)
      BY Zenon DEF FenceInv
    <3> QED
      BY <2>1, <2>2, <3>1, Zenon DEF LockAge, HasLock
  <2> QED
    BY <2>3, SMTT(30) DEF FenceInv
<1>27. ASSUME NEW s \in Sessions, RefreshSession(s) PROVE FenceInv'
  BY <1>24, <1>27, Zenon
     DEF RefreshSession, clockVars, fenceVars, scanVars, historyVars
<1>28. CASE ClearAllSessions
  BY <1>24, <1>28, Zenon DEF ClearAllSessions, clockVars, fenceVars, scanVars
<1>29. CASE UNCHANGED vars
  BY <1>24, <1>29, Zenon DEF vars
<1> QED
  BY <1>1, <1>2, <1>3, <1>4, <1>5, <1>6, <1>7, <1>8, <1>9, <1>10, <1>11, <1>12,
     <1>13, <1>14, <1>15, <1>16, <1>17, <1>18, <1>19, <1>20, <1>21, <1>22, <1>23,
     <1>25, <1>26, <1>27, <1>28, <1>29, Zenon
     DEF Next, Step

--------------------------------------------------------------------------------

\* The inductive invariant holds initially.
LEMMA InitIInv == Init => IInv
<1> SUFFICES ASSUME Init PROVE IInv
  OBVIOUS
<1> USE LockAssumption DEF Init, Procs, Sessions
<1>1. TypeOK
  BY SMTT(30) DEF TypeOK, PCs
<1>2. KeysInv
  BY SMTT(30) DEF KeysInv
<1>3. PhaseInv
  BY Zenon DEF PhaseInv
<1>4. MarkerInv
  BY Zenon DEF MarkerInv, Marked
<1>5. ExclusionInv
  BY Zenon DEF ExclusionInv, Marked
<1>6. FenceInv
  BY Zenon DEF FenceInv, LockAge
<1> QED
  BY <1>1, <1>2, <1>3, <1>4, <1>5, <1>6, Zenon DEF IInv

\* The inductive invariant holds in every reachable state.
LEMMA SpecIInv == Spec => []IInv
<1>1. IInv /\ [Next]_vars => IInv'
  BY TypeInductive, KeysInductive, PhaseInductive, MarkerInductive,
     ExclusionInductive, FenceInductive, Zenon DEF IInv
<1> QED
  BY InitIInv, <1>1, PTL DEF Spec

\* Type correctness of the locking protocol.
THEOREM TypeCorrect == Spec => []TypeOK
<1>1. IInv => TypeOK
  BY Zenon DEF IInv
<1> QED
  BY SpecIInv, <1>1, PTL

\* For any number of backups, readers and maintenance commands, crashes, storage
\* failures and lock breaks included: maintenance that still has its lock object
\* shares the repository only with sessions whose marker was removed.
THEOREM MaintenanceExclusion == Spec => []MaintenanceExcludesSessions
<1>1. IInv => MaintenanceExcludesSessions
  BY SMTT(30) DEF IInv, PhaseInv, ExclusionInv, Losing, MaintenanceExcludesSessions,
         InSession, Marked
<1> QED
  BY SpecIInv, <1>1, PTL

\* For any time-outs with LOCK_MAX_UNREFRESHED_SECS below the stale age: a write
\* that follows its fence within the difference, less the lag of the lock, owns
\* its lock object.
THEOREM FenceProtectsWrites == Spec => []FencedWriteOwnsLock
<1>1. IInv => FencedWriteOwnsLock
  BY SMTT(30) DEF IInv, FenceInv, LockAge, FencedWriteOwnsLock
<1> QED
  BY SpecIInv, <1>1, PTL

--------------------------------------------------------------------------------
\* The refinement mapping: who is in the repository, as SharedExclusive sees it.
Sharers == {s \in Sessions : InSession(s) /\ s \notin reaped}
Owners == {m \in Maints : Maintaining(m) /\ HasLock(m)}

\* Fewer sharers is a Leave step, fewer owners a Disown step.
LEMMA FewerSharers ==
    ASSUME Sharers' \subseteq Sharers, Owners' = Owners
    PROVE  Promise!Next
<1>1. PICK S \in SUBSET Sessions : Sharers' = Sharers \ S
  <2>1. Sharers \ Sharers' \in SUBSET Sessions
    BY Zenon DEF Sharers
  <2>2. Sharers' = Sharers \ (Sharers \ Sharers')
    OBVIOUS
  <2> QED
    BY <2>1, <2>2, Zenon
<1>2. Promise!Leave(S)
  BY <1>1, Zenon DEF Promise!Leave, Sharers, Owners
<1> QED
  BY <1>2, Zenon DEF Promise!Next

LEMMA FewerOwners ==
    ASSUME Sharers' = Sharers, Owners' \subseteq Owners
    PROVE  Promise!Next
<1>1. PICK M \in SUBSET Maints : Owners' = Owners \ M
  <2>1. Owners \ Owners' \in SUBSET Maints
    BY Zenon DEF Owners
  <2>2. Owners' = Owners \ (Owners \ Owners')
    OBVIOUS
  <2> QED
    BY <2>1, <2>2, Zenon
<1>2. Promise!Disown(M)
  BY <1>1, Zenon DEF Promise!Disown, Sharers, Owners
<1> QED
  BY <1>2, Zenon DEF Promise!Next

\* Every step of the protocol is a step of the promise or a stutter.
LEMMA PromiseStep == IInv /\ [Next]_vars => [Promise!Next]_(Promise!vars)
<1> SUFFICES ASSUME IInv, [Next]_vars PROVE [Promise!Next]_(Promise!vars)
  OBVIOUS
<1> DEFINE Fewer == \/ Sharers' = Sharers /\ Owners' \subseteq Owners
                    \/ Sharers' \subseteq Sharers /\ Owners' = Owners
<1>0. Fewer => Promise!Next
  BY FewerSharers, FewerOwners, Zenon
<1>1. /\ pc \in [Procs -> PCs] /\ phase \in [Procs -> {"probe", "commit", "maint"}]
      /\ key \in [Procs -> Nat] /\ reaped \in SUBSET Sessions
      /\ PhaseInv
  BY Zenon DEF IInv, TypeOK
<1> USE DEF InSession, Maintaining, HasLock, PCs, PhaseInv, Procs, Sessions, storageVars,
            historyVars
<1>2. ASSUME NEW p \in Procs, CleanupStaleLocks(p) PROVE Fewer
  <2>1. LockKeys' = LockKeys
    BY <1>2, Zenon DEF CleanupStaleLocks, LockKeys
  <2> QED
    BY <1>1, <1>2, <2>1, Zenon DEF CleanupStaleLocks, Sharers, Owners
<1>3. ASSUME NEW p \in Procs, Stamp(p) PROVE Fewer
  <2>1. LockKeys' \subseteq LockKeys
    BY <1>3, Zenon DEF Stamp, Without, LockKeys
  <2> QED
    BY <1>1, <1>3, <2>1, Zenon DEF Stamp, Sharers, Owners
<1>4. ASSUME NEW p \in Procs, PutLock(p) PROVE Fewer
  <2>1. /\ LockKeys \subseteq LockKeys'
        /\ \A k \in LockKeys' : k # key[p] => k \in LockKeys
    BY <1>4, SMTT(30) DEF PutLock, LockKeys
  <2>2. \A m \in Maints : pc[m] \in {"held", "fenced"} => key[m] # key[p]
    BY <1>4, KeysDiffer, Zenon DEF PutLock, IInv
  <2> QED
    BY <1>1, <1>4, <2>1, <2>2, Zenon DEF PutLock, Sharers, Owners
<1>5. ASSUME NEW p \in Procs, LockLost(p) PROVE Fewer
  <2>1. LockKeys' = LockKeys
    BY <1>5, Zenon DEF LockLost, LockKeys
  <2> QED
    BY <1>1, <1>5, <2>1, Zenon DEF LockLost, Sharers, Owners
<1>6. ASSUME NEW p \in Procs, ListFailed(p) PROVE Fewer
  <2>1. LockKeys' = LockKeys
    BY <1>6, Zenon DEF ListFailed, LockKeys
  <2> QED
    BY <1>1, <1>6, <2>1, Zenon DEF ListFailed, Sharers, Owners
<1>7. ASSUME NEW p \in Procs, Withdraw(p) PROVE Fewer
  <2>1. LockKeys' \subseteq LockKeys
    BY <1>7, Zenon DEF Withdraw, Without, LockKeys
  <2> QED
    BY <1>1, <1>7, <2>1, Zenon DEF Withdraw, Sharers, Owners
<1>8. ASSUME NEW p \in Procs, Refused(p) PROVE Fewer
  <2>1. LockKeys' = LockKeys
    BY <1>8, Zenon DEF Refused, LockKeys
  <2> QED
    BY <1>1, <1>8, <2>1, Zenon DEF Refused, Sharers, Owners
<1>9. ASSUME NEW p \in Procs, RegisterSession(p) PROVE Fewer
  <2>1. LockKeys' = LockKeys
    BY <1>9, Zenon DEF RegisterSession, LockKeys
  <2> QED
    BY <1>1, <1>9, <2>1, Zenon DEF RegisterSession, BeginAcquire, Sharers, Owners
<1>10. ASSUME NEW p \in Procs, BeginCommit(p) PROVE Fewer
  <2>1. LockKeys' = LockKeys
    BY <1>10, Zenon DEF BeginCommit, LockKeys
  <2> QED
    BY <1>1, <1>10, <2>1, Zenon DEF BeginCommit, BeginAcquire, Sharers, Owners
<1>11. ASSUME NEW p \in Procs, BeginMaintenance(p) PROVE Fewer
  <2>1. LockKeys' = LockKeys
    BY <1>11, Zenon DEF BeginMaintenance, LockKeys
  <2> QED
    BY <1>1, <1>11, <2>1, Zenon DEF BeginMaintenance, BeginAcquire, Sharers, Owners
<1>12. ASSUME NEW p \in Procs, ScanStaleSessions(p) PROVE Fewer
  <2>1. LockKeys' = LockKeys
    BY <1>12, Zenon DEF ScanStaleSessions, LockKeys
  <2> QED
    BY <1>1, <1>12, <2>1, Zenon DEF ScanStaleSessions, Sharers, Owners
<1>13. ASSUME NEW p \in Procs, FencePass(p) PROVE Fewer
  <2>1. LockKeys' = LockKeys
    <3>1. key[p] \in LockKeys
      BY <1>13, Zenon DEF FencePass, LockValid
    <3>2. \/ UNCHANGED locks
          \/ locks' = Without({key[p]}) \cup {[key |-> key[p], time |-> now]}
      BY <1>13, Zenon DEF FencePass
    <3>3. CASE UNCHANGED locks
      BY <3>3, Zenon DEF LockKeys
    <3> QED
      BY <3>1, <3>2, <3>3, RefreshKeepsKeys, Zenon
  <2> QED
    BY <1>1, <1>13, <2>1, Zenon DEF FencePass, Sharers, Owners
<1>14. ASSUME NEW p \in Procs, FenceFail(p) PROVE Fewer
  <2>1. LockKeys' = LockKeys
    BY <1>14, Zenon DEF FenceFail, LockKeys
  <2> QED
    BY <1>1, <1>14, <2>1, Zenon DEF FenceFail, WindUp, Sharers, Owners
<1>15. ASSUME NEW p \in Procs, GuardedWrite(p) PROVE Fewer
  <2>1. LockKeys' = LockKeys
    BY <1>15, Zenon DEF GuardedWrite, LockKeys
  <2> QED
    BY <1>1, <1>15, <2>1, Zenon DEF GuardedWrite, Sharers, Owners
<1>16. ASSUME NEW p \in Procs, FinishWrites(p) PROVE Fewer
  <2>1. LockKeys' = LockKeys
    BY <1>16, Zenon DEF FinishWrites, LockKeys
  <2> QED
    BY <1>1, <1>16, <2>1, Zenon DEF FinishWrites, WindUp, Sharers, Owners
<1>17. ASSUME NEW p \in Procs, ReleaseLock(p) PROVE Fewer
  <2>1. LockKeys' \subseteq LockKeys
    BY <1>17, Zenon DEF ReleaseLock, Without, LockKeys
  <2> QED
    BY <1>1, <1>17, <2>1, Zenon DEF ReleaseLock, Sharers, Owners
<1>18. ASSUME NEW p \in Procs, ReleaseProbe(p) PROVE Fewer
  <2>1. /\ LockKeys' \subseteq LockKeys
        /\ \A k \in LockKeys : k # key[p] => k \in LockKeys'
    BY <1>18, Zenon DEF ReleaseProbe, Without, LockKeys
  <2>2. \A m \in Maints : pc[m] \in {"held", "fenced"} => key[m] # key[p]
    BY <1>18, KeysDiffer, Zenon DEF ReleaseProbe, IInv
  <2> QED
    BY <1>1, <1>18, <2>1, <2>2, Zenon DEF ReleaseProbe, Sharers, Owners
<1>19. ASSUME NEW p \in Procs, LeaveSession(p) PROVE Fewer
  <2>1. LockKeys' = LockKeys
    BY <1>19, Zenon DEF LeaveSession, LockKeys
  <2> QED
    BY <1>1, <1>19, <2>1, Zenon DEF LeaveSession, Sharers, Owners
<1>20. ASSUME NEW p \in Procs, DeregisterSession(p) PROVE Fewer
  <2>1. LockKeys' = LockKeys
    BY <1>20, Zenon DEF DeregisterSession, LockKeys
  <2> QED
    BY <1>1, <1>20, <2>1, Zenon DEF DeregisterSession, Sharers, Owners
<1>21. ASSUME NEW p \in Procs, ReapStaleSessions(p) PROVE Fewer
  <2>1. LockKeys' = LockKeys
    BY <1>21, Zenon DEF ReapStaleSessions, LockKeys
  <2> QED
    BY <1>1, <1>21, <2>1, Zenon DEF ReapStaleSessions, Sharers, Owners
<1>22. ASSUME NEW p \in Procs, Crash(p) PROVE Fewer
  <2>1. LockKeys' = LockKeys
    BY <1>22, Zenon DEF Crash, LockKeys
  <2> QED
    BY <1>1, <1>22, <2>1, Zenon DEF Crash, Sharers, Owners
<1>23. ASSUME NEW s \in Sessions, RefreshSession(s) PROVE Fewer
  <2>1. LockKeys' = LockKeys
    BY <1>23, Zenon DEF RefreshSession, LockKeys
  <2> QED
    BY <1>1, <1>23, <2>1, Zenon DEF RefreshSession, Sharers, Owners
<1>24. ASSUME Tick PROVE Fewer
  <2>1. LockKeys' = LockKeys
    BY <1>24, Zenon DEF Tick, LockKeys
  <2> QED
    BY <1>1, <1>24, <2>1, Zenon DEF Tick, Sharers, Owners
<1>25. ASSUME BreakLock PROVE Fewer
  <2>1. LockKeys' = {}
    BY <1>25, Zenon DEF BreakLock, LockKeys
  <2> QED
    BY <1>1, <1>25, <2>1, Zenon DEF BreakLock, Sharers, Owners
<1>26. ASSUME ClearAllSessions PROVE Fewer
  <2>1. LockKeys' = LockKeys
    BY <1>26, Zenon DEF ClearAllSessions, LockKeys
  <2> QED
    BY <1>1, <1>26, <2>1, Zenon DEF ClearAllSessions, Sharers, Owners
<1>27. ASSUME UNCHANGED vars PROVE Fewer
  <2>1. LockKeys' = LockKeys
    BY <1>27, Zenon DEF vars, LockKeys
  <2> QED
    BY <1>1, <1>27, <2>1, Zenon DEF vars, Sharers, Owners
<1>28. ASSUME NEW p \in Procs, LockWon(p) PROVE Promise!Next
  <2>1. LockKeys' = LockKeys
    BY <1>28, Zenon DEF LockWon, LockKeys
  <2>2. CASE phase[p] # "probe" \/ p \in reaped
    <3>1. Fewer
      BY <1>1, <1>28, <2>1, <2>2, ZenonT(30) DEF LockWon, Sharers, Owners
    <3> QED
      BY <1>0, <3>1, Zenon
  <2>3. CASE phase[p] = "probe" /\ p \notin reaped
    <3>1. p \in Sessions
      BY <1>1, <2>3, Zenon
    <3>2. /\ \A s \in Sessions : (InSession(s) /\ s \notin reaped)'
                                    <=> s = p \/ (InSession(s) /\ s \notin reaped)
          /\ UNCHANGED <<Sessions, Maints>>
      BY <1>1, <1>28, <2>3, <3>1, Zenon DEF LockWon
    <3>3. \A m \in Maints : (Maintaining(m) /\ HasLock(m))' <=> Maintaining(m) /\ HasLock(m)
      BY <1>1, <1>28, <2>1, <2>3, <3>1, Zenon DEF LockWon
    <3> HIDE DEF InSession, Maintaining, HasLock, Sessions
    <3>4. Sharers' = Sharers \cup {p} /\ Owners' = Owners
      BY <3>1, <3>2, <3>3, Zenon DEF Sharers, Owners
    <3>5. ASSUME NEW m \in Owners PROVE FALSE
      <4>1. m \in Maints /\ Maintaining(m) /\ HasLock(m)
        BY Zenon DEF Owners
      <4>2. pc[p] = "list" /\ WinsLock(p)
        BY <1>28, Zenon DEF LockWon
      <4>3. key[p] > key[m]
        BY <2>3, <3>1, <4>1, <4>2, SMTT(30) DEF IInv, ExclusionInv, Marked, Losing
      <4>4. key[p] <= key[m]
        BY <4>1, <4>2, Zenon DEF WinsLock, HasLock
      <4>5. key[p] \in Nat /\ key[m] \in Nat
        BY <1>1, <4>1, Zenon
      <4> QED
        BY <4>3, <4>4, <4>5, SMTT(30)
    <3>6. Owners = {}
      BY <3>5, Zenon
    <3>7. Promise!Enter(p)
      BY <3>4, <3>6, Zenon DEF Promise!Enter, Sharers, Owners
    <3> QED
      BY <3>1, <3>7, Zenon DEF Promise!Next
  <2> QED
    BY <2>2, <2>3, Zenon
<1>29. ASSUME NEW p \in Procs, CheckSessions(p) PROVE Promise!Next
  <2>1. LockKeys' = LockKeys
    BY <1>29, Zenon DEF CheckSessions, LockKeys
  <2>2. CASE pc'[p] = "held" /\ HasLock(p)
    <3>1. p \in Maints
      BY <1>29, Zenon DEF CheckSessions
    <3>2. \A s \in Sessions : (InSession(s) /\ s \notin reaped)'
                                 <=> InSession(s) /\ s \notin reaped
      BY <1>1, <1>29, <3>1, Zenon DEF CheckSessions
    <3>3. \A m \in Maints : (Maintaining(m) /\ HasLock(m))'
                               <=> m = p \/ (Maintaining(m) /\ HasLock(m))
      BY <1>1, <1>29, <2>1, <2>2, <3>1, Zenon DEF CheckSessions
    <3>4. NoSessions
      BY <1>1, <1>29, <2>2, Zenon DEF CheckSessions
    <3>5. \A s \in Sessions : InSession(s) => s \in reaped
      BY <1>1, <3>4, Zenon DEF IInv, MarkerInv, Marked, NoSessions
    <3> HIDE DEF InSession, Maintaining, HasLock, Sessions
    <3>6. Owners' = Owners \cup {p} /\ Sharers' = Sharers /\ Sharers = {}
      BY <3>1, <3>2, <3>3, <3>5, Zenon DEF Sharers, Owners
    <3>7. Promise!Own(p)
      BY <3>6, Zenon DEF Promise!Own, Sharers, Owners
    <3> QED
      BY <3>1, <3>7, Zenon DEF Promise!Next
  <2>3. CASE ~(pc'[p] = "held" /\ HasLock(p))
    <3>1. Fewer
      BY <1>1, <1>29, <2>1, <2>3, Zenon DEF CheckSessions, Sharers, Owners
    <3> QED
      BY <1>0, <3>1, SMTT(30)
  <2> QED
    BY <2>2, <2>3, Zenon
<1> HIDE DEF Fewer
<1> QED
  BY <1>0, <1>2, <1>3, <1>4, <1>5, <1>6, <1>7, <1>8, <1>9, <1>10,
     <1>11, <1>12, <1>13, <1>14, <1>15, <1>16, <1>17, <1>18, <1>19, <1>20,
     <1>21, <1>22, <1>23, <1>24, <1>25, <1>26, <1>27, <1>28, <1>29, Zenon
     DEF Next, Step

\* The locking protocol of RepoLock implements shared sessions against exclusive
\* maintenance, for any processes, time-outs and failures.
THEOREM LockingImplementsPromise == Spec => ImplementsPromise
<1>1. Init => Promise!Init
  BY LockAssumption, Zenon
     DEF Init, Promise!Init, InSession, Maintaining, Procs, Sessions
<1> QED
  BY SpecIInv, PromiseStep, <1>1, PTL DEF Spec, ImplementsPromise, Promise!Spec

================================================================================
