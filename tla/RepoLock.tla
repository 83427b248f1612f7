------------------------------- MODULE RepoLock --------------------------------
(***************************************************************************)
(* The two-tier locking of a vykar repository: the advisory lock           *)
(* (locks/<ts>-<uuid>.json), the session markers (sessions/<id>.json), the *)
(* lock fence, and the maintenance lock that combines them.  Every process *)
(* is one invocation of the program; the shared state is the object store. *)
(*                                                                         *)
(* A lock key starts with the microsecond at which it was stamped, and the *)
(* hosts' clocks are taken to be synchronised, so a key is modelled by its *)
(* position in the order of stamping.  Ages are measured on a coarse clock.*)
(***************************************************************************)
EXTENDS Integers, FiniteSets

CONSTANTS
    Backups,          \* invocations of backup
    Readers,          \* invocations of list, restore, check, ... (read sessions)
    Maints,           \* invocations of delete, prune, compact, check --repair
    None,             \* an absent session marker
    StaleLock,        \* DEFAULT_STALE_LOCK_SECS, in clock ticks
    MaxUnrefreshed,   \* LOCK_MAX_UNREFRESHED_SECS
    RefreshInterval,  \* LOCK_REFRESH_INTERVAL_SECS
    StaleSession,     \* DEFAULT_STALE_SESSION_SECS
    ProbeAttempts,    \* lock attempts of register_session
    CommitAttempts,   \* lock attempts of a backup's commit phase
    MaxWrites,        \* fenced writes of a maintenance command
    MaxTime,          \* bound: clock ticks
    MaxCrashes,       \* bound: processes that die
    MaxBreaks,        \* bound: runs of break-lock
    SameHost,         \* whether the processes run on one host
    Flaky             \* whether storage requests may fail

Sessions == Backups \cup Readers
Procs == Sessions \cup Maints

ASSUME LockAssumption ==
    /\ Backups \cap Readers = {} /\ Sessions \cap Maints = {}
    /\ None \notin Int
    /\ StaleLock \in Nat /\ MaxUnrefreshed \in Nat /\ RefreshInterval \in Nat
    /\ StaleSession \in Nat
    /\ ProbeAttempts \in Nat \ {0} /\ CommitAttempts \in Nat \ {0}
    /\ MaxWrites \in Nat /\ MaxTime \in Nat /\ MaxCrashes \in Nat
    /\ MaxBreaks \in Nat /\ SameHost \in BOOLEAN /\ Flaky \in BOOLEAN
    /\ MaxUnrefreshed < StaleLock

VARIABLES
    now,        \* the clock
    nextKey,    \* the next lock key to be stamped
    locks,      \* objects under locks/: a key and the time written in the object
    markers,    \* objects under sessions/: last_refresh of the marker, or None
    pc,         \* what a process does next
    phase,      \* why it takes the lock: "probe", "commit" or "maint"
    attempts,   \* lock attempts it has left
    key,        \* its latest lock key
    written,    \* the time it stamped its latest key with
    lag,        \* how long after that time acquire_lock returned the lock
    refreshed,  \* acquired_at, then last_refreshed of the fence
    fencedAt,   \* when its fence passed, until the write it guards is done
    left,       \* guarded writes it still has to do
    victims,    \* lock keys its scan of the locks found stale
    stale,      \* sessions its scan of the markers found stale
    reaped,     \* history: sessions whose marker another process removed
    broken,     \* history: lock keys that break-lock removed
    crashes,    \* number of crashes so far
    breaks      \* number of break-lock runs so far

storageVars == <<locks, markers>>
clockVars == <<now, nextKey>>
fenceVars == <<written, lag, refreshed, fencedAt, left>>
scanVars == <<victims, stale>>
historyVars == <<reaped, broken>>
boundVars == <<crashes, breaks>>
vars == <<now, nextKey, locks, markers, pc, phase, attempts, key, written,
          lag, refreshed, fencedAt, left, victims, stale, reaped, broken, crashes,
          breaks>>

--------------------------------------------------------------------------------
\* Helpers

PCs == {"idle", "scan", "stamp", "put", "list", "withdraw", "refused",
        "probed", "active", "reap", "reaping", "check", "held", "fenced",
        "dereg", "deregHeld", "release", "done", "crashed"}

LockKeys == {l.key : l \in locks}
HasLock(p) == key[p] \in LockKeys
Without(K) == {l \in locks : l.key \notin K}

\* What can become of a storage request: it succeeds, it takes effect but its
\* reply is lost, or it fails.
Outcomes == IF Flaky THEN {"ok", "lost", "failed"} ELSE {"ok"}

\* What a best-effort removal of a set of objects leaves removed.
Removals(S) == IF Flaky THEN SUBSET S ELSE {S}

\* A session from its successful registration to its deregistration.
InSession(s) ==
    /\ s \in Sessions
    /\ \/ pc[s] \in {"probed", "active"}
       \/ phase[s] = "commit" /\ pc[s] \notin {"release", "done", "crashed"}

\* A maintenance command that has passed its checks and may modify the repository.
Maintaining(m) == m \in Maints /\ pc[m] \in {"held", "fenced"}

\* A process that acquire_lock has told it holds the lock.
Holds(p) == pc[p] \in {"probed", "reap", "reaping", "check", "held", "fenced",
                       "deregHeld", "release"}

--------------------------------------------------------------------------------
Init ==
    /\ now = 0 /\ nextKey = 1
    /\ locks = {}
    /\ markers = [s \in Sessions |-> None]
    /\ pc = [p \in Procs |-> "idle"]
    /\ phase = [p \in Procs |-> IF p \in Maints THEN "maint" ELSE "probe"]
    /\ attempts = [p \in Procs |-> 0]
    /\ key = [p \in Procs |-> 0]
    /\ written = [p \in Procs |-> 0]
    /\ lag = [p \in Procs |-> 0]
    /\ refreshed = [p \in Procs |-> 0]
    /\ fencedAt = [p \in Procs |-> 0]
    /\ left = [p \in Procs |-> 0]
    /\ victims = [p \in Procs |-> {}] /\ stale = [p \in Procs |-> {}]
    /\ reaped = {} /\ broken = {} /\ crashes = 0 /\ breaks = 0

--------------------------------------------------------------------------------
\* acquire_lock

\* The LockGuard and its fence are dropped.
DropGuard(p) ==
    /\ written' = [written EXCEPT ![p] = 0]
    /\ lag' = [lag EXCEPT ![p] = 0]
    /\ refreshed' = [refreshed EXCEPT ![p] = 0]
    /\ fencedAt' = [fencedAt EXCEPT ![p] = 0]
    /\ left' = [left EXCEPT ![p] = 0]

\* acquire_lock_with_retry starts an attempt budget; maintenance tries once.
BeginAcquire(p, n) ==
    /\ attempts' = [attempts EXCEPT ![p] = n]
    /\ pc' = [pc EXCEPT ![p] = "scan"]

\* cleanup_stale_locks: list the locks and read the time in each.  An error of
\* LIST or GET ends acquire_lock.
CleanupStaleLocks(p) ==
    /\ pc[p] = "scan"
    /\ \E o \in Outcomes \ {"lost"} :
         /\ victims' = [victims EXCEPT ![p] =
                IF o = "ok" THEN {l.key : l \in {k \in locks : now - k.time > StaleLock}}
                            ELSE {}]
         /\ pc' = [pc EXCEPT ![p] = IF o = "ok" THEN "stamp" ELSE "refused"]
    /\ UNCHANGED <<stale, clockVars, storageVars, phase, attempts, key, fenceVars,
                   historyVars, boundVars>>

\* Best-effort removal of what the scan found, then Utc::now() for the new key.
Stamp(p) ==
    /\ pc[p] = "stamp"
    /\ \E gone \in Removals(victims[p]) : locks' = Without(gone)
    /\ victims' = [victims EXCEPT ![p] = {}]
    /\ key' = [key EXCEPT ![p] = nextKey]
    /\ nextKey' = nextKey + 1
    /\ written' = [written EXCEPT ![p] = now]
    /\ pc' = [pc EXCEPT ![p] = "put"]
    /\ UNCHANGED <<stale, now, markers, phase, attempts, lag, refreshed, fencedAt, left,
                   historyVars, boundVars>>

\* storage.put of the lock object; an error ends acquire_lock at once.
PutLock(p) ==
    /\ pc[p] = "put"
    /\ \E o \in Outcomes :
         /\ locks' = IF o = "failed" THEN locks
                     ELSE locks \cup {[key |-> key[p], time |-> written[p]]}
         /\ pc' = [pc EXCEPT ![p] = IF o = "ok" THEN "list" ELSE "refused"]
    /\ UNCHANGED <<clockVars, markers, phase, attempts, key, fenceVars, scanVars,
                   historyVars, boundVars>>

\* List the keys again: the oldest key wins.
\* (Mutant: any key that is there wins.)
WinsLockUnordered(p) == HasLock(p)

WinsLock(p) == HasLock(p) /\ \A k \in LockKeys : key[p] <= k

LockWon(p) ==
    /\ pc[p] = "list" /\ WinsLock(p)
    /\ refreshed' = [refreshed EXCEPT ![p] = now]
    /\ lag' = [lag EXCEPT ![p] = now - written[p]]
    /\ \/ phase[p] = "probe" /\ pc' = [pc EXCEPT ![p] = "probed"] /\ UNCHANGED left
       \/ phase[p] = "commit" /\ pc' = [pc EXCEPT ![p] = "held"]
                              /\ left' = [left EXCEPT ![p] = 2]
       \/ phase[p] = "maint" /\ pc' = [pc EXCEPT ![p] = "reap"]
                             /\ \E n \in 0..MaxWrites : left' = [left EXCEPT ![p] = n]
    /\ UNCHANGED <<clockVars, storageVars, phase, attempts, key, written, fencedAt,
                   scanVars, historyVars, boundVars>>

\* An older key is there (Locked, which is retried), or the own key is not
\* (an error, which is not).
LockLost(p) ==
    /\ pc[p] = "list" /\ ~WinsLock(p)
    /\ pc' = [pc EXCEPT ![p] = "withdraw"]
    /\ attempts' = [attempts EXCEPT ![p] = IF HasLock(p) THEN @ ELSE 1]
    /\ UNCHANGED <<clockVars, storageVars, phase, key, fenceVars, scanVars,
                   historyVars, boundVars>>

\* LIST fails: acquire_lock returns the error and leaves its key behind.
ListFailed(p) ==
    /\ pc[p] = "list" /\ Flaky
    /\ pc' = [pc EXCEPT ![p] = "refused"]
    /\ UNCHANGED <<clockVars, storageVars, phase, attempts, key, fenceVars,
                   scanVars, historyVars, boundVars>>

\* The loser deletes its own key (ignoring errors) and retries if it may.
AttemptsLeft(p) == attempts[p] - 1

Withdraw(p) ==
    /\ pc[p] = "withdraw"
    /\ \E gone \in Removals({key[p]}) : locks' = Without(gone)
    /\ attempts' = [attempts EXCEPT ![p] = AttemptsLeft(p)]
    /\ pc' = [pc EXCEPT ![p] = IF AttemptsLeft(p) > 0 THEN "scan" ELSE "refused"]
    /\ DropGuard(p)
    /\ UNCHANGED <<clockVars, markers, phase, key, scanVars,
                   historyVars, boundVars>>

\* The caller of acquire_lock gives up: a session removes its marker.
Refused(p) ==
    /\ pc[p] = "refused"
    /\ pc' = [pc EXCEPT ![p] = IF p \in Sessions THEN "dereg" ELSE "done"]
    /\ DropGuard(p)
    /\ UNCHANGED <<clockVars, storageVars, phase, attempts, key,
                   scanVars, historyVars, boundVars>>

--------------------------------------------------------------------------------
\* Sessions

\* register_session: the marker is written before the lock is probed.
RegisterSession(s) ==
    /\ s \in Sessions /\ pc[s] = "idle"
    /\ markers' = [markers EXCEPT ![s] = now]
    /\ BeginAcquire(s, ProbeAttempts)
    /\ UNCHANGED <<clockVars, locks, phase, key, fenceVars, scanVars,
                   historyVars, boundVars>>

\* The probe lock is released; if that fails the registration is undone.
ReleaseProbe(s) ==
    /\ s \in Sessions /\ pc[s] = "probed"
    /\ \E o \in Outcomes :
         /\ locks' = IF o = "failed" THEN locks ELSE Without({key[s]})
         /\ pc' = [pc EXCEPT ![s] = IF o = "ok" THEN "active" ELSE "dereg"]
    /\ DropGuard(s)
    /\ UNCHANGED <<clockVars, markers, phase, attempts, key, scanVars,
                   historyVars, boundVars>>

\* refresh_session rewrites the marker, and re-creates it when it is missing.
RefreshSession(s) ==
    /\ s \in Sessions /\ pc[s] = "active"
    /\ markers[s] # now
    /\ markers' = [markers EXCEPT ![s] = now]
    /\ UNCHANGED <<clockVars, locks, pc, phase, attempts, key, fenceVars, scanVars,
                   historyVars, boundVars>>

\* A reader finishes (its guard is dropped), or a backup's upload phase fails.
LeaveSession(s) ==
    /\ s \in Sessions /\ pc[s] = "active"
    /\ pc' = [pc EXCEPT ![s] = "dereg"]
    /\ UNCHANGED <<clockVars, storageVars, phase, attempts, key, fenceVars,
                   scanVars, historyVars, boundVars>>

\* Phase 2 of a backup takes the lock with its own attempt budget.
BeginCommit(b) ==
    /\ b \in Backups /\ pc[b] = "active"
    /\ phase' = [phase EXCEPT ![b] = "commit"]
    /\ BeginAcquire(b, CommitAttempts)
    /\ UNCHANGED <<clockVars, storageVars, key, fenceVars, scanVars,
                   historyVars, boundVars>>

\* deregister_session; a committing backup does it before it releases the lock.
DeregisterSession(s) ==
    /\ s \in Sessions /\ pc[s] \in {"dereg", "deregHeld"}
    /\ \E o \in Outcomes :
         markers' = [markers EXCEPT ![s] = IF o = "failed" THEN @ ELSE None]
    /\ pc' = [pc EXCEPT ![s] = IF pc[s] = "deregHeld" THEN "release" ELSE "done"]
    /\ UNCHANGED <<clockVars, locks, phase, attempts, key, fenceVars, scanVars,
                   historyVars, boundVars>>

--------------------------------------------------------------------------------
\* Maintenance

\* with_maintenance_lock asks for the lock once.
BeginMaintenance(m) ==
    /\ m \in Maints /\ pc[m] = "idle"
    /\ BeginAcquire(m, 1)
    /\ UNCHANGED <<clockVars, storageVars, phase, key, fenceVars, scanVars,
                   historyVars, boundVars>>

\* cleanup_stale_sessions, reading: markers not refreshed for StaleSession, or
\* of a process of this host that is dead.
ScanStaleSessions(m) ==
    /\ m \in Maints /\ pc[m] = "reap"
    /\ stale' = [stale EXCEPT ![m] =
                      {s \in Sessions :
                          /\ markers[s] # None
                          /\ \/ now - markers[s] > StaleSession
                             \/ SameHost /\ pc[s] \in {"crashed", "done"}}]
    /\ pc' = [pc EXCEPT ![m] = "reaping"]
    /\ UNCHANGED <<victims, clockVars, storageVars, phase, attempts, key, fenceVars,
                   historyVars, boundVars>>

\* cleanup_stale_sessions, deleting (errors are ignored).
ReapStaleSessions(m) ==
    /\ m \in Maints /\ pc[m] = "reaping"
    /\ \E gone \in Removals(stale[m]) :
         /\ markers' = [s \in Sessions |-> IF s \in gone THEN None ELSE markers[s]]
         /\ reaped' = reaped \cup gone
    /\ stale' = [stale EXCEPT ![m] = {}]
    /\ pc' = [pc EXCEPT ![m] = "check"]
    /\ UNCHANGED <<victims, clockVars, locks, phase, attempts, key, fenceVars, broken,
                   boundVars>>

\* list_sessions: maintenance goes on only if no marker is left.  An error of
\* LIST refuses it as well.
\* (Mutant: the markers are not looked at.)
NoSessionsUnchecked == TRUE

NoSessions == \A s \in Sessions : markers[s] = None

CheckSessions(m) ==
    /\ m \in Maints /\ pc[m] = "check"
    /\ \E o \in Outcomes :
         pc' = [pc EXCEPT ![m] = IF o = "ok" /\ NoSessions
                                 THEN "held" ELSE "release"]
    /\ UNCHANGED <<clockVars, storageVars, phase, attempts, key, fenceVars,
                   scanVars, historyVars, boundVars>>

--------------------------------------------------------------------------------
\* The fence and the writes it guards

\* verify_lock_validity  (Mutant: only the existence of the key is checked.)
LockValidIgnoringAge(p) == HasLock(p)

LockValid(p) == HasLock(p) /\ now - refreshed[p] <= MaxUnrefreshed

\* What a process does with its lock once its work is over or has failed.
\* (Mutant: it just ends.)
WindUpLeaking(p) == "done"

WindUp(p) == IF p \in Backups THEN "deregHeld" ELSE "release"

\* The fence passes; when the refresh interval is over it rewrites the lock
\* object, and takes note of the refresh only if the put succeeded.
FencePass(p) ==
    /\ pc[p] = "held" /\ left[p] > 0
    /\ LockValid(p)
    /\ fencedAt' = [fencedAt EXCEPT ![p] = now]
    /\ pc' = [pc EXCEPT ![p] = "fenced"]
    /\ \E o \in Outcomes :
         IF o # "failed" /\ now - refreshed[p] >= RefreshInterval
         THEN /\ locks' = Without({key[p]}) \cup {[key |-> key[p], time |-> now]}
              /\ refreshed' = [refreshed EXCEPT ![p] = IF o = "ok" THEN now ELSE @]
         ELSE UNCHANGED <<locks, refreshed>>
    /\ UNCHANGED <<clockVars, markers, phase, attempts, key, written, lag, left,
                   scanVars, historyVars, boundVars>>

\* The fence refuses, or cannot look at its key: the operation is abandoned.
FenceFail(p) ==
    /\ pc[p] = "held" /\ left[p] > 0
    /\ ~LockValid(p) \/ Flaky
    /\ pc' = [pc EXCEPT ![p] = WindUp(p)]
    /\ UNCHANGED <<clockVars, storageVars, phase, attempts, key, fenceVars,
                   scanVars, historyVars, boundVars>>

\* The write the fence guards (index, snapshot, deletion of a pack, ...).
GuardedWrite(p) ==
    /\ pc[p] = "fenced"
    /\ left' = [left EXCEPT ![p] = @ - 1]
    /\ fencedAt' = [fencedAt EXCEPT ![p] = 0]
    /\ pc' = [pc EXCEPT ![p] = "held"]
    /\ UNCHANGED <<clockVars, storageVars, phase, attempts, key, written,
                   lag, refreshed, scanVars, historyVars, boundVars>>

\* All writes done.
FinishWrites(p) ==
    /\ pc[p] = "held" /\ left[p] = 0
    /\ pc' = [pc EXCEPT ![p] = WindUp(p)]
    /\ UNCHANGED <<clockVars, storageVars, phase, attempts, key, fenceVars,
                   scanVars, historyVars, boundVars>>

\* release_lock
ReleaseLock(p) ==
    /\ pc[p] = "release"
    /\ \E gone \in Removals({key[p]}) : locks' = Without(gone)
    /\ pc' = [pc EXCEPT ![p] = "done"]
    /\ DropGuard(p)
    /\ UNCHANGED <<clockVars, markers, phase, attempts, key, scanVars,
                   historyVars, boundVars>>

--------------------------------------------------------------------------------
\* The environment

Tick ==
    /\ now < MaxTime
    /\ now' = now + 1
    /\ UNCHANGED <<nextKey, storageVars, pc, phase, attempts, key, fenceVars,
                   scanVars, historyVars, boundVars>>

Crash(p) ==
    /\ pc[p] \notin {"idle", "done", "crashed"}
    /\ crashes < MaxCrashes
    /\ crashes' = crashes + 1
    /\ pc' = [pc EXCEPT ![p] = "crashed"]
    /\ victims' = [victims EXCEPT ![p] = {}]
    /\ stale' = [stale EXCEPT ![p] = {}]
    /\ DropGuard(p)
    /\ UNCHANGED <<clockVars, storageVars, phase, attempts, key,
                   historyVars, breaks>>

\* vykar break-lock
BreakLock ==
    /\ breaks < MaxBreaks
    /\ breaks' = breaks + 1
    /\ locks' = {}
    /\ broken' = broken \cup LockKeys
    /\ UNCHANGED <<clockVars, markers, pc, phase, attempts, key, fenceVars,
                   scanVars, reaped, crashes>>

\* vykar break-lock --sessions: clear_all_sessions, once the operator confirms.
ClearAllSessions ==
    /\ breaks > 0
    /\ \E s \in Sessions : markers[s] # None
    /\ markers' = [s \in Sessions |-> None]
    /\ reaped' = reaped \cup {s \in Sessions : markers[s] # None}
    /\ UNCHANGED <<clockVars, locks, pc, phase, attempts, key, fenceVars, scanVars,
                   broken, boundVars>>

--------------------------------------------------------------------------------
\* One step of process p
Step(p) ==
    \/ CleanupStaleLocks(p) \/ Stamp(p) \/ PutLock(p)
    \/ LockWon(p) \/ LockLost(p) \/ ListFailed(p) \/ Withdraw(p) \/ Refused(p)
    \/ RegisterSession(p) \/ ReleaseProbe(p) \/ LeaveSession(p)
    \/ BeginCommit(p) \/ DeregisterSession(p)
    \/ BeginMaintenance(p) \/ ScanStaleSessions(p) \/ ReapStaleSessions(p)
    \/ CheckSessions(p)
    \/ FencePass(p) \/ FenceFail(p) \/ GuardedWrite(p) \/ FinishWrites(p)
    \/ ReleaseLock(p)

Next ==
    \/ \E p \in Procs : Step(p) \/ Crash(p)
    \/ \E s \in Sessions : RefreshSession(s)
    \/ Tick \/ BreakLock \/ ClearAllSessions

Spec == Init /\ [][Next]_vars

\* Processes that have started go on; a process that crashes does not.
FairSpec == Spec /\ \A p \in Procs : WF_vars(pc[p] # "idle" /\ Step(p))

--------------------------------------------------------------------------------
\* Properties

\* Type invariant.
TypeOK ==
    /\ now \in 0..MaxTime /\ nextKey \in Nat
    /\ locks \in SUBSET [key : Nat, time : 0..MaxTime]
    /\ markers \in [Sessions -> 0..MaxTime \cup {None}]
    /\ pc \in [Procs -> PCs]
    /\ phase \in [Procs -> {"probe", "commit", "maint"}]
    /\ attempts \in [Procs -> Int] /\ key \in [Procs -> Nat]
    /\ written \in [Procs -> 0..MaxTime] /\ lag \in [Procs -> Int]
    /\ refreshed \in [Procs -> 0..MaxTime] /\ fencedAt \in [Procs -> 0..MaxTime]
    /\ left \in [Procs -> Int]
    /\ victims \in [Procs -> SUBSET Nat] /\ stale \in [Procs -> SUBSET Sessions]
    /\ reaped \in SUBSET Sessions /\ broken \in SUBSET Nat
    /\ crashes \in 0..MaxCrashes /\ breaks \in 0..MaxBreaks

\* While a maintenance command that passed its checks still has its lock object,
\* no registered session is in the repository except those whose marker was
\* removed as stale: the marker-then-probe order of register_session against the
\* lock-then-list order of with_maintenance_lock.
MaintenanceExcludesSessions ==
    \A m \in Maints, s \in Sessions :
        Maintaining(m) /\ HasLock(m) /\ InSession(s) => s \in reaped

\* A write issued after a fence passed still owns its lock object, as long as the
\* time since the fence and the delay between stamping the lock and getting it
\* stay within the 30 minutes by which LOCK_MAX_UNREFRESHED_SECS undercuts the
\* stale-lock age; unless an operator broke the lock.
FencedWriteOwnsLock ==
    \A p \in Procs :
        /\ pc[p] = "fenced"
        /\ lag[p] + (now - fencedAt[p]) <= StaleLock - MaxUnrefreshed
        /\ key[p] \notin broken
        => HasLock(p)

\* Neither lock nor marker of p is in storage.
NothingLeft(p) == ~HasLock(p) /\ (p \in Sessions => markers[p] = None)

\* The advisory lock is exclusive: two processes never both hold it with their
\* lock objects in place (docs: "Advisory Lock (exclusive)").
AtMostOneHolder ==
    \A p, q \in Procs :
        Holds(p) /\ HasLock(p) /\ Holds(q) /\ HasLock(q) => p = q

\* Every invocation that starts ends, attempts being bounded and no process
\* waiting for another, and unless it crashes or storage fails it leaves neither
\* its lock nor its marker.
EveryProcessEnds ==
    \A p \in Procs : pc[p] # "idle" ~>
        \/ pc[p] = "crashed"
        \/ pc[p] = "done" /\ (Flaky \/ NothingLeft(p))

\* The locking implements shared sessions against exclusive maintenance.
Promise == INSTANCE SharedExclusive
    WITH sharers <- {s \in Sessions : InSession(s) /\ s \notin reaped},
         owners <- {m \in Maints : Maintaining(m) /\ HasLock(m)}

ImplementsPromise == Promise!Spec

--------------------------------------------------------------------------------
\* The inductive invariant behind the safety properties

\* Stamped keys are distinct and older than the next one.
KeysInv ==
    /\ \A p \in Procs : key[p] < nextKey
    /\ \A p \in Procs :
         pc[p] \in {"put", "list", "reap", "reaping", "check", "held", "fenced"}
            => key[p] > 0
    /\ \A p, q \in Procs : p # q /\ key[p] = key[q] => key[p] = 0
    /\ \A l \in locks : l.key < nextKey
    /\ \A q \in Procs : pc[q] = "stamp" =>
         \A k \in victims[q] : k < nextKey

\* Where each kind of process can be.
PhaseInv ==
    /\ \A m \in Maints :
         /\ phase[m] = "maint"
         /\ pc[m] \notin {"probed", "active", "dereg", "deregHeld"}
    /\ \A s \in Sessions :
         /\ phase[s] = "probe" \/ (phase[s] = "commit" /\ s \in Backups)
         /\ pc[s] = "idle" => phase[s] = "probe"
         /\ pc[s] \notin {"reap", "reaping", "check"}
         /\ pc[s] \in {"held", "fenced", "deregHeld", "release"} => phase[s] = "commit"

\* A session from the creation of its marker to its removal.
Marked(s) == pc[s] \notin {"idle", "done", "crashed", "release"}

MarkerInv == \A s \in Sessions : Marked(s) => markers[s] # None \/ s \in reaped

\* What a session can be doing while maintenance is under way: it lost the race
\* for the lock, or is going to lose it to the older key.
Losing(s, m) ==
    /\ phase[s] = "probe"
    /\ \/ pc[s] \in {"scan", "stamp", "withdraw", "refused", "dereg"}
       \/ pc[s] \in {"put", "list"} /\ key[s] > key[m]

ExclusionInv ==
    \A m \in Maints, s \in Sessions :
        Maintaining(m) /\ HasLock(m) /\ Marked(s) /\ s \notin reaped => Losing(s, m)

\* A key that a process is about to delete as stale.
Doomed(k) == \E q \in Procs : pc[q] = "stamp" /\ k \in victims[q]

\* How old the lock object of a process can be, and what follows for a process
\* that is about to delete it.
LockAge(p) ==
    /\ pc[p] = "put" => /\ written[p] <= now
                        /\ key[p] \notin LockKeys /\ ~Doomed(key[p])
    /\ pc[p] = "list" =>
         /\ written[p] <= now
         /\ \A l \in locks : l.key = key[p] => l.time = written[p]
         /\ Doomed(key[p]) => now - written[p] > StaleLock
    /\ pc[p] \in {"reap", "reaping", "check", "held", "fenced"} =>
         /\ refreshed[p] <= now /\ lag[p] >= 0
         /\ \A l \in locks : l.key = key[p] => l.time >= refreshed[p] - lag[p]
         /\ Doomed(key[p]) /\ lag[p] <= StaleLock - MaxUnrefreshed
               => now - refreshed[p] > StaleLock - lag[p]
    /\ pc[p] = "fenced" =>
         /\ refreshed[p] <= fencedAt[p] /\ fencedAt[p] <= now
         /\ fencedAt[p] - refreshed[p] <= MaxUnrefreshed
         /\ lag[p] + (now - fencedAt[p]) <= StaleLock - MaxUnrefreshed
            /\ key[p] \notin broken => HasLock(p)

FenceInv == \A p \in Procs : LockAge(p)

IInv == TypeOK /\ KeysInv /\ PhaseInv /\ MarkerInv /\ ExclusionInv /\ FenceInv
================================================================================
