------------------------------ MODULE Repository -------------------------------
(***************************************************************************)
(* The contents of a vykar repository (packs, chunk index, snapshots,      *)
(* session journals) and the commands that change it: backup with its      *)
(* upload and commit phases, delete, prune and compact, next to commands   *)
(* that only read.  Every process is one invocation of the program; the    *)
(* shared state is the object store.                                       *)
(*                                                                         *)
(* The locking of module RepoLock appears here by what it promises: the    *)
(* advisory lock has one holder, a session registers only while nobody     *)
(* holds it, maintenance goes on only when no session marker is left.  A   *)
(* fence and the write it guards are one step.                             *)
(*                                                                         *)
(* A pack is content-addressed, so it is modelled by its content: a set of *)
(* blobs.  A blob is a chunk encrypted by one session (nonces are random), *)
(* and compact copies blobs without encrypting them again.                 *)
(***************************************************************************)
EXTENDS IndexDelta, FiniteSets

CONSTANTS
    Backups,        \* invocations of backup
    Readers,        \* invocations of restore, mount, check, ...
    Deletes,        \* invocations of delete
    Prunes,         \* invocations of prune
    Compacts,       \* invocations of compact
    Founder,        \* the backup that made the snapshot the repository starts with
    Names,          \* snapshot names
    None,           \* nobody
    MaxCrashes,     \* bound: processes that die
    Undisturbed,    \* whether nothing is committed between the opening of a
                    \* repository by maintenance and its lock
    Scenarios       \* who takes part, what the repository starts with, what may fail

Sessions == Backups \cup Readers
Maints == Deletes \cup Prunes \cup Compacts
Procs == Sessions \cup Maints

ASSUME RepositoryAssumption ==
    /\ None \notin Procs /\ Founder \notin Backups
    /\ Sessions \cap Maints = {} /\ Backups \cap Readers = {}
    /\ (Deletes \cup Prunes) \cap Compacts = {}
    /\ MaxCrashes \in Nat /\ Undisturbed \in BOOLEAN
    /\ Scenarios \subseteq
         [procs : SUBSET Procs, founded : SUBSET Chunks, dead : SUBSET Chunks,
          names : [Backups \cup {Founder} -> Names], refs : Nat, losses : Nat, suspendable : SUBSET Procs,
          flaky : BOOLEAN, stalling : BOOLEAN]
    /\ \A x \in Scenarios : x.founded \cap x.dead = {}

VARIABLES
    scenario,   \* the scenario, chosen once
    packs,      \* objects under packs/
    index,      \* the object index: a ChunkIndex
    gen,        \* its generation
    snaps,      \* objects under snapshots/
    journals,   \* objects sessions/<id>.index: the packs each lists
    markers,    \* objects sessions/<id>.json
    lock,       \* holder of the advisory lock
    pc,         \* what a process does next
    listed,     \* its snapshot list (manifest)
    view,       \* its in-memory ChunkIndex
    viewGen,    \* the generation of that index
    ws,         \* the write session of a backup
    targets,    \* snapshots a delete or prune removes
    left,       \* those whose object is still to be deleted
    todo,       \* packs a compact still has to process
    work,       \* the pack it is repacking
    reaped,     \* history: sessions whose marker maintenance removed
    crashes,    \* number of crashes so far
    losses      \* number of locks lost so far

packVars == <<packs, journals>>
indexVars == <<index, gen>>
lockVars == <<markers, lock>>
viewVars == <<listed, view, viewGen>>
maintVars == <<targets, left, todo, work>>
auxVars == <<reaped, crashes, losses>>
vars == <<scenario, packs, index, gen, snaps, journals, markers, lock, pc, listed,
          view, viewGen, ws, targets, left, todo, work, reaped, crashes, losses>>

\* What a scenario fixes.
Founded == scenario.founded         \* chunks of the first snapshot
Dead == scenario.dead               \* chunks of its pack that no snapshot refers to any more
MaxRefs == scenario.refs            \* bound: chunk references of a backup
MaxLosses == scenario.losses        \* bound: times a live process loses its lock
Suspendable == scenario.suspendable \* processes suspended until their lock is stale
Flaky == scenario.flaky             \* whether requests to the store may fail
Stalling == scenario.stalling       \* whether the marker of a live session may become stale

--------------------------------------------------------------------------------
\* Data

Blobs == Chunks \X (Backups \cup {Founder})
ChunksOf(pack) == {blob[1] : blob \in pack}

\* A pack with the blobs of the given chunks, encrypted by w.
PackOf(chunks, w) == {<<c, w>> : c \in chunks}

\* References of a set of snapshots to a chunk, and their number.
References(S, c) == UNION {{s} \X (1..s.refs[c]) : s \in S}
RefsTo(S, c) == Cardinality(References(S, c))

\* Whether chunk c can be read through the index ix: the pack is there and has it.
Resolves(ix, c) ==
    c \in Indexed(ix) /\ ix[c].pack \in packs /\ c \in ChunksOf(ix[c].pack)
Readable(ix, S) == \A s \in S : \A c \in Counted(s.refs) : Resolves(ix, c)

\* A fresh write session (begin_write_session).
NewSession ==
    [new |-> EmptyIndex, bumps |-> NoCounts, writer |-> NoCounts,
     refs |-> NoCounts, recovered |-> [c \in Chunks |-> {}], keys |-> {},
     journal |-> {}, inflight |-> {}, failed |-> FALSE, ok |-> FALSE]

\* The subsets of S that a best-effort removal or upload may achieve.
Achieved(S) == IF Flaky THEN SUBSET S ELSE {S}

Goto(p, l) == pc' = [pc EXCEPT ![p] = l]

\* Scheduling assumption of an undisturbed system: the index and the snapshots are
\* written only while no maintenance command is between its opening and its lock.
Quiet == Undisturbed => \A m \in Maints : pc[m] \notin {"load", "lock"}

--------------------------------------------------------------------------------
\* A repository with at most one snapshot.
FirstPack == PackOf(Founded \cup Dead, Founder)
FirstSnapshot ==
    [id |-> Founder, name |-> scenario.names[Founder],
     refs |-> [c \in Chunks |-> IF c \in Founded THEN 1 ELSE 0]]

Init ==
    /\ scenario \in Scenarios
    /\ packs = {FirstPack} \ {{}}
    /\ index = [c \in Chunks |-> IF c \in Founded
                                 THEN [pack |-> FirstPack, refs |-> 1] ELSE Absent]
    /\ gen = 0
    /\ snaps = IF Founded = {} THEN {} ELSE {FirstSnapshot}
    /\ journals = [b \in Backups |-> {}]
    /\ markers = {} /\ lock = None
    /\ pc = [p \in Procs |-> IF p \notin scenario.procs THEN "done"
                             ELSE IF p \in Sessions THEN "idle" ELSE "list"]
    /\ listed = [p \in Procs |-> {}]
    /\ view = [p \in Procs |-> EmptyIndex]
    /\ viewGen = [p \in Procs |-> 0]
    /\ ws = [b \in Backups |-> NewSession]
    /\ targets = [m \in Maints |-> {}] /\ left = [m \in Maints |-> {}]
    /\ todo = [m \in Maints |-> {}]
    /\ work = [m \in Maints |-> {}]
    /\ reaped = {} /\ crashes = 0 /\ losses = 0

--------------------------------------------------------------------------------
\* Opening a repository

\* register_session: the marker is there and nobody holds the lock.
Register(s) ==
    /\ s \in Sessions /\ pc[s] = "idle"
    /\ lock = None
    /\ markers' = markers \cup {s}
    /\ Goto(s, "list")
    /\ UNCHANGED <<scenario, packVars, indexVars, snaps, lock, viewVars, ws, maintVars, auxVars>>

\* open_inner: the snapshot list is read first ...
ListSnapshots(p) ==
    /\ pc[p] = "list"
    /\ listed' = [listed EXCEPT ![p] = snaps]
    /\ Goto(p, "load")
    /\ UNCHANGED <<scenario, packVars, indexVars, snaps, lockVars, view, viewGen, ws, maintVars,
                   auxVars>>

NameTaken(b, S) == \E s \in S : s.name = scenario.names[b]

\* ... then load_chunk_index.  A backup whose name is taken gives up here.
LoadIndex(p) ==
    /\ pc[p] = "load"
    /\ view' = [view EXCEPT ![p] = index]
    /\ viewGen' = [viewGen EXCEPT ![p] = gen]
    /\ Goto(p, IF p \in Readers THEN "read"
               ELSE IF p \in Maints THEN "lock"
               ELSE IF NameTaken(p, listed[p]) THEN "dereg" ELSE "recover")
    /\ UNCHANGED <<scenario, packVars, indexVars, snaps, lockVars, listed, ws, maintVars, auxVars>>

--------------------------------------------------------------------------------
\* Backup, phase 1: upload

\* recover_pending_index: the journals of other sessions that have no marker, or
\* one not refreshed for 45 minutes.  Packs that are not in storage are skipped;
\* of several packs with a chunk any may be remembered.
\* (Mutant: the packs are not looked up.)
RecoverableUnverified(P) == P

Recoverable(P) == P \cap packs

Recover(b) ==
    /\ b \in Backups /\ pc[b] = "recover"
    /\ \E R \in SUBSET {o \in Backups \ {b} : journals[o] # {}} :
         /\ \A o \in Backups \ {b} : journals[o] # {} /\ o \notin markers => o \in R
         /\ \A o \in R : o \notin markers \/ pc[o] = "crashed" \/ Stalling
         /\ LET found == Recoverable(UNION {journals[o] : o \in R})
                With(c) == IF c \in Indexed(view[b]) THEN {}
                           ELSE {p \in found : c \in ChunksOf(p)}
            IN  \E f \in [Chunks -> found \cup {{}}] :
                  /\ \A c \in Chunks : IF With(c) = {} THEN f[c] = {} ELSE f[c] \in With(c)
                  /\ ws' = [ws EXCEPT ![b].recovered = f, ![b].keys = R,
                                      ![b].journal = found]
    /\ Goto(b, "upload")
    /\ UNCHANGED <<scenario, packVars, indexVars, snaps, lockVars, viewVars, maintVars, auxVars>>

\* The chunks the session's dedup index has: those of the loaded index and those
\* sealed or promoted since.
Known(b) == Indexed(view[b]) \cup Indexed(ws[b].new)

\* The number of chunk references it has stored.
Stored(b) == Cardinality({r \in Chunks \X (1..MaxRefs) : r[2] <= ws[b].refs[r[1]]})

\* store_chunk: bump_ref_if_exists, promote_recovered_chunk, or a pack writer.
WithChunk(b, c) ==
    LET s == [ws[b] EXCEPT !.refs[c] = @ + 1]
    IN  IF c \in Known(b) THEN [s EXCEPT !.bumps[c] = @ + 1]
        ELSE IF s.recovered[c] # {}
        THEN [s EXCEPT !.new[c] = [pack |-> s.recovered[c], refs |-> 1], !.recovered[c] = {}]
        ELSE [s EXCEPT !.writer[c] = @ + 1]

StoreChunk(b, c) ==
    /\ b \in Backups /\ pc[b] = "upload"
    /\ Stored(b) < MaxRefs
    /\ ws' = [ws EXCEPT ![b] = WithChunk(b, c)]
    /\ UNCHANGED <<scenario, packVars, indexVars, snaps, lockVars, pc, viewVars, maintVars, auxVars>>

\* flush_writer_async: the finished uploads are drained (an upload error ends the
\* phase), the journal of the packs so far and the marker may be rewritten, the
\* pack is sealed, recorded and indexed, and its upload starts.
Seal(b) ==
    /\ b \in Backups /\ pc[b] \in {"upload", "flush"}
    /\ Counted(ws[b].writer) # {} /\ ~ws[b].failed
    /\ \E w \in BOOLEAN : journals' = [journals EXCEPT ![b] =
         IF w /\ ws[b].journal # {} THEN ws[b].journal ELSE @]
    /\ \E s \in SUBSET {b} : markers' = markers \cup s
    /\ LET pack == PackOf(Counted(ws[b].writer), b)
       IN  ws' = [ws EXCEPT ![b].new = [c \in Chunks |->
                      IF ws[b].writer[c] > 0
                      THEN [pack |-> pack, refs |-> ws[b].writer[c]] ELSE @[c]],
                  ![b].journal = @ \cup {pack}, ![b].inflight = @ \cup {pack},
                  ![b].writer = NoCounts]
    /\ UNCHANGED <<scenario, packs, indexVars, snaps, lock, pc, viewVars, maintVars, auxVars>>

\* An upload thread puts its pack, or fails.
Upload(b, p) ==
    /\ b \in Backups /\ pc[b] # "crashed" /\ p \in ws[b].inflight
    /\ \/ packs' = packs \cup {p} /\ ws' = [ws EXCEPT ![b].inflight = @ \ {p}]
       \/ Flaky /\ UNCHANGED packs
                /\ ws' = [ws EXCEPT ![b].inflight = @ \ {p}, ![b].failed = TRUE]
    /\ UNCHANGED <<scenario, journals, indexVars, snaps, lockVars, pc, viewVars, maintVars, auxVars>>

\* The walk is over: on to the commit.  Or it failed.
EndUpload(b) ==
    /\ b \in Backups /\ pc[b] = "upload"
    /\ \/ Goto(b, "lock")
       \/ Flaky /\ Goto(b, "abort")
    /\ UNCHANGED <<scenario, packVars, indexVars, snaps, lockVars, viewVars, ws, maintVars, auxVars>>

--------------------------------------------------------------------------------
\* Backup, phase 2: commit

\* acquire_lock_with_retry, which gives up after its attempts.
CommitLock(b) ==
    /\ b \in Backups /\ pc[b] = "lock"
    /\ \/ lock = None /\ lock' = b /\ Goto(b, "flush")
       \/ lock # None /\ UNCHANGED lock /\ Goto(b, "abort")
    /\ UNCHANGED <<scenario, packVars, indexVars, snaps, markers, viewVars, ws, maintVars, auxVars>>

\* An error of the commit: the marker goes, then the lock.
Fail(b) == Goto(b, "deregHeld")

\* flush_packs: an upload error met while sealing ends it at once; when every
\* writer is sealed it waits for the uploads, writes the journal and returns the
\* first upload error.
FlushPacks(b) ==
    /\ b \in Backups /\ pc[b] = "flush"
    /\ \/ /\ Counted(ws[b].writer) # {} /\ ws[b].failed
          /\ UNCHANGED journals
       \/ /\ Counted(ws[b].writer) = {} /\ ws[b].inflight = {}
          /\ journals' = [journals EXCEPT ![b] =
                              IF ws[b].journal # {} THEN ws[b].journal ELSE @]
    /\ IF ws[b].failed THEN Fail(b) ELSE Goto(b, "names")
    /\ UNCHANGED <<scenario, packs, indexVars, snaps, lockVars, viewVars, ws, maintVars, auxVars>>

\* refresh_snapshot_list and the check of the name; an empty delta leaves the
\* index as it is.
\* (Mutant: the name is not checked again.)
RefreshNamesOnce(b) ==
    /\ b \in Backups /\ pc[b] = "names"
    /\ listed' = [listed EXCEPT ![b] = snaps]
    /\ Goto(b, IF DeltaEmpty(ws[b].new, ws[b].bumps) THEN "putSnapshot" ELSE "fetch")
    /\ UNCHANGED <<scenario, packVars, indexVars, snaps, lockVars, view, viewGen, ws, maintVars,
                   auxVars>>

RefreshNames(b) ==
    /\ b \in Backups /\ pc[b] = "names"
    /\ listed' = [listed EXCEPT ![b] = snaps]
    /\ IF NameTaken(b, snaps) THEN Fail(b)
       ELSE Goto(b, IF DeltaEmpty(ws[b].new, ws[b].bumps) THEN "putSnapshot" ELSE "fetch")
    /\ UNCHANGED <<scenario, packVars, indexVars, snaps, lockVars, view, viewGen, ws, maintVars,
                   auxVars>>

\* verify_delta_packs: every pack of a new entry is in storage.
\* (Mutant: nothing is looked up.)
PacksPresentUnverified(new) == TRUE

PacksPresent(new) == \A c \in Indexed(new) : new[c].pack \in packs

\* The index is fetched.  When it is the one the session was opened with and the
\* local caches are intact, the delta is merged into the cache (fast path);
\* otherwise it is reconciled with the fresh index.
FetchIndex(b) ==
    /\ b \in Backups /\ pc[b] = "fetch"
    /\ LET new == ws[b].new
           bumps == ws[b].bumps
       IN  \/ /\ gen = viewGen[b]
              /\ IF PacksPresent(new)
                 THEN /\ view' = [view EXCEPT ![b] = MergedCache(new, bumps, view[b])]
                      /\ Goto(b, "putIndex")
                 ELSE Fail(b) /\ UNCHANGED view
           \/ IF StaleChunks(new, bumps, index) = {} /\ PacksPresent(StillNew(new, index))
              THEN /\ view' = [view EXCEPT ![b] = Reconciled(new, bumps, index)]
                   /\ Goto(b, "putIndex")
              ELSE Fail(b) /\ UNCHANGED view
    /\ UNCHANGED <<scenario, packVars, indexVars, snaps, lockVars, listed, viewGen, ws, maintVars,
                   auxVars>>

\* persist_index, behind the fence.  A request that fails may have had its effect.
PutIndex(b) ==
    /\ b \in Backups /\ pc[b] = "putIndex" /\ Quiet
    /\ \/ /\ lock = b
          /\ index' = view[b] /\ gen' = gen + 1
          /\ Goto(b, "putSnapshot") \/ (Flaky /\ Fail(b))
       \/ /\ lock # b \/ Flaky
          /\ Fail(b) /\ UNCHANGED indexVars
    /\ UNCHANGED <<scenario, packVars, snaps, lockVars, viewVars, ws, maintVars, auxVars>>

\* The snapshot object, behind the fence: the commit point.
PutSnapshot(b) ==
    /\ b \in Backups /\ pc[b] = "putSnapshot" /\ Quiet
    /\ \/ /\ lock = b
          /\ snaps' = snaps \cup {[id |-> b, name |-> scenario.names[b], refs |-> ws[b].refs]}
          /\ Goto(b, "cleanup") \/ (Flaky /\ Fail(b))
       \/ /\ lock # b \/ Flaky
          /\ Fail(b) /\ UNCHANGED snaps
    /\ UNCHANGED <<scenario, packVars, indexVars, lockVars, viewVars, ws, maintVars, auxVars>>

\* The rest of the commit: the journals that were recovered from are deleted, unless
\* reloading the index fails, which is reported although the snapshot is there.
CleanupRecovered(b) ==
    /\ b \in Backups /\ pc[b] = "cleanup"
    /\ \/ /\ \E gone \in Achieved(ws[b].keys) :
               journals' = [o \in Backups |-> IF o \in gone THEN {} ELSE journals[o]]
          /\ ws' = [ws EXCEPT ![b].ok = TRUE]
       \/ Flaky /\ UNCHANGED <<journals, ws>>
    /\ Goto(b, "deregHeld")
    /\ UNCHANGED <<scenario, packs, indexVars, snaps, lockVars, viewVars, maintVars, auxVars>>

\* deregister_session; under the lock it comes before the release.
Deregister(s) ==
    /\ s \in Sessions /\ pc[s] \in {"dereg", "deregHeld"}
    /\ markers' = markers \ {s}
    /\ Goto(s, IF pc[s] = "deregHeld" THEN "release" ELSE "done")
    /\ UNCHANGED <<scenario, packVars, indexVars, snaps, lock, viewVars, ws, maintVars, auxVars>>

\* release_lock removes the holder's own key only.
Release(p) ==
    /\ pc[p] = "release"
    /\ lock' = IF lock = p THEN None ELSE lock
    /\ Goto(p, IF p \in Maints THEN "done"
               ELSE IF ws[p].ok THEN "clear" ELSE "abort")
    /\ UNCHANGED <<scenario, packVars, indexVars, snaps, markers, viewVars, ws, maintVars, auxVars>>

\* clear_pending_index after a successful commit
ClearJournal(b) ==
    /\ b \in Backups /\ pc[b] = "clear"
    /\ \E gone \in Achieved({b}) :
         journals' = [journals EXCEPT ![b] = IF b \in gone THEN {} ELSE @]
    /\ Goto(b, "done")
    /\ UNCHANGED <<scenario, packs, indexVars, snaps, lockVars, viewVars, ws, maintVars, auxVars>>

\* flush_on_abort: seal what is left, wait for the uploads whatever becomes of
\* them, and write the final journal.
FlushOnAbort(b) ==
    /\ b \in Backups /\ pc[b] = "abort"
    /\ LET sealed == {PackOf(Counted(ws[b].writer), b)} \ {{}}
           journal == ws[b].journal \cup sealed
       IN  /\ \E P \in Achieved(ws[b].inflight \cup sealed) : packs' = packs \cup P
           /\ \E done \in Achieved({b}) : journals' = [journals EXCEPT ![b] =
                 IF b \in done /\ journal # {} THEN journal ELSE @]
           /\ \E s \in SUBSET {b} : markers' = IF sealed # {} THEN markers \cup s ELSE markers
           /\ ws' = [ws EXCEPT ![b].inflight = {}, ![b].writer = NoCounts,
                               ![b].journal = journal]
    /\ Goto(b, "dereg")
    /\ UNCHANGED <<scenario, indexVars, snaps, lock, viewVars, maintVars, auxVars>>

--------------------------------------------------------------------------------
\* Commands that only read

\* The refresh thread of a SessionGuard re-creates the marker.
RefreshMarker(r) ==
    /\ r \in Readers /\ pc[r] = "read" /\ r \notin markers
    /\ markers' = markers \cup {r}
    /\ UNCHANGED <<scenario, packVars, indexVars, snaps, lock, pc, viewVars, ws, maintVars, auxVars>>

\* The command is over; its guard removes the marker.
EndRead(r) ==
    /\ r \in Readers /\ pc[r] = "read"
    /\ Goto(r, "dereg")
    /\ UNCHANGED <<scenario, packVars, indexVars, snaps, lockVars, viewVars, ws, maintVars, auxVars>>

--------------------------------------------------------------------------------
\* Maintenance

\* The sessions whose marker cleanup_stale_sessions may find stale.
MaySeemStale == {s \in markers : pc[s] = "crashed" \/ Stalling}

\* with_maintenance_lock.  Markers found stale are removed, their journals stay
\* for one more run; journals without a marker are removed.  Maintenance goes on
\* only if no marker is left.
\* (Mutant: the sessions that are left do not matter.)
NoMarkerLeftUnchecked(S) == TRUE

NoMarkerLeft(S) == S = {}

MaintenanceLock(m) ==
    /\ m \in Maints /\ pc[m] = "lock"
    /\ lock = None
    /\ \E stale \in SUBSET MaySeemStale :
         /\ markers' = markers \ stale
         /\ reaped' = reaped \cup stale
         /\ \E gone \in Achieved({o \in Backups : o \notin markers /\ journals[o] # {}}) :
              journals' = [o \in Backups |-> IF o \in gone THEN {} ELSE journals[o]]
         /\ IF NoMarkerLeft(markers \ stale)
            THEN lock' = m /\ Goto(m, "work")
            ELSE UNCHANGED lock /\ Goto(m, "done")
    /\ UNCHANGED <<scenario, packs, indexVars, snaps, viewVars, ws, maintVars, crashes, losses>>

\* The lock is held: maintenance tries once.
MaintenanceRefused(m) ==
    /\ m \in Maints /\ pc[m] = "lock" /\ lock # None
    /\ Goto(m, "done")
    /\ UNCHANGED <<scenario, packVars, indexVars, snaps, lockVars, viewVars, ws, maintVars, auxVars>>

\* What delete and prune remove: one snapshot of the list, or any set of them (the
\* retention policy); their metadata is read first.  An error, or nothing to
\* remove, ends the command.
ChooseTargets(m) ==
    /\ m \in Deletes \cup Prunes /\ pc[m] = "work"
    /\ \/ \E T \in SUBSET listed[m] :
            /\ T # {} /\ T \subseteq snaps
            /\ m \in Deletes => Cardinality(T) = 1
            /\ targets' = [targets EXCEPT ![m] = T]
            /\ left' = [left EXCEPT ![m] = T]
            /\ Goto(m, "delete")
       \/ Goto(m, "release") /\ UNCHANGED <<targets, left>>
    /\ UNCHANGED <<scenario, packVars, indexVars, snaps, lockVars, viewVars, ws, todo, work, auxVars>>

\* The snapshot objects go first, each behind the fence; prune may be interrupted.
DeleteSnapshot(m) ==
    /\ m \in Maints /\ pc[m] = "delete" /\ Quiet
    /\ \/ /\ lock = m
          /\ \E s \in left[m] :
               /\ snaps' = snaps \ {s}
               /\ left' = [left EXCEPT ![m] = @ \ {s}]
               /\ \/ Goto(m, IF left[m] = {s} THEN "save" ELSE "delete")
                  \/ Flaky /\ Goto(m, "release")
       \/ /\ lock # m \/ m \in Prunes \/ Flaky
          /\ UNCHANGED <<snaps, left>> /\ Goto(m, "release")
    /\ UNCHANGED <<scenario, packVars, indexVars, lockVars, viewVars, ws, targets, todo, work, auxVars>>

\* decrement_snapshot_chunk_refs for every target, then save_state behind the
\* fence.  prune reads the items only now, which may fail.
DecrementTargets(m) == Decremented(view[m], [c \in Chunks |-> RefsTo(targets[m], c)])

SaveDecremented(m) ==
    /\ m \in Maints /\ pc[m] = "save" /\ Quiet
    /\ \/ lock = m /\ index' = DecrementTargets(m) /\ gen' = gen + 1
       \/ /\ lock # m \/ Flaky \/ (m \in Prunes /\ ~Readable(view[m], targets[m]))
          /\ UNCHANGED indexVars
    /\ Goto(m, "release")
    /\ UNCHANGED <<scenario, packVars, snaps, lockVars, viewVars, ws, maintVars, auxVars>>

\* compact_repo, analysis: the packs with dead blobs, each with its live chunks
\* according to the loaded index; a pack without live chunks is an orphan.  Sizes
\* are left out, so the threshold and the cap select any of them, and the order of
\* their dead bytes is any order.  The fence is checked once.
LiveIn(ix, p) == {c \in Indexed(ix) : ix[c].pack = p}

Analyse(m) ==
    /\ m \in Compacts /\ pc[m] = "work"
    /\ LET found == {[pack |-> p, live |-> LiveIn(view[m], p)] : p \in packs}
       IN  \E Q \in SUBSET {a \in found : ChunksOf(a.pack) # a.live} :
             /\ todo' = [todo EXCEPT ![m] = Q]
             /\ Goto(m, IF Q # {} /\ lock = m THEN "repack" ELSE "release")
    /\ UNCHANGED <<scenario, packVars, indexVars, snaps, lockVars, viewVars, ws, targets, left, work,
                   auxVars>>

\* A pack without live chunks is deleted at once.
DeleteOrphan(m) ==
    /\ m \in Compacts /\ pc[m] = "repack"
    /\ \E a \in todo[m] :
         /\ a.live = {}
         /\ packs' = packs \ {a.pack}
         /\ todo' = [todo EXCEPT ![m] = @ \ {a}]
    /\ UNCHANGED <<scenario, journals, indexVars, snaps, lockVars, pc, viewVars, ws, targets, left,
                   work, auxVars>>

\* The live blobs are copied to a new pack and the in-memory index is updated.
WriteRepacked(m) ==
    /\ m \in Compacts /\ pc[m] = "repack"
    /\ \E a \in todo[m] :
         /\ a.live # {}
         /\ LET pack == {blob \in a.pack : blob[1] \in a.live}
            IN  IF a.pack \in packs
                THEN /\ packs' = packs \cup {pack}
                     /\ view' = [view EXCEPT ![m] = Relocated(@, a.live, pack)]
                     /\ work' = [work EXCEPT ![m] = a.pack]
                     /\ todo' = [todo EXCEPT ![m] = @ \ {a}]
                     /\ Goto(m, "saveIndex") \/ (Flaky /\ Goto(m, "release"))
                ELSE UNCHANGED <<packs, view, work, todo>> /\ Goto(m, "release")
    /\ UNCHANGED <<scenario, journals, indexVars, snaps, lockVars, listed, viewGen, ws, targets, left,
                   auxVars>>

\* save_state, behind the fence, before the old pack is deleted.
\* (Mutant: the old pack is deleted first.)
SaveRelocatedLate(m) ==
    /\ m \in Compacts /\ pc[m] = "saveIndex"
    /\ Goto(m, "deleteOld")
    /\ UNCHANGED <<scenario, packVars, indexVars, snaps, lockVars, viewVars, ws, maintVars, auxVars>>

SaveRelocated(m) ==
    /\ m \in Compacts /\ pc[m] = "saveIndex" /\ Quiet
    /\ \/ /\ lock = m
          /\ index' = view[m] /\ gen' = gen + 1
          /\ Goto(m, "deleteOld") \/ (Flaky /\ Goto(m, "release"))
       \/ /\ lock # m \/ Flaky
          /\ UNCHANGED indexVars /\ Goto(m, "release")
    /\ UNCHANGED <<scenario, packVars, snaps, lockVars, viewVars, ws, maintVars, auxVars>>

DeleteOld(m) ==
    /\ m \in Compacts /\ pc[m] = "deleteOld"
    /\ \/ packs' = packs \ {work[m]} /\ Goto(m, "repack")
       \/ Flaky /\ UNCHANGED packs /\ Goto(m, "release")
    /\ work' = [work EXCEPT ![m] = {}]
    /\ UNCHANGED <<scenario, journals, indexVars, snaps, lockVars, viewVars, ws, targets, left, todo,
                   auxVars>>

\* The packs are processed, the size limit is reached or the command is
\* interrupted.  The last save_state finds the index clean and writes nothing.
EndCompact(m) ==
    /\ m \in Compacts /\ pc[m] = "repack"
    /\ Goto(m, "release")
    /\ UNCHANGED <<scenario, packVars, indexVars, snaps, lockVars, viewVars, ws, maintVars, auxVars>>

--------------------------------------------------------------------------------
\* The environment

\* A process dies; its uploads and its write session are gone.
Crash(p) ==
    /\ pc[p] \notin {"idle", "done", "crashed"}
    /\ crashes < MaxCrashes
    /\ crashes' = crashes + 1
    /\ Goto(p, "crashed")
    /\ ws' = [b \in Backups |-> IF b = p THEN NewSession ELSE ws[b]]
    /\ UNCHANGED <<scenario, packVars, indexVars, snaps, lockVars, viewVars, maintVars, reaped,
                   losses>>

\* The lock of a dead process, or of one that was suspended, is removed as stale.
LoseLock ==
    /\ lock # None
    /\ \/ pc[lock] = "crashed" /\ UNCHANGED losses
       \/ /\ lock \in Suspendable /\ losses < MaxLosses
          /\ losses' = losses + 1
    /\ lock' = None
    /\ UNCHANGED <<scenario, packVars, indexVars, snaps, markers, pc, viewVars, ws, maintVars, reaped,
                   crashes>>

--------------------------------------------------------------------------------
\* Every process has ended.
Terminated ==
    /\ \A p \in Procs : pc[p] \in {"done", "crashed"}
    /\ UNCHANGED vars

BackupStep(b) ==
    \/ Recover(b) \/ Seal(b) \/ EndUpload(b)
    \/ \E c \in Chunks : StoreChunk(b, c)
    \/ \E p \in ws[b].inflight : Upload(b, p)
    \/ CommitLock(b) \/ FlushPacks(b) \/ RefreshNames(b) \/ FetchIndex(b)
    \/ PutIndex(b) \/ PutSnapshot(b) \/ CleanupRecovered(b)
    \/ ClearJournal(b) \/ FlushOnAbort(b)

MaintenanceStep(m) ==
    \/ MaintenanceLock(m) \/ MaintenanceRefused(m)
    \/ ChooseTargets(m) \/ DeleteSnapshot(m) \/ SaveDecremented(m)
    \/ Analyse(m) \/ DeleteOrphan(m) \/ WriteRepacked(m) \/ SaveRelocated(m)
    \/ DeleteOld(m) \/ EndCompact(m)

Next ==
    \/ \E p \in Procs : ListSnapshots(p) \/ LoadIndex(p) \/ Release(p) \/ Crash(p)
    \/ \E s \in Sessions : Register(s) \/ Deregister(s)
    \/ \E b \in Backups : BackupStep(b)
    \/ \E r \in Readers : RefreshMarker(r) \/ EndRead(r)
    \/ \E m \in Maints : MaintenanceStep(m)
    \/ LoseLock
    \/ Terminated

Spec == Init /\ [][Next]_vars

--------------------------------------------------------------------------------
\* Properties

\* An entry is there as long as it has references.
Indices == [Chunks -> {e \in [pack : SUBSET Blobs, refs : Nat] : e.refs = 0 => e = Absent}]
Snapshots == [id : Backups \cup {Founder}, name : Names, refs : Counts]
WriteSessions ==
    [new : Indices, bumps : Counts, writer : Counts, refs : Counts,
     recovered : [Chunks -> SUBSET Blobs], keys : SUBSET Backups,
     journal : SUBSET SUBSET Blobs, inflight : SUBSET SUBSET Blobs,
     failed : BOOLEAN, ok : BOOLEAN]
Phases ==
    {"idle", "list", "load", "recover", "upload", "lock", "flush", "names", "fetch", "putIndex",
     "putSnapshot", "cleanup", "deregHeld", "dereg", "release", "clear", "abort", "read", "work",
     "delete", "save", "repack", "saveIndex", "deleteOld", "done", "crashed"}

\* Type correctness: the objects in storage and the memory of every process have
\* the shape that the structures of the program give them.
TypeOK ==
    /\ scenario \in Scenarios
    /\ packs \subseteq SUBSET Blobs
    /\ index \in Indices /\ gen \in Nat
    /\ snaps \in SUBSET Snapshots
    /\ journals \in [Backups -> SUBSET SUBSET Blobs]
    /\ markers \in SUBSET Sessions
    /\ lock \in Procs \cup {None}
    /\ pc \in [Procs -> Phases]
    /\ listed \in [Procs -> SUBSET Snapshots]
    /\ view \in [Procs -> Indices] /\ viewGen \in [Procs -> Nat]
    /\ ws \in [Backups -> WriteSessions]
    /\ targets \in [Maints -> SUBSET Snapshots] /\ left \in [Maints -> SUBSET Snapshots]
    /\ todo \in [Maints -> SUBSET [pack : SUBSET Blobs, live : SUBSET Chunks]]
    /\ work \in [Maints -> SUBSET Blobs]
    /\ reaped \in SUBSET Sessions /\ crashes \in Nat /\ losses \in Nat

\* No committed snapshot ever loses data: every chunk of every snapshot object is
\* in the index and the pack it names is in storage, whatever sessions,
\* maintenance, crashes and lost locks came before (verify_delta_packs, the
\* reconciliation of the delta, the order index before snapshot in the commit,
\* snapshot before index in delete, index before pack in compact).
SnapshotsResolve == Readable(index, snaps)

\* A reference count never falls below the references of the snapshots, so that
\* delete and prune cannot remove an entry that another snapshot needs.
RefcountsCover ==
    \A c \in Chunks : index[c].refs >= RefsTo(snaps, c)

\* Nothing that a backup in its upload phase depends on is deleted, as long as its
\* marker has not been taken for stale: the packs of its new entries, recovered
\* ones included, are in storage or on their way, and the chunks it deduplicated
\* against can be read.  (with_maintenance_lock, recover_single_index)
ActiveBackupsKeepPacks ==
    \A b \in Backups \ reaped : pc[b] \in {"upload", "lock", "flush", "names", "fetch"} =>
        \A c \in Chunks :
            /\ c \in Indexed(ws[b].new) /\ ~ws[b].failed =>
                   ws[b].new[c].pack \in packs \cup ws[b].inflight
            /\ ws[b].bumps[c] > 0 /\ c \in Indexed(view[b]) => Resolves(index, c)

\* The index never names a pack that is not in storage (the order of compact: new
\* pack, index, old pack; and of a commit: packs, then index).
IndexResolves == \A c \in Indexed(index) : Resolves(index, c)

\* No two snapshots have the same name, although every backup checks its name
\* against a list it read before (refresh_snapshot_list in the commit).
UniqueNames == \A s, t \in snaps : s.name = t.name => s = t

\* The fast path of a commit gives the index that the slow path would give: no
\* new entry overlaps an entry of the cache and no bump has lost its target.
FastPathAgrees ==
    \A b \in Backups : pc[b] = "fetch" /\ gen = viewGen[b] =>
        LET new == ws[b].new
            bumps == ws[b].bumps
        IN  /\ StaleChunks(new, bumps, index) = {}
            /\ MergedCache(new, bumps, view[b]) = Reconciled(new, bumps, index)

\* The index object, whoever writes it and by whichever path of
\* commit_concurrent_session: it is well-formed, counts every reference of the
\* snapshots, and is the same as the other path would have written.
IndexSound == TypeOK /\ RefcountsCover /\ FastPathAgrees

\* A command that only reads can read all it has listed through the index it has
\* loaded, as long as its marker has not been taken for stale: snapshots are
\* listed before the index is loaded, and maintenance waits for its session.
ReaderResolves ==
    \A r \in Readers \ reaped : pc[r] = "read" => Readable(view[r], listed[r])
================================================================================
