----------------------------- MODULE LocalCaches ------------------------------
(***************************************************************************)
(* The caches of the chunk index that a client keeps on its disk, and the  *)
(* generation that ties them to the index object of the repository: the    *)
(* full index cache, the dedup cache and the restore cache derived from    *)
(* it, and the raw index blob that decides whether a commit may take the   *)
(* fast path.  Processes of the same host share the files; processes of    *)
(* all hosts share the repository.                                         *)
(*                                                                         *)
(* A cache file is its generation and its rows, in the order of the file.  *)
(* Writing a temporary file and renaming it is one step.  A file that is   *)
(* missing, too short or of another format is NoCacheFile: as with         *)
(* generation 0 nothing opens it.  An index blob is its generation and its *)
(* entries, which the comparison of ciphertexts tells apart.  The check of *)
(* the fence and the write behind it are one step here; RepoLock looks at  *)
(* the gap between them.                                                   *)
(***************************************************************************)
EXTENDS Integers, Sequences, FiniteSets, FiniteSetsExt, SequencesExt

CONSTANTS
  CacheScenes,    \* what the processes do: records
  CacheChunks,    \* chunk ids, numbers: the files are sorted by them
  MaxGeneration   \* bound on the generations handed out

VARIABLES
  cscene,   \* the member of CacheScenes played; never changes
  repoIndex,    \* the object "index"
  hint,     \* the object "index.gen"
  cacheFiles,    \* host -> name -> cache file
  cp,       \* the processes
  lockedBy, \* the process that holds the repository lock, 0 if none
  fresh,    \* the next generation the random generator returns
  cachePast      \* the index objects there have been, the current one last

cacheVars == <<cscene, repoIndex, hint, cacheFiles, cp, lockedBy, fresh, cachePast>>

D == INSTANCE IndexDelta WITH Chunks <- CacheChunks

-----------------------------------------------------------------------------
(* Cache files                                                             *)

NoCacheFile == [gen |-> 0, rows |-> <<>>]

Sorted(S) ==
  [i \in 1..Cardinality(S) |->
     CHOOSE c \in S : Cardinality({d \in S : d <= c}) = i]

\* build_full_index_cache: the entries sorted by chunk id
RowsOf(ix) ==
  LET ids == Sorted(D!Indexed(ix))
  IN  [i \in DOMAIN ids |-> [id |-> ids[i], refs |-> ix[ids[i]].refs,
                             pack |-> ix[ids[i]].pack]]

CacheAt(rows, c) == {i \in DOMAIN rows : rows[i].id = c}

\* load_chunk_index_from_full_cache: add and increment_refcount_by for every
\* row; of two rows for a chunk the first gives the place.
IndexOfRows(rows) ==
  [c \in CacheChunks |->
     IF CacheAt(rows, c) = {} THEN D!Absent
     ELSE [pack |-> rows[Min(CacheAt(rows, c))].pack,
           refs |-> MapThenSumSet(LAMBDA i : rows[i].refs, CacheAt(rows, c))]]

\* serialize_full_cache_as_index_blob: every row becomes an entry of a map;
\* of two rows for a chunk a reader of the map keeps the last.
BlobOfRows(rows) ==
  [c \in CacheChunks |->
     IF CacheAt(rows, c) = {} THEN D!Absent
     ELSE LET r == rows[Max(CacheAt(rows, c))]
          IN  [pack |-> r.pack, refs |-> r.refs]]

\* Magic, version and size are right, the generation is not 0 and is the one
\* in the header.
Opens(file, gen) == gen # 0 /\ file.gen = gen

\* get_stored_size, lookup: binary search; 0 if there is no row for c.
Search(rows, c) ==
  LET s[lo, hi \in 0..Len(rows)] ==
        IF lo >= hi THEN 0
        ELSE LET mid == lo + (hi - lo) \div 2
             IN  CASE rows[mid + 1].id = c -> mid + 1
                   [] rows[mid + 1].id < c -> s[mid + 1, hi]
                   [] rows[mid + 1].id > c -> s[lo, mid]
  IN  s[0, Len(rows)]

Bumped(row, bumps) == [row EXCEPT !.refs = @ + bumps[row.id]]

\* merge_full_index_cache: two pointers over the old rows and the sorted new
\* entries; bumps are applied to the rows of both.
MergeRows(old, new, bumps) ==
  LET m[i \in 1..Len(old) + 1, j \in 1..Len(new) + 1] ==
        LET takeOld == i <= Len(old)
                         /\ (j > Len(new) \/ old[i].id <= new[j].id)
        IN  IF i > Len(old) /\ j > Len(new) THEN <<>>
            ELSE IF takeOld THEN <<Bumped(old[i], bumps)>> \o m[i + 1, j]
            ELSE <<Bumped(new[j], bumps)>> \o m[i, j + 1]
  IN  m[1, 1]

-----------------------------------------------------------------------------
(* Processes                                                               *)

CacheProcs == DOMAIN cscene.procs
Job(p) == cscene.procs[p].job
Host(p) == cscene.procs[p].host
Disk(p) == cacheFiles[Host(p)]
Ended == {"done", "failed", "dead"}

\* The files that open under the generation of the process.
OpensFull(p) == Opens(Disk(p).full, cp[p].gen)
OpensDedup(p) == Opens(Disk(p).dedup, cp[p].gen)
OpensRestore(p) == Opens(Disk(p).restore, cp[p].gen)
OpensBlob(p) == Opens(Disk(p).blob, cp[p].gen)

NewProcess(p) ==
  [pc |-> "open", gen |-> 0, mem |-> D!EmptyIndex, known |-> <<>>,
   tiered |-> FALSE, new |-> D!EmptyIndex, bumps |-> D!NoCounts,
   left |-> cscene.procs[p].chunks, raw |-> NoCacheFile, blob |-> NoCacheFile,
   fast |-> FALSE, map |-> <<>>, put |-> 0]

EmptyDisk == [full |-> NoCacheFile, dedup |-> NoCacheFile, restore |-> NoCacheFile,
              blob |-> NoCacheFile, merged |-> NoCacheFile]

\* Caches that a backup of the host has left behind for the first index.
WarmDisk(ix) ==
  [full |-> [gen |-> 1, rows |-> RowsOf(ix)],
   dedup |-> [gen |-> 1, rows |-> RowsOf(ix)],
   restore |-> [gen |-> 1, rows |-> RowsOf(ix)],
   blob |-> [gen |-> 1, ix |-> ix], merged |-> NoCacheFile]

CacheInit ==
  /\ cscene \in CacheScenes
  /\ repoIndex = [gen |-> 1, ix |-> cscene.index]
  /\ hint = 1
  /\ cacheFiles = [h \in DOMAIN cscene.warm |->
                IF cscene.warm[h] THEN WarmDisk(cscene.index) ELSE EmptyDisk]
  /\ cp = [p \in CacheProcs |-> NewProcess(p)]
  /\ lockedBy = 0 /\ fresh = 2 /\ cachePast = <<repoIndex>>

Goto(p, pc) == cp' = [cp EXCEPT ![p].pc = pc]
OnDisk(p, name, file) == cacheFiles' = [cacheFiles EXCEPT ![Host(p)][name] = file]

\* A write whose failure is only logged.
BestEffort(done, not) == done \/ (cscene.flaky /\ not)

\* An error ends the command; its lock guard releases the lock.
CacheFail(p) ==
  /\ Goto(p, "failed")
  /\ lockedBy' = IF lockedBy = p THEN 0 ELSE lockedBy

\* open_inner: the sidecar is only a hint.  A backup and a removal load the
\* index next, a reader asks its restore cache first.
OpenRepository(p) ==
  /\ cp[p].pc = "open"
  /\ cp' = [cp EXCEPT ![p].gen = hint,
              ![p].pc = IF Job(p) = "read" THEN "lookup" ELSE "load"]
  /\ UNCHANGED <<cscene, repoIndex, hint, cacheFiles, lockedBy, fresh, cachePast>>

\* load_chunk_index: the generation is the one inside the blob.
LoadChunkIndex(p) ==
  /\ cp[p].pc = "load"
  /\ cp' = [cp EXCEPT ![p].gen = repoIndex.gen, ![p].mem = repoIndex.ix,
                      ![p].pc = "hint"]
  /\ UNCHANGED <<cscene, repoIndex, hint, cacheFiles, lockedBy, fresh, cachePast>>

\* Its rewrite of index.gen: best effort, without lock, of a generation that
\* another commit may have replaced.
RewriteHint(p) ==
  /\ cp[p].pc = "hint"
  /\ BestEffort(hint' = cp[p].gen, UNCHANGED hint)
  /\ Goto(p, CASE Job(p) = "backup" -> "mode"
               [] Job(p) = "remove" -> "lock"
               [] Job(p) = "read" -> "done")
  /\ UNCHANGED <<cscene, repoIndex, cacheFiles, lockedBy, fresh, cachePast>>

\* list, find and restore: open_restore_cache, otherwise load the index.
OpenRestoreCache(p) ==
  /\ cp[p].pc = "lookup"
  /\ cp' = [cp EXCEPT ![p] =
              IF OpensRestore(p)
              THEN [@ EXCEPT !.mem = IndexOfRows(Disk(p).restore.rows),
                             !.pc = "done"]
              ELSE [@ EXCEPT !.pc = "load"]]
  /\ UNCHANGED <<cscene, repoIndex, hint, cacheFiles, lockedBy, fresh, cachePast>>

\* enable_tiered_dedup_mode: the dedup cache of this generation, otherwise
\* the chunk ids of the index; the index itself is dropped.
EnableTieredDedupMode(p) ==
  /\ cp[p].pc = "mode"
  /\ LET warm == OpensDedup(p) IN
     cp' = [cp EXCEPT ![p] = [@ EXCEPT
              !.tiered = warm,
              !.known = IF warm THEN Disk(p).dedup.rows ELSE RowsOf(cp[p].mem),
              !.mem = D!EmptyIndex, !.pc = "store"]]
  /\ UNCHANGED <<cscene, repoIndex, hint, cacheFiles, lockedBy, fresh, cachePast>>

\* One chunk: known to the index or to the session, or new in a pack.
StoreOne(p) ==
  /\ cp[p].pc = "store" /\ cp[p].left # <<>>
  /\ LET c == Head(cp[p].left)
         has == Search(cp[p].known, c) # 0 \/ c \in D!Indexed(cp[p].new)
     IN  cp' = [cp EXCEPT ![p] = [@ EXCEPT
                  !.left = Tail(@),
                  !.bumps = IF has THEN [@ EXCEPT ![c] = @ + 1] ELSE @,
                  !.new = IF has THEN @
                          ELSE [@ EXCEPT ![c] = [pack |-> {p}, refs |-> 1]]]]
  /\ UNCHANGED <<cscene, repoIndex, hint, cacheFiles, lockedBy, fresh, cachePast>>

EndStore(p) ==
  /\ cp[p].pc = "store" /\ cp[p].left = <<>>
  /\ Goto(p, "lock")
  /\ UNCHANGED <<cscene, repoIndex, hint, cacheFiles, lockedBy, fresh, cachePast>>

TakeLock(p) ==
  /\ cp[p].pc = "lock" /\ lockedBy = 0
  /\ lockedBy' = p
  /\ Goto(p, IF Job(p) = "backup" THEN "fetch" ELSE "decrement")
  /\ UNCHANGED <<cscene, repoIndex, hint, cacheFiles, fresh, cachePast>>

-----------------------------------------------------------------------------
(* Commit                                                                  *)

MayTakeFastPathOnTrust(p) == OpensFull(p)

\* try_fast_path_commit: the index object is the cached blob, byte for byte,
\* and there is a full cache of its generation.
MayTakeFastPath(p) ==
  /\ OpensBlob(p)
  /\ Disk(p).blob = repoIndex
  /\ OpensFull(p)

\* commit_concurrent_session up to the choice of the path.  Without changes
\* the index is only loaded for the caches, under the old generation.
FetchIndexObject(p) ==
  /\ cp[p].pc = "fetch"
  /\ cp' = [cp EXCEPT ![p] =
       IF D!DeltaEmpty(cp[p].new, cp[p].bumps)
       THEN [@ EXCEPT !.mem = repoIndex.ix, !.pc = "snapshot"]
       ELSE [@ EXCEPT !.raw = repoIndex, !.fast = MayTakeFastPath(p),
               !.map = Disk(p).full.rows,
               !.pc = IF MayTakeFastPath(p) THEN "merge" ELSE "reconcile"]]
  /\ UNCHANGED <<cscene, repoIndex, hint, cacheFiles, lockedBy, fresh, cachePast>>

\* Fast path: the full cache was mapped when it was found to be the right
\* one; the merged cache gets a generation and a name of its own, ...
MergeCache(p) ==
  /\ cp[p].pc = "merge" /\ fresh <= MaxGeneration
  /\ OnDisk(p, "merged",
       [gen |-> fresh, rows |-> MergeRows(cp[p].map,
                                          RowsOf(cp[p].new), cp[p].bumps)])
  /\ cp' = [cp EXCEPT ![p].gen = fresh, ![p].pc = "rename"]
  /\ fresh' = fresh + 1
  /\ UNCHANGED <<cscene, repoIndex, hint, lockedBy, cachePast>>

\* ... replaces the full cache, unless another process has moved it away, ...
RenameMerged(p) ==
  /\ cp[p].pc = "rename"
  /\ IF Disk(p).merged = NoCacheFile
     THEN CacheFail(p) /\ UNCHANGED cacheFiles
     ELSE /\ cacheFiles' = [cacheFiles EXCEPT ![Host(p)].full = Disk(p).merged,
                                    ![Host(p)].merged = NoCacheFile]
          /\ Goto(p, "reopen")
          /\ UNCHANGED lockedBy
  /\ UNCHANGED <<cscene, repoIndex, hint, fresh, cachePast>>

\* ... and is what the new index object is made of.
ReopenMerged(p) ==
  /\ cp[p].pc = "reopen"
  /\ IF OpensFull(p)
     THEN /\ cp' = [cp EXCEPT ![p].pc = "put",
               ![p].blob = [gen |-> cp[p].gen, ix |-> BlobOfRows(Disk(p).full.rows)]]
          /\ UNCHANGED lockedBy
     ELSE CacheFail(p)
  /\ UNCHANGED <<cscene, repoIndex, hint, cacheFiles, fresh, cachePast>>

ReconcileKeepingGeneration(p) ==
  /\ cp[p].pc = "reconcile" /\ fresh <= MaxGeneration
  /\ LET merged == D!Reconciled(cp[p].new, cp[p].bumps, cp[p].raw.ix) IN
     cp' = [cp EXCEPT ![p].mem = merged, ![p].pc = "put",
                      ![p].gen = cp[p].raw.gen,
                      ![p].blob = [gen |-> cp[p].raw.gen, ix |-> merged]]
  /\ fresh' = fresh + 1
  /\ UNCHANGED <<cscene, repoIndex, hint, cacheFiles, lockedBy, cachePast>>

\* Slow path: stale bumps end the commit; otherwise a new generation.
Reconcile(p) ==
  /\ cp[p].pc = "reconcile" /\ fresh <= MaxGeneration
  /\ IF D!StaleChunks(cp[p].new, cp[p].bumps, cp[p].raw.ix) # {}
     THEN CacheFail(p) /\ UNCHANGED fresh
     ELSE /\ LET merged == D!Reconciled(cp[p].new, cp[p].bumps, cp[p].raw.ix)
             IN  cp' = [cp EXCEPT ![p].mem = merged, ![p].gen = fresh,
                          ![p].blob = [gen |-> fresh, ix |-> merged],
                          ![p].pc = "put"]
          /\ fresh' = fresh + 1
          /\ UNCHANGED lockedBy
  /\ UNCHANGED <<cscene, repoIndex, hint, cacheFiles, cachePast>>

\* delete, prune: references are dropped from the index in memory; only a
\* changed index is saved, under a new generation.
Decrement(p) ==
  /\ cp[p].pc = "decrement" /\ fresh <= MaxGeneration
  /\ LET less == D!Decremented(cp[p].mem,
                   [c \in CacheChunks |->
                      Cardinality({i \in DOMAIN cp[p].left : cp[p].left[i] = c})])
     IN  IF less = cp[p].mem
         THEN Goto(p, "unlock") /\ UNCHANGED fresh
         ELSE /\ cp' = [cp EXCEPT ![p].mem = less, ![p].gen = fresh,
                          ![p].blob = [gen |-> fresh, ix |-> less],
                          ![p].pc = "put"]
              /\ fresh' = fresh + 1
  /\ UNCHANGED <<cscene, repoIndex, hint, cacheFiles, lockedBy, cachePast>>

\* The write of the index object behind the fence.  A failing request may
\* have had its effect.
PutIndexObject(p) ==
  /\ cp[p].pc = "put"
  /\ \/ /\ lockedBy = p
        /\ repoIndex' = cp[p].blob /\ cachePast' = Append(cachePast, cp[p].blob)
        /\ cp' = [cp EXCEPT ![p].pc = "sidecar", ![p].put = Len(cachePast')]
        /\ UNCHANGED lockedBy
     \/ /\ lockedBy = p /\ cscene.flaky
        /\ repoIndex' = cp[p].blob /\ cachePast' = Append(cachePast, cp[p].blob)
        /\ CacheFail(p)
     \/ /\ lockedBy # p \/ cscene.flaky
        /\ CacheFail(p) /\ UNCHANGED <<repoIndex, cachePast>>
  /\ UNCHANGED <<cscene, hint, cacheFiles, fresh>>

PutSidecar(p) ==
  /\ cp[p].pc = "sidecar"
  /\ BestEffort(hint' = cp[p].gen, UNCHANGED hint)
  /\ Goto(p, "blob")
  /\ UNCHANGED <<cscene, repoIndex, cacheFiles, lockedBy, fresh, cachePast>>

\* write_index_blob_cache, best effort
CacheBlob(p) ==
  /\ cp[p].pc = "blob"
  /\ BestEffort(OnDisk(p, "blob", cp[p].blob), UNCHANGED cacheFiles)
  /\ Goto(p, IF Job(p) = "backup" THEN "snapshot" ELSE "unlock")
  /\ UNCHANGED <<cscene, repoIndex, hint, lockedBy, fresh, cachePast>>

\* The snapshot object, the commit point, behind the fence as well.
PutSnapshotObject(p) ==
  /\ cp[p].pc = "snapshot"
  /\ \/ /\ lockedBy = p
        /\ Goto(p, IF cp[p].fast THEN "hydrate" ELSE "full")
        /\ UNCHANGED lockedBy
     \/ (lockedBy # p \/ cscene.flaky) /\ CacheFail(p)
  /\ UNCHANGED <<cscene, repoIndex, hint, cacheFiles, fresh, cachePast>>

\* After the fast path the index in memory comes from the full cache, or from
\* the repository when the cache is no longer of this generation.
Hydrate(p) ==
  /\ cp[p].pc = "hydrate"
  /\ cp' = [cp EXCEPT ![p].pc = "dedup",
              ![p].mem = IF OpensFull(p)
                         THEN IndexOfRows(Disk(p).full.rows) ELSE repoIndex.ix]
  /\ UNCHANGED <<cscene, repoIndex, hint, cacheFiles, lockedBy, fresh, cachePast>>

\* rebuild_local_caches: the full cache unless it was merged, ...
RebuildFull(p) ==
  /\ cp[p].pc = "full"
  /\ BestEffort(OnDisk(p, "full", [gen |-> cp[p].gen, rows |-> RowsOf(cp[p].mem)]),
                UNCHANGED cacheFiles)
  /\ Goto(p, "dedup")
  /\ UNCHANGED <<cscene, repoIndex, hint, lockedBy, fresh, cachePast>>

\* ... then the two others from the full cache of this generation, each of
\* them best effort.
Derive(p, name, from, to) ==
  /\ cp[p].pc = from
  /\ IF OpensFull(p)
     THEN BestEffort(
            OnDisk(p, name, [gen |-> cp[p].gen, rows |-> Disk(p).full.rows]),
            UNCHANGED cacheFiles)
     ELSE UNCHANGED cacheFiles
  /\ Goto(p, to)
  /\ UNCHANGED <<cscene, repoIndex, hint, lockedBy, fresh, cachePast>>

DeriveDedup(p) == Derive(p, "dedup", "dedup", "restore")

DeriveRestore(p) == Derive(p, "restore", "restore", "unlock")

Unlock(p) ==
  /\ cp[p].pc = "unlock"
  /\ Goto(p, "done")
  /\ lockedBy' = IF lockedBy = p THEN 0 ELSE lockedBy
  /\ UNCHANGED <<cscene, repoIndex, hint, cacheFiles, fresh, cachePast>>

-----------------------------------------------------------------------------
\* The process dies; sooner or later its lock is removed as stale.
CacheDie(p) ==
  /\ cp[p].pc \notin Ended \union {"open"} /\ cscene.mayDie
  /\ Goto(p, "dead")
  /\ lockedBy' = IF lockedBy = p THEN 0 ELSE lockedBy
  /\ UNCHANGED <<cscene, repoIndex, hint, cacheFiles, fresh, cachePast>>

\* The process was suspended so long that others have removed its lock.
LoseLock(p) ==
  /\ lockedBy = p /\ cscene.maySleep
  /\ lockedBy' = 0
  /\ UNCHANGED <<cscene, repoIndex, hint, cacheFiles, cp, fresh, cachePast>>

CacheStep(p) ==
  \/ OpenRepository(p) \/ LoadChunkIndex(p) \/ RewriteHint(p)
  \/ OpenRestoreCache(p) \/ EnableTieredDedupMode(p) \/ StoreOne(p)
  \/ EndStore(p) \/ TakeLock(p) \/ FetchIndexObject(p) \/ MergeCache(p)
  \/ RenameMerged(p) \/ ReopenMerged(p) \/ Reconcile(p) \/ Decrement(p)
  \/ PutIndexObject(p) \/ PutSidecar(p) \/ CacheBlob(p)
  \/ PutSnapshotObject(p) \/ Hydrate(p) \/ RebuildFull(p)
  \/ DeriveDedup(p) \/ DeriveRestore(p) \/ Unlock(p)

CacheNext ==
  \E p \in CacheProcs : CacheStep(p) \/ CacheDie(p) \/ LoseLock(p)

\* A running process goes on: the scheduler is fair, requests return.
CacheProgress == WF_cacheVars(\E p \in CacheProcs : CacheStep(p))

CacheSpec == CacheInit /\ [][CacheNext]_cacheVars /\ CacheProgress

-----------------------------------------------------------------------------
(* Properties                                                              *)

StrictlySorted(rows) ==
  \A i, j \in DOMAIN rows : i < j => rows[i].id < rows[j].id

\* A cache file that carries the generation of the repository's index tells
\* what that index says: enable_tiered_dedup_mode, open_restore_cache and
\* try_fast_path_commit rely on the generation alone.  (Under an old
\* generation a file may hold newer entries: a commit without changes tags
\* what it has loaded with the generation of its own open.)
CachesTrue ==
  \A h \in DOMAIN cacheFiles :
    /\ \A name \in {"full", "dedup", "restore"} :
         Opens(cacheFiles[h][name], repoIndex.gen) =>
           IndexOfRows(cacheFiles[h][name].rows) = repoIndex.ix
    /\ Opens(cacheFiles[h].blob, repoIndex.gen) => cacheFiles[h].blob = repoIndex

\* The files are sorted, without two rows for one chunk, so that the binary
\* searches of MmapDedupCache and MmapRestoreCache find every chunk there is
\* and none there is not.
SearchExact ==
  \A h \in DOMAIN cacheFiles : \A name \in {"full", "dedup", "restore"} :
    LET rows == cacheFiles[h][name].rows IN
    /\ StrictlySorted(rows)
    /\ \A c \in CacheChunks :
         IF CacheAt(rows, c) = {} THEN Search(rows, c) = 0
         ELSE Search(rows, c) \in CacheAt(rows, c)

\* Whichever path a backup takes, the index object it writes is its delta
\* reconciled with the index object it replaces.
CommitExact ==
  [][\A p \in CacheProcs :
       Job(p) = "backup" /\ repoIndex' # repoIndex /\ cp'[p].pc # cp[p].pc =>
         repoIndex'.ix = D!Reconciled(cp[p].new, cp[p].bumps, repoIndex.ix)]_cacheVars

Places(ix) == [c \in CacheChunks |-> ix[c].pack]

\* A reader never uses places that were in no index of the repository: an
\* old hint leads to an old index at worst, not to one of a commit that was
\* given up.
ReaderSeesCommitted ==
  \A p \in CacheProcs : Job(p) = "read" /\ cp[p].pc = "done" =>
    \E i \in DOMAIN cachePast : Places(cachePast[i].ix) = Places(cp[p].mem)

\* save_state and commit_concurrent_session leave behind an index in memory
\* that the repository had when they wrote it, or later.
HydratedExact ==
  \A p \in CacheProcs : Job(p) # "read" /\ cp[p].pc = "done" /\ cp[p].put # 0 =>
    \E i \in cp[p].put..Len(cachePast) : cachePast[i].ix = cp[p].mem

\* No process of any host is misled by its caches: files that pass for current
\* are, searches in them find what is there, and what a process ends up with in
\* memory is an index the repository has had.
CachesFaithful == CachesTrue /\ SearchExact /\ ReaderSeesCommitted /\ HydratedExact

\* Every process has ended, also when another died, slept or failed while it
\* held the lock.
CachesEnded == \A p \in CacheProcs : cp[p].pc \in Ended
=============================================================================
