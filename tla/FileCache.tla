------------------------------ MODULE FileCache -------------------------------
(***************************************************************************)
(* What lets a backup skip files: the file cache of the host with one      *)
(* section per source root, the reuse index built from the latest snapshot *)
(* of the same sources, the local list of snapshots that decides which     *)
(* sections are valid, and the pin that ties the cache to one repository.  *)
(*                                                                         *)
(* Backups of one host run one after the other or side by side while users *)
(* edit files, snapshots are deleted and the repository is created anew.   *)
(* A path is a sequence of names.  The data of a file is one number that   *)
(* stands for its list of chunks; its size is a function of it.  Every     *)
(* edit gives a file a change time of its own, as file systems do; the     *)
(* modification time and the size may stay what they were.  The repository *)
(* lock is held from Commit to the end of a backup and by DeleteSnapshot,  *)
(* which also needs that no backup is registered.                          *)
(***************************************************************************)
EXTENDS Integers, Sequences, FiniteSets, FiniteSetsExt, SequencesExt

CONSTANTS
  FileScenes,   \* hosts, backups and what happens around them: records
  SizeOf(_)     \* the size of data

VARIABLES
  fscene,    \* the member of FileScenes played; never changes
  tree,      \* path -> the file there
  clock,     \* time, advanced by edits and commits
  edits,     \* edits left
  snapshots, \* id -> snapshot object
  chunks,    \* the chunks in the index of the repository
  fcache,    \* the file "filecache": root -> section
  slist,     \* the file "snapshot_list": ids
  pin,       \* the pin file of the URL
  repoId,    \* the identity of the repository at the URL
  bk         \* the backups

fileVars == <<fscene, tree, clock, edits, snapshots, chunks, fcache, slist, pin,
              repoId, bk>>

NoPin == 0        \* no pin file
CorruptPin == -1  \* a pin file that does not parse or cannot be read
NoStat == [data |-> 0]

Backups == DOMAIN fscene.backups
PlanBackup(p) == fscene.backups[p]
Roots(p) == {s.root : s \in Range(PlanBackup(p).sources)}
Raws(p) == {s.raw : s \in Range(PlanBackup(p).sources)}
MultiPath(p) == Len(PlanBackup(p).sources) > 1
BackupEnded == {"done", "failed", "dead"}

-----------------------------------------------------------------------------
(* The file cache                                                          *)

Meta(f) == [inode |-> f.inode, mtime |-> f.mtime, ctime |-> f.ctime, size |-> f.size]

\* Every root of the backup gets an empty section.
BeginSections(roots) == [r \in roots |-> [anchor |-> 0, entries |-> <<>>]]

\* insert: into the section of every root above the path.
Insert(sections, path, f, data) ==
  [r \in DOMAIN sections |->
     IF IsPrefix(r, path)
     THEN [sections[r] EXCEPT
             !.entries = (path :> [meta |-> Meta(f), data |-> data]) @@ @]
     ELSE sections[r]]

FinalizeSections(sections, id) == [r \in DOMAIN sections |-> [sections[r] EXCEPT !.anchor = id]]

\* take_active_sections, merge_section: the new sections replace the old
\* ones of the same roots.
Merged(cache, new, id) == FinalizeSections(new, id) @@ cache

\* invalidate_missing_snapshots
ValidSections(sections, ids) ==
  Restrict(sections, {r \in DOMAIN sections : sections[r].anchor \in ids})

\* find_section_key: the longest active root above the path.
SectionKey(active, path) ==
  LET above == {r \in active : IsPrefix(r, path)}
  IN  {r \in above : \A s \in above : Len(s) <= Len(r)}

LookupMtime(sections, active, path, f) ==
  {sections[r].entries[path].data :
     r \in {q \in SectionKey(active, path) :
              /\ path \in DOMAIN sections[q].entries
              /\ sections[q].entries[path].meta.mtime = f.mtime
              /\ sections[q].entries[path].meta.size = f.size}}

\* lookup: the data cached under the metadata of the file, {} if none.
Lookup(sections, active, path, f) ==
  {sections[r].entries[path].data :
     r \in {q \in SectionKey(active, path) :
              /\ path \in DOMAIN sections[q].entries
              /\ sections[q].entries[path].meta = Meta(f)}}

-----------------------------------------------------------------------------
(* Reuse of the parent snapshot                                            *)

\* The path of a file in a snapshot: below the base name of its source when
\* there are several sources.
ItemPath(p, s, path) ==
  (IF MultiPath(p) THEN <<s.base>> ELSE <<>>) \o SubSeq(path, Len(s.root) + 1, Len(path))

\* reconstruct_abs_path
AbsPath(p, item) ==
  LET srcs  == PlanBackup(p).sources
      named == {i \in DOMAIN srcs : srcs[i].base = item[1]}
  IN  IF ~MultiPath(p) THEN srcs[1].root \o item
      ELSE IF Len(item) < 2 \/ named = {} THEN item
      ELSE srcs[Min(named)].root \o Tail(item)

\* ParentReuseBuilder::push for every file item, then finish: {} when a file
\* has no change time.  Items of command dumps are passed over.
ParentReuse(p, snap) ==
  LET its == {it \in snap.items : it.path[1] # "vykar-dumps"}
  IN  IF \E it \in its : it.ctime = 0 THEN {}
      ELSE {[path |-> AbsPath(p, it.path), mtime |-> it.mtime,
             ctime |-> it.ctime, size |-> it.size, data |-> it.data] : it \in its}

\* ParentReuseIndex::lookup
ParentLookup(parent, path, f) ==
  {e.data : e \in {x \in parent : /\ x.path = path
                                  /\ x.size = f.size
                                  /\ x.mtime = f.mtime
                                  /\ x.ctime = f.ctime}}

\* The latest snapshot of the same source paths among those known.
LatestOf(p, ids) ==
  LET same == {i \in ids : snapshots[i].raws = Raws(p)}
  IN  {i \in same : \A j \in same : snapshots[j].time <= snapshots[i].time}

-----------------------------------------------------------------------------
(* The snapshot list                                                       *)

\* refresh_snapshot_cache: known ids that are still there, and new ones that
\* are fetched and decrypt; with strict I/O no fetch may have failed.
Refreshed(strict) ==
  LET known == slist \cap DOMAIN snapshots
      new   == DOMAIN snapshots \ known
  IN  {known \cup {i \in new \ lost : snapshots[i].ok} :
         lost \in IF fscene.flaky /\ ~strict THEN SUBSET new ELSE {{}}}

Names(ids) == {snapshots[i].name : i \in ids}

-----------------------------------------------------------------------------
(* A backup                                                                *)

Registered(q) == bk[q].pc \notin {"start"} \cup BackupEnded
BackupTurn(p) == fscene.side \/ \A q \in 1..p - 1 : bk[q].pc \in BackupEnded
BackupAt(p, pc) == bk[p].pc = pc
FailBackup(p) == bk' = [bk EXCEPT ![p].pc = "failed"]
BackupStep(p, r) == bk' = [bk EXCEPT ![p] = r @@ @]

\* register_session, then open_inner: the snapshot list, ...
OpenList(p) ==
  /\ BackupAt(p, "start") /\ BackupTurn(p)
  /\ \E ids \in Refreshed(FALSE) :
       /\ slist' = ids
       /\ BackupStep(p, [pc |-> "cache", ids |-> ids,
                   during |-> [f \in DOMAIN tree |-> {tree[f].data}]])
  /\ UNCHANGED <<fscene, tree, clock, edits, snapshots, chunks, fcache, pin, repoId>>

\* ... the file cache, ...
LoadFileCache(p) ==
  /\ BackupAt(p, "cache")
  /\ BackupStep(p, [pc |-> "index", cache |-> fcache])
  /\ UNCHANGED <<fscene, tree, clock, edits, snapshots, chunks, fcache, slist, pin, repoId>>

\* ... and the index.
LoadIndex(p) ==
  /\ BackupAt(p, "index")
  /\ BackupStep(p, [pc |-> "verify", idx |-> chunks])
  /\ UNCHANGED <<fscene, tree, clock, edits, snapshots, chunks, fcache, slist, pin, repoId>>

VerifyOrPinOnFirstUse(p) ==
  /\ BackupAt(p, "verify")
  /\ IF PlanBackup(p).trust \/ pin = NoPin
     THEN /\ pin' \in {repoId} \cup (IF fscene.flaky THEN {pin} ELSE {})
          /\ BackupStep(p, [pc |-> "prepare"])
     ELSE BackupStep(p, [pc |-> "prepare"]) /\ UNCHANGED pin
  /\ UNCHANGED <<fscene, tree, clock, edits, snapshots, chunks, fcache, slist, repoId>>

\* verify_or_pin; writing the pin is best effort.
VerifyOrPin(p) ==
  /\ BackupAt(p, "verify")
  /\ IF PlanBackup(p).trust \/ pin = NoPin
     THEN /\ pin' \in {repoId} \cup (IF fscene.flaky THEN {pin} ELSE {})
          /\ BackupStep(p, [pc |-> "prepare"])
     ELSE IF pin = repoId THEN BackupStep(p, [pc |-> "prepare"]) /\ UNCHANGED pin
     ELSE FailBackup(p) /\ UNCHANGED pin
  /\ UNCHANGED <<fscene, tree, clock, edits, snapshots, chunks, fcache, slist, repoId>>

\* The files below the roots, source by source; a file below two roots is
\* walked twice.
WalkFiles(p) ==
  LET srcs == PlanBackup(p).sources
      below(i) == SetToSeq({<<i, f>> : f \in {g \in DOMAIN tree : IsPrefix(srcs[i].root, g)}})
  IN  FlattenSeq([i \in DOMAIN srcs |-> below(i)])

\* The name check, invalidation of sections, their activation, and the
\* parent snapshot when a section is missing; reading it may fail.
PrepareReuse(p) ==
  LET valid  == ValidSections(bk[p].cache, bk[p].ids)
      active == Roots(p) \cap DOMAIN valid
      parent == IF active = Roots(p) THEN {} ELSE LatestOf(p, bk[p].ids)
  IN  /\ BackupAt(p, "prepare")
      /\ IF PlanBackup(p).name \in Names(bk[p].ids) THEN FailBackup(p)
         ELSE \E reuse \in {UNION {ParentReuse(p, snapshots[i]) : i \in parent}}
                            \cup (IF fscene.flaky THEN {{}} ELSE {}) :
                BackupStep(p, [pc |-> "stat", cache |-> valid, active |-> active,
                         parent |-> reuse, new |-> BeginSections(Roots(p)),
                         todo |-> WalkFiles(p)])
      /\ UNCHANGED <<fscene, tree, clock, edits, snapshots, chunks, fcache, slist, pin, repoId>>

FileItem(p, f, data) ==
  LET s == PlanBackup(p).sources[Head(bk[p].todo)[1]]
  IN  [path |-> ItemPath(p, s, Head(bk[p].todo)[2]), file |-> Head(bk[p].todo)[2],
       mtime |-> f.mtime, ctime |-> f.ctime, size |-> f.size, data |-> data]

StoredSnaps(p, f, data, idx) ==
  BackupStep(p, [pc |-> "stat", todo |-> Tail(bk[p].todo), stat |-> NoStat, idx |-> idx,
           items |-> bk[p].items \cup {FileItem(p, f, data)},
           new |-> Insert(bk[p].new, Head(bk[p].todo)[2], f, data)])

\* The file is examined: a hit reuses the cached chunks, which must all be
\* in the index; otherwise the file will be read.
StatFile(p) ==
  LET path == Head(bk[p].todo)[2]
      f    == tree[path]
      own  == Lookup(bk[p].cache, bk[p].active, path, f)
      hit  == IF own # {} THEN own ELSE ParentLookup(bk[p].parent, path, f)
  IN  /\ BackupAt(p, "stat") /\ bk[p].todo # <<>>
      /\ IF hit = {} THEN BackupStep(p, [pc |-> "read", stat |-> f])
         ELSE \E data \in hit :
                IF data \in bk[p].idx THEN StoredSnaps(p, f, data, bk[p].idx)
                ELSE bk' = [bk EXCEPT ![p].pc = "failed", ![p].unresolved = TRUE]
      /\ UNCHANGED <<fscene, tree, clock, edits, snapshots, chunks, fcache, slist, pin, repoId>>

\* The file is read, whatever it holds by now, and cached under the metadata
\* it had when it was examined; a soft error passes it over.
ReadFile(p) ==
  /\ BackupAt(p, "read")
  /\ LET path == Head(bk[p].todo)[2]
         data == tree[path].data
     IN  \/ StoredSnaps(p, bk[p].stat, data, bk[p].idx \cup {data})
         \/ /\ fscene.flaky
            /\ BackupStep(p, [pc |-> "stat", todo |-> Tail(bk[p].todo), stat |-> NoStat])
  /\ UNCHANGED <<fscene, tree, clock, edits, snapshots, chunks, fcache, slist, pin, repoId>>

\* The commit under the lock: strict refresh of the list, name check, index
\* and snapshot object, merge of the new sections into the cache in memory.
Commit(p) ==
  LET id   == clock + 1
      snap == [name |-> PlanBackup(p).name, raws |-> Raws(p), roots |-> Roots(p),
               time |-> id, items |-> bk[p].items, ok |-> TRUE]
  IN  /\ BackupAt(p, "stat") /\ bk[p].todo = <<>>
      /\ \A q \in Backups : ~BackupAt(q, "save")
      /\ \/ \E ids \in Refreshed(TRUE) :
              IF PlanBackup(p).name \in Names(ids)
              THEN /\ slist' = ids /\ FailBackup(p)
                   /\ UNCHANGED <<clock, snapshots, chunks>>
              ELSE /\ slist' = ids
                   /\ clock' = id
                   /\ snapshots' = (id :> snap) @@ snapshots
                   /\ chunks' = chunks \cup {it.data : it \in bk[p].items}
                   /\ BackupStep(p, [pc |-> "save", snap |-> id,
                               cache |-> Merged(bk[p].cache, bk[p].new, id)])
         \/ fscene.flaky /\ FailBackup(p) /\ UNCHANGED <<slist, clock, snapshots, chunks>>
      /\ UNCHANGED <<fscene, tree, edits, fcache, pin, repoId>>

\* The file cache is written over whatever the file holds, best effort; then
\* the marker and the lock are released.
SaveFileCache(p) ==
  /\ BackupAt(p, "save")
  /\ fcache' \in {bk[p].cache} \cup (IF fscene.flaky THEN {fcache} ELSE {})
  /\ BackupStep(p, [pc |-> "done"])
  /\ UNCHANGED <<fscene, tree, clock, edits, snapshots, chunks, slist, pin, repoId>>

\* The process is killed; its marker and lock are cleaned up by others.
Killed(p) ==
  /\ fscene.mayDie /\ Registered(p)
  /\ BackupStep(p, [pc |-> "dead"])
  /\ UNCHANGED <<fscene, tree, clock, edits, snapshots, chunks, fcache, slist, pin, repoId>>

-----------------------------------------------------------------------------
(* Around the backups                                                      *)

\* A file is written in place or replaced; its times may be set back, but
\* the change time moves on.
Edit(path) ==
  LET f == tree[path]
  IN  /\ edits > 0
      /\ \E data \in fscene.data \ {f.data}, mtime \in {f.mtime, clock + 1},
            inode \in {f.inode, clock + 1} :
           /\ tree' = [tree EXCEPT ![path] =
                         [inode |-> inode, mtime |-> mtime, ctime |-> clock + 1,
                          size |-> SizeOf(data), data |-> data]]
           /\ bk' = [p \in Backups |->
                       [bk[p] EXCEPT !.during = [@ EXCEPT ![path] = @ \cup {data}]]]
      /\ clock' = clock + 1
      /\ edits' = edits - 1
      /\ UNCHANGED <<fscene, snapshots, chunks, fcache, slist, pin, repoId>>

BackupIdle == \A p \in Backups : ~Registered(p)

\* delete, prune and compact: they need the lock and that no backup is
\* registered; the chunks that no snapshot uses go.
DeleteSnapshot(i) ==
  /\ fscene.deletes /\ BackupIdle
  /\ snapshots' = Restrict(snapshots, DOMAIN snapshots \ {i})
  /\ chunks' = UNION {{it.data : it \in snapshots[j].items} : j \in DOMAIN snapshots \ {i}}
  /\ UNCHANGED <<fscene, tree, clock, edits, fcache, slist, pin, repoId, bk>>

\* The cache directory is cleared, or the file does not decrypt.
LoseCache ==
  /\ fscene.lossy
  /\ fcache # <<>>
  /\ fcache' = <<>>
  /\ UNCHANGED <<fscene, tree, clock, edits, snapshots, chunks, slist, pin, repoId, bk>>

\* The repository at the URL is created anew, here (init pins it) or on
\* another host; local caches are kept per repository.
Recreate ==
  /\ fscene.recreate /\ BackupIdle /\ repoId = 1
  /\ repoId' = 2
  /\ pin' \in {pin, 2}
  /\ snapshots' = <<>> /\ chunks' = {} /\ fcache' = <<>> /\ slist' = {}
  /\ UNCHANGED <<fscene, tree, clock, edits, bk>>

-----------------------------------------------------------------------------
(* Specification                                                           *)

NewBackup(s) ==
  [pc |-> "start", ids |-> {}, cache |-> <<>>, idx |-> {}, active |-> {},
   parent |-> {}, new |-> <<>>, todo |-> <<>>, stat |-> NoStat, items |-> {},
   snap |-> 0, unresolved |-> FALSE, during |-> [f \in DOMAIN s.tree |-> {s.tree[f].data}]]

FileInit ==
  /\ fscene \in FileScenes
  /\ tree = fscene.tree
  /\ clock = fscene.clock
  /\ edits = fscene.edits
  /\ snapshots = fscene.snapshots
  /\ chunks = UNION {{it.data : it \in s.items} : s \in Range(fscene.snapshots)}
  /\ fcache = <<>>
  /\ slist = {}
  /\ pin = fscene.pin
  /\ repoId = 1
  /\ bk = [p \in Backups |-> NewBackup(fscene)]

Advance(p) ==
  \/ OpenList(p) \/ LoadFileCache(p) \/ LoadIndex(p) \/ VerifyOrPin(p)
  \/ PrepareReuse(p) \/ StatFile(p) \/ ReadFile(p) \/ Commit(p) \/ SaveFileCache(p)

FileNext ==
  \/ \E p \in Backups : Advance(p) \/ Killed(p)
  \/ \E path \in DOMAIN tree : Edit(path)
  \/ \E i \in DOMAIN snapshots : DeleteSnapshot(i)
  \/ LoseCache
  \/ Recreate

FileProgress == \A p \in 1..3 : WF_fileVars(p \in Backups /\ Advance(p))

FileSpec == FileInit /\ [][FileNext]_fileVars /\ FileProgress

-----------------------------------------------------------------------------
(* Properties                                                              *)

\* Every file of a backup holds data that the file really had at some time
\* while the backup ran, however it was edited, replaced or given back its
\* old times and size, and whether it was read, found in the file cache or
\* taken from the parent snapshot (FileCache::lookup, ParentReuseIndex).
BackedUpWhatWasThere ==
  \A p \in Backups : \A it \in bk[p].items : it.data \in bk[p].during[it.file]

\* A cache hit never names a chunk that is gone: commit_cache_hit calls this
\* 'storage corruption, not a recoverable condition' and fails the backup.
\* Deleted anchors, snapshots listed before the cache was loaded, sections
\* saved by another backup and lost files must not lead there.
HitsResolve == \A p \in Backups : ~bk[p].unresolved

\* What a valid section names is in its anchor snapshot, so that the chunks
\* live as long as the anchor does (finalize_sections, merge_section).
AnchorHoldsEntries ==
  \A r \in DOMAIN fcache :
    LET sec == fcache[r]
    IN  sec.anchor \in DOMAIN snapshots =>
          {sec.entries[f].data : f \in DOMAIN sec.entries}
            \subseteq {it.data : it \in snapshots[sec.anchor].items}

LastCommit == {i \in DOMAIN snapshots : \A j \in DOMAIN snapshots : j <= i}

\* A backup whose roots the last backup covered reads only files that have
\* changed since, also when overlapping roots were removed from its sources
\* ("removing the more-specific root in a later backup does not cause cache
\* misses"), and also without the file cache when the sources are the same.
UnchangedNotRead ==
  ~fscene.flaky /\ ~fscene.side /\ ~fscene.mayDie /\ ~fscene.deletes =>
    \A p \in Backups : BackupAt(p, "read") =>
      \A i \in LastCommit :
        \/ IF fscene.lossy THEN snapshots[i].raws # Raws(p)
           ELSE ~(Roots(p) \subseteq snapshots[i].roots)
        \/ \A it \in snapshots[i].items :
             it.file = Head(bk[p].todo)[2] => it.ctime # bk[p].stat.ctime

\* No two snapshots get the same name although the list a backup opens with
\* may lack snapshots that could not be fetched (refresh_snapshot_cache with
\* strict_io in the commit).
NamesStayUnique ==
  \A i, j \in DOMAIN snapshots :
    snapshots[i].ok /\ snapshots[j].ok /\ snapshots[i].name = snapshots[j].name => i = j

\* Reusing what earlier backups found (file cache, parent snapshot, snapshot
\* cache) changes neither what a backup contains nor whether it can be read,
\* saves the reading of unchanged files, and never lets a name be taken twice.
ReuseSound ==
  /\ BackedUpWhatWasThere /\ HitsResolve /\ AnchorHoldsEntries
  /\ UnchangedNotRead /\ NamesStayUnique

\* A repository that was created anew behind a pin is written only after the
\* user said to trust it (verify_or_pin).
PinnedIsWritten ==
  [][\A i \in DOMAIN snapshots' \ DOMAIN snapshots :
       pin \in {NoPin, repoId}]_fileVars

\* Every backup has ended.
BackupsEnded == \A p \in Backups : bk[p].pc \in BackupEnded
=============================================================================
