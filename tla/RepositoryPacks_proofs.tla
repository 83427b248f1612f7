------------------------- MODULE RepositoryPacks_proofs ------------------------
(***************************************************************************)
(* Theorems about Repository, third part: no chunk that a snapshot, an     *)
(* index entry, a reader or a running backup needs is ever deleted.  The   *)
(* invariant of the packs, and its preservation by every action but the    *)
(* repacking of compact.                                                   *)
(***************************************************************************)
EXTENDS RepositoryTypes_proofs

\* What the argument assumes of the schedule, beyond Undisturbed: a repository is
\* compacted by one process, which is not suspended until its lock is stale.
OneCompact ==
    \A x \in Scenarios : /\ x.suspendable \cap Compacts = {}
                         /\ \A m, n \in Compacts \cap x.procs : m = n

--------------------------------------------------------------------------------

\* Who takes part.
PartInv == \A p \in Procs : pc[p] # "done" => p \in scenario.procs

\* A compact that works has the lock.
CompactHolds(m) == pc[m] \in {"work", "repack", "saveIndex", "deleteOld"} => lock = m

\* Where a session depends on what it has seen.
Registered == {"list", "load", "read", "recover"} \cup Uploading

\* A session that has not been taken for dead has its marker, and maintenance works
\* only without such sessions.
MarkerLocal(s) ==
    s \notin reaped /\ pc[s] \in Registered => s \in markers /\ lock \notin Maints

\* Every entry of an index can be read.
AllResolve(ix) == \A c \in Indexed(ix) : Resolves(ix, c)

\* A backup: its writer has only chunks that are neither sealed nor recovered; the
\* packs of its new entries and of the recovered chunks have those chunks; the index
\* it is about to write can be read.
PackLocal(b) ==
    /\ \A c \in Chunks : ws[b].writer[c] > 0 => ws[b].new[c].refs = 0 /\ ws[b].recovered[c] = {}
    /\ pc[b] \in Uploading => \A c \in Chunks :
         /\ c \in Indexed(ws[b].new) => c \in ChunksOf(ws[b].new[c].pack)
         /\ ws[b].recovered[c] # {} => c \in ChunksOf(ws[b].recovered[c])
    /\ lock = b /\ pc[b] = "putIndex" => AllResolve(view[b])

\* What a backup depends on is there, unless it was taken for dead.
BackupLocal(b) ==
    b \notin reaped =>
      /\ pc[b] \in {"recover"} \cup Uploading => Indexed(view[b]) \subseteq Indexed(index)
      /\ pc[b] \in Uploading => \A c \in Chunks :
           /\ c \in Indexed(ws[b].new) /\ ~ws[b].failed =>
                ws[b].new[c].pack \in packs \cup ws[b].inflight
           /\ ws[b].recovered[c] # {} => ws[b].recovered[c] \in packs

\* So is what a reader has listed.
ReaderLocal(r) ==
    r \notin reaped =>
      /\ pc[r] = "load" => listed[r] \subseteq snaps
      /\ pc[r] = "read" => Readable(view[r], listed[r])

\* A compact: the live chunks of the packs it has chosen are those of its index,
\* the packs have nothing in common, and the pack it is about to delete has no
\* entry left.
Disjoint(P) == \A p, q \in P : p = q \/ p \cap q = {}

CompactLocal(m) ==
    /\ pc[m] \in {"repack", "saveIndex", "deleteOld"} =>
         /\ \A a \in todo[m] : a.live = LiveIn(view[m], a.pack) /\ ChunksOf(a.pack) # a.live
         /\ Disjoint({a.pack : a \in todo[m]})
    /\ pc[m] = "saveIndex" => AllResolve(view[m]) /\ LiveIn(view[m], work[m]) = {}
    /\ pc[m] = "deleteOld" => LiveIn(index, work[m]) = {}

\* Until a compact has rewritten a pack, no blob is in two packs.
AllPacks == packs \cup UNION {ws[b].inflight : b \in Backups}

Compacted == \E m \in Compacts \cap scenario.procs : pc[m] \notin {"list", "load", "lock", "work"}

BlobsInv ==
    ~Compacted =>
      /\ Disjoint(AllPacks)
      /\ \A b \in Backups : pc[b] \notin {"dereg", "done", "crashed"} =>
           \A p \in AllPacks : \A c \in Chunks : <<c, b>> \in p => c \in Indexed(ws[b].new)

PacksInv ==
    /\ CountsInv /\ PartInv /\ IndexResolves /\ BlobsInv
    /\ \A m \in Compacts : CompactHolds(m) /\ CompactLocal(m)
    /\ \A s \in Sessions : MarkerLocal(s)
    /\ \A b \in Backups : PackLocal(b) /\ BackupLocal(b)
    /\ \A r \in Readers : ReaderLocal(r)

--------------------------------------------------------------------------------
\* A step of p leaves the others as they are.

OthersSame(p) ==
    /\ \A q \in Procs \ {p} : pc'[q] = pc[q] /\ view'[q] = view[q] /\ listed'[q] = listed[q]
    /\ \A b \in Backups \ {p} : ws'[b] = ws[b]
    /\ \A m \in Maints \ {p} : todo'[m] = todo[m] /\ work'[m] = work[m]

Own(p) ==
    /\ p \in Compacts => CompactHolds(p) /\ CompactLocal(p)
    /\ p \in Sessions => MarkerLocal(p)
    /\ p \in Backups => PackLocal(p) /\ BackupLocal(p)
    /\ p \in Readers => ReaderLocal(p)

\* The lock changes only when it is free or p's own, and not to maintenance; p
\* touches no marker but its own.
LockStep(p) ==
    /\ lock' \in {lock, None, p}
    /\ lock' = lock \/ lock \in {None, p}
    /\ lock' \in Maints => lock' = lock

MarkerStep(p) == reaped' = reaped /\ \A s \in Sessions \ {p} : s \in markers => s \in markers'

LEMMA OwnParts ==
  PacksInv <=> /\ CountsInv /\ PartInv /\ IndexResolves /\ BlobsInv
               /\ \A p \in Procs : Own(p)
BY Zenon, KindOf DEF PacksInv, Own, Procs, Sessions, Maints

\* Steps that add packs, snapshots or index entries, or nothing.
LEMMA OthersGrow ==
  ASSUME PacksInv, NEW p \in Procs, OthersSame(p), LockStep(p), MarkerStep(p),
         packs \subseteq packs', snaps \subseteq snaps', Indexed(index) \subseteq Indexed(index'),
         index' = index \/ lock = p
  PROVE  \A q \in Procs \ {p} : Own(q)'
<1> SUFFICES ASSUME NEW q \in Procs \ {p} PROVE Own(q)'
  BY Zenon
<1>1. /\ pc'[q] = pc[q] /\ view'[q] = view[q] /\ listed'[q] = listed[q]
      /\ q \in Backups => ws'[q] = ws[q]
      /\ q \in Maints => todo'[q] = todo[q] /\ work'[q] = work[q]
      /\ lock' = q <=> lock = q
  BY Zenon, KindOf DEF OthersSame, LockStep
<1>2. ASSUME q \in Compacts PROVE (CompactHolds(q) /\ CompactLocal(q))'
  <2>1. CompactHolds(q) /\ CompactLocal(q) /\ q \in Maints
    BY Zenon, <1>2, KindOf DEF PacksInv
  <2>2. CompactHolds(q)'
    BY Zenon, <1>1, <2>1 DEF CompactHolds
  <2>3. pc[q] = "deleteOld" => index' = index
    BY Zenon, <2>1 DEF CompactHolds
  <2>4. todo'[q] = todo[q] /\ work'[q] = work[q]
    BY Zenon, <1>1, <2>1
  <2>5. AllResolve(view[q]) => AllResolve(view[q])'
    BY Zenon, <1>1 DEF AllResolve, Resolves
  <2>6. pc[q] = "deleteOld" => (LiveIn(index, work[q]))' = LiveIn(index, work[q])
    BY Zenon, <2>3, <2>4 DEF LiveIn
  <2>7. CompactLocal(q)'
    BY Zenon, <1>1, <2>1, <2>4, <2>5, <2>6 DEF CompactLocal
  <2> QED BY Zenon, <2>2, <2>7
<1>3. ASSUME q \in Sessions PROVE MarkerLocal(q)'
  <2>1. MarkerLocal(q)
    BY Zenon, <1>3 DEF PacksInv
  <2> QED BY Zenon, <1>1, <1>3, <2>1 DEF MarkerLocal, LockStep, MarkerStep
<1>4. ASSUME q \in Backups PROVE (PackLocal(q) /\ BackupLocal(q))'
  <2>1. PackLocal(q) /\ BackupLocal(q)
    BY Zenon, <1>4 DEF PacksInv
  <2>2. PackLocal(q)'
    BY Zenon, <1>1, <1>4, <2>1 DEF PackLocal, AllResolve, Resolves
  <2>3. BackupLocal(q)'
    BY Zenon, <1>1, <1>4, <2>1 DEF BackupLocal, MarkerStep
  <2> QED BY Zenon, <2>2, <2>3
<1>5. ASSUME q \in Readers PROVE ReaderLocal(q)'
  <2>1. ReaderLocal(q)
    BY Zenon, <1>5 DEF PacksInv
  <2> QED BY Zenon, <1>1, <2>1 DEF ReaderLocal, MarkerStep, Readable, Resolves
<1> QED BY Zenon, <1>2, <1>3, <1>4, <1>5 DEF Own

\* Steps of maintenance under its lock, whatever they delete.
LEMMA OthersShrink ==
  ASSUME PacksInv, NEW p \in Maints, OthersSame(p), lock = p, lock' = lock, reaped' = reaped
  PROVE  \A q \in Procs \ {p} : Own(q)'
<1> SUFFICES ASSUME NEW q \in Procs \ {p} PROVE Own(q)'
  BY Zenon
<1>1. /\ pc'[q] = pc[q] /\ q # lock'
      /\ q \in Backups => ws'[q] = ws[q]
  BY Zenon, KindOf DEF OthersSame
<1>2. ASSUME q \in Compacts PROVE (CompactHolds(q) /\ CompactLocal(q))'
  <2>1. CompactHolds(q)
    BY Zenon, <1>2 DEF PacksInv
  <2>2. pc[q] \notin {"work", "repack", "saveIndex", "deleteOld"}
    BY Zenon, <2>1 DEF CompactHolds
  <2> QED BY Zenon, <1>1, <2>2 DEF CompactHolds, CompactLocal
<1>3. q \in Sessions \ reaped => pc[q] \notin Registered
  BY Zenon DEF PacksInv, MarkerLocal
<1>4. ASSUME q \in Sessions PROVE MarkerLocal(q)'
  BY Zenon, <1>1, <1>3, <1>4 DEF MarkerLocal
<1>5. ASSUME q \in Backups PROVE (PackLocal(q) /\ BackupLocal(q))'
  <2>1. PackLocal(q) /\ q \in Sessions
    BY Zenon, <1>5, KindOf DEF PacksInv
  <2>2. PackLocal(q)'
    BY Zenon, <1>1, <1>5, <2>1 DEF PackLocal
  <2>3. BackupLocal(q)'
    BY Zenon, <1>1, <1>3, <2>1 DEF BackupLocal, Registered
  <2> QED BY Zenon, <2>2, <2>3
<1>6. ASSUME q \in Readers PROVE ReaderLocal(q)'
  <2>1. q \in Sessions
    BY Zenon, <1>6, KindOf
  <2> QED BY Zenon, <1>1, <1>3, <2>1 DEF ReaderLocal, Registered
<1> QED BY Zenon, <1>2, <1>4, <1>5, <1>6 DEF Own

LEMMA PartKept ==
  ASSUME TypeOK, PartInv, NEW p \in Procs, NEW l, pc[p] # "done" \/ l = "done",
         pc' = [pc EXCEPT ![p] = l],
         scenario' = scenario
  PROVE  PartInv'
BY Zenon DEF PartInv, TypeOK

\* No new pack.
LEMMA BlobsKept ==
  ASSUME TypeOK, BlobsInv, NEW p \in Procs, NEW l, pc' = [pc EXCEPT ![p] = l],
         scenario' = scenario, AllPacks' \subseteq AllPacks,
         p \in Backups /\ pc[p] \in {"dereg", "done", "crashed"} => l \in {"dereg", "done", "crashed"},
         p \in Compacts /\ pc[p] \notin {"list", "load", "lock", "work"}
           => l \notin {"list", "load", "lock", "work"},
         \A b \in Backups : pc'[b] \notin {"dereg", "done", "crashed"} =>
            Indexed(ws[b].new) \subseteq Indexed(ws'[b].new)
  PROVE  BlobsInv'
<1>1. \A q \in Procs : pc'[q] = IF q = p THEN l ELSE pc[q]
  BY Zenon DEF TypeOK
<1>2. Compacted => Compacted'
  BY Zenon, <1>1, KindOf DEF Compacted
<1>3. ASSUME ~Compacted' PROVE Disjoint(AllPacks)'
  BY Zenon, <1>2, <1>3 DEF BlobsInv, Disjoint
<1>4. ASSUME ~Compacted', NEW b \in Backups, pc'[b] \notin {"dereg", "done", "crashed"},
             NEW q \in AllPacks', NEW c \in Chunks, <<c, b>> \in q
      PROVE  c \in Indexed(ws'[b].new)
  <2>1. pc[b] \notin {"dereg", "done", "crashed"}
    BY Zenon, <1>1, <1>4, KindOf
  <2>2. c \in Indexed(ws[b].new)
    BY Zenon, <1>2, <1>4, <2>1 DEF BlobsInv
  <2> QED BY Zenon, <1>4, <2>2
<1> QED BY Zenon, <1>3, <1>4 DEF BlobsInv

LEMMA IndexStillResolves ==
  ASSUME IndexResolves, index' = index, packs \subseteq packs'
  PROVE  IndexResolves'
BY Zenon DEF IndexResolves, Resolves

\* A step of p that leaves the index as it is and deletes nothing.
LEMMA GrowStep ==
  ASSUME PacksInv, CountsInv', NEW p \in Procs, NEW l, pc[p] # "done" \/ l = "done",
         pc' = [pc EXCEPT ![p] = l], scenario' = scenario, OthersSame(p), LockStep(p),
         MarkerStep(p), packs \subseteq packs', snaps \subseteq snaps', index' = index,
         BlobsInv', Own(p)'
  PROVE  PacksInv'
<1>1. TypeOK /\ PartInv /\ IndexResolves
  BY Zenon DEF PacksInv, CountsInv
<1>2. \A q \in Procs \ {p} : Own(q)'
  BY Zenon, OthersGrow
<1>3. PartInv'
  BY Zenon, <1>1, PartKept
<1>4. IndexResolves'
  BY Zenon, <1>1, IndexStillResolves
<1>5. \A q \in Procs : Own(q)'
  BY Zenon, <1>2
<1> QED BY Zenon, <1>3, <1>4, <1>5, KindOf DEF PacksInv, Own, Procs, Sessions, Maints

--------------------------------------------------------------------------------
\* The invariant holds at first, and every step keeps it.

LEMMA PacksInitial ==
  ASSUME Init, CountsInv
  PROVE  PacksInv
<1>2. PartInv
  BY Zenon DEF Init, PartInv
<1>3. /\ \A b \in Backups : pc[b] \in {"idle", "done"} /\ ws[b] = NewSession
      /\ \A r \in Readers : pc[r] \in {"idle", "done"}
      /\ \A m \in Maints : pc[m] \in {"list", "done"}
  BY Zenon, KindOf DEF Init
<1>4. IndexResolves
  <2> SUFFICES ASSUME NEW c \in Indexed(index) PROVE Resolves(index, c)
    BY Zenon DEF IndexResolves
  <2>1. c \in Chunks /\ c \in Founded /\ index[c].pack = FirstPack
    BY DEF Indexed, Init, Absent
  <2>2. <<c, Founder>> \in FirstPack
    BY Zenon, <2>1 DEF FirstPack, PackOf
  <2>3. FirstPack \in packs /\ c \in ChunksOf(FirstPack)
    BY <2>2 DEF Init, ChunksOf
  <2> QED BY Zenon, <2>1, <2>3 DEF Resolves
<1>5. AllPacks \subseteq {FirstPack}
  BY Zenon, <1>3 DEF AllPacks, Init, NewSession
<1>6. \A b \in Backups, c \in Chunks : <<c, b>> \notin FirstPack
  BY Zenon, RepositoryAssumption DEF FirstPack, PackOf
<1>7. BlobsInv
  BY Zenon, <1>5, <1>6 DEF BlobsInv, Disjoint
<1>8. \A m \in Compacts : CompactHolds(m) /\ CompactLocal(m)
  BY Zenon, <1>3, KindOf DEF CompactHolds, CompactLocal
<1>9. \A s \in Sessions : MarkerLocal(s)
  BY Zenon, <1>3 DEF MarkerLocal, Registered, Uploading, Sessions
<1>10. \A b \in Backups : PackLocal(b) /\ BackupLocal(b)
  BY <1>3 DEF PackLocal, BackupLocal, Uploading, NewSession, NoCounts
<1>11. \A r \in Readers : ReaderLocal(r)
  BY Zenon, <1>3 DEF ReaderLocal
<1> QED BY Zenon, <1>2, <1>4, <1>7, <1>8, <1>9, <1>10, <1>11 DEF PacksInv

\* At these places nobody depends on anything.
Loose == {"release", "clear", "abort", "done", "crashed", "dereg", "deregHeld", "cleanup",
          "putSnapshot"}

LEMMA LooseOwn ==
  ASSUME NEW p \in Procs, pc'[p] \in Loose,
         p \in Backups => \A c \in Chunks :
            ws'[p].writer[c] > 0 => ws'[p].new[c].refs = 0 /\ ws'[p].recovered[c] = {}
  PROVE  Own(p)'
<1>1. CompactHolds(p)' /\ CompactLocal(p)' /\ MarkerLocal(p)' /\ BackupLocal(p)' /\ ReaderLocal(p)'
  BY Zenon DEF Loose, CompactHolds, CompactLocal, MarkerLocal, BackupLocal, ReaderLocal, Registered,
         Uploading
<1>2. p \in Backups => PackLocal(p)'
  BY Zenon DEF Loose, PackLocal, Uploading
<1> QED BY Zenon, <1>1, <1>2 DEF Own

\* A step of p to such a place that changes no pack, no index and no snapshot.
LEMMA LooseStep ==
  ASSUME PacksInv, CountsInv', NEW p \in Procs, NEW l \in Loose,
         pc[p] # "done", pc[p] \in {"dereg", "crashed"} => l \in {"done", "crashed"},
         pc' = [pc EXCEPT ![p] = l], scenario' = scenario, OthersSame(p), LockStep(p),
         MarkerStep(p), UNCHANGED <<packs, index>>, snaps \subseteq snaps',
         p \in Backups => ws'[p] \in {ws[p], NewSession},
         p \in Backups /\ l # "crashed" => ws'[p] = ws[p]
  PROVE  PacksInv'
<1>1. TypeOK /\ BlobsInv /\ pc'[p] = l /\ DOMAIN pc = Procs
  BY Zenon DEF PacksInv, CountsInv, TypeOK
<1>2. Own(p)'
  <2>1. p \in Backups => \A c \in Chunks :
            ws'[p].writer[c] > 0 => ws'[p].new[c].refs = 0 /\ ws'[p].recovered[c] = {}
    <3>1. p \in Backups => PackLocal(p)
      BY Zenon DEF PacksInv
    <3>2. \A c \in Chunks : NewSession.writer[c] = 0
      BY Zenon DEF NewSession, NoCounts
    <3> QED BY <3>1, <3>2 DEF PackLocal
  <2> QED BY Zenon, <1>1, <2>1, LooseOwn
<1>3. ASSUME NEW b \in Backups
      PROVE  /\ ws'[b].inflight \subseteq ws[b].inflight
             /\ pc'[b] \notin {"dereg", "done", "crashed"} =>
                  Indexed(ws[b].new) \subseteq Indexed(ws'[b].new)
  <2>1. CASE b = p
    <3>1. NewSession.inflight = {}
      BY Zenon DEF NewSession
    <3> QED BY Zenon, <1>1, <2>1, <3>1
  <2>2. CASE b # p
    BY Zenon, <2>2 DEF OthersSame
  <2> QED BY Zenon, <2>1, <2>2
<1>4. AllPacks' \subseteq AllPacks
  BY Zenon, <1>3 DEF AllPacks
<1>5. BlobsInv'
  BY Zenon, <1>1, <1>3, <1>4, BlobsKept DEF Loose
<1> QED BY Zenon, <1>2, <1>5, GrowStep

LEMMA SnapshotsStillResolve ==
  ASSUME CountingLaws, CountsInv, IndexResolves
  PROVE  SnapshotsResolve
<1> SUFFICES ASSUME NEW s \in snaps, NEW c \in Counted(s.refs) PROVE Resolves(index, c)
  BY Zenon DEF SnapshotsResolve, Readable
<1>1. c \in Chunks /\ s.refs[c] > 0 /\ s.refs[c] \in Nat
  BY Zenon DEF Counted, CountsInv, TypeOK, Snapshots, Counts
<1>2. Counting(snaps, c) /\ RefsTo(snaps, c) \in Nat /\ index[c].refs \in Nat
      /\ index[c].refs >= RefsTo(snaps, c)
  BY Zenon, <1>1, SnapsCount
<1>3. RefsTo({s}, c) = s.refs[c]
  BY Zenon, <1>1, RefsToOne
<1>4. RefsTo({s}, c) <= RefsTo(snaps, c)
  BY Zenon, <1>2, RefsToMonotone
<1>5. index[c].refs > 0
  BY <1>1, <1>2, <1>3, <1>4
<1> QED BY Zenon, <1>1, <1>5 DEF IndexResolves, Indexed

LEMMA CommonPacks ==
  ASSUME CountingLaws, PacksInv, CountsInv', NEW p \in Procs,
         \/ ListSnapshots(p) \/ LoadIndex(p) \/ Release(p) \/ Crash(p)
         \/ Register(p) \/ Deregister(p) \/ EndRead(p)
  PROVE  PacksInv'
<1> USE DEF Goto, packVars, indexVars, lockVars, viewVars, maintVars, auxVars
<1>0. /\ TypeOK /\ pc[p] \in PhasesOf(p) /\ Own(p) /\ BlobsInv /\ IndexResolves
      /\ DOMAIN pc = Procs /\ DOMAIN view = Procs /\ DOMAIN listed = Procs
      /\ DOMAIN ws = Backups
      /\ lock = p => pc[p] \in HolderAt
  BY Zenon, OwnParts, KindOf DEF CountsInv, PhaseInv, TypeOK
<1>1. CASE ListSnapshots(p)
  <2>1. /\ pc[p] = "list" /\ pc' = [pc EXCEPT ![p] = "load"]
        /\ listed' = [listed EXCEPT ![p] = snaps]
        /\ UNCHANGED <<scenario, packs, index, snaps, lock, markers, reaped, view, ws, todo, work>>
    BY Zenon, <1>1 DEF ListSnapshots
  <2>2. /\ OthersSame(p) /\ LockStep(p) /\ MarkerStep(p) /\ pc'[p] = "load"
        /\ listed'[p] = snaps /\ AllPacks' = AllPacks
    BY Zenon, <1>0, <2>1 DEF OthersSame, LockStep, MarkerStep, AllPacks
  <2>3. BlobsInv'
    BY Zenon, <1>0, <2>1, <2>2, BlobsKept
  <2>4. Own(p)'
    <3>1. CompactHolds(p)' /\ CompactLocal(p)' /\ BackupLocal(p)' /\ ReaderLocal(p)'
      BY Zenon, <2>1, <2>2 DEF CompactHolds, CompactLocal, BackupLocal, ReaderLocal, Uploading
    <3>2. p \in Sessions => MarkerLocal(p)'
      BY Zenon, <1>0, <2>1, <2>2 DEF Own, MarkerLocal, Registered
    <3>3. p \in Backups => PackLocal(p)'
      BY Zenon, <1>0, <2>1, <2>2 DEF Own, PackLocal, Uploading
    <3> QED BY Zenon, <3>1, <3>2, <3>3 DEF Own
  <2> QED BY Zenon, <2>1, <2>2, <2>3, <2>4, GrowStep
<1>2. CASE LoadIndex(p)
  <2> DEFINE l == IF p \in Readers THEN "read" ELSE IF p \in Maints THEN "lock"
                  ELSE IF NameTaken(p, listed[p]) THEN "dereg" ELSE "recover"
  <2>1. /\ pc[p] = "load" /\ pc' = [pc EXCEPT ![p] = l]
        /\ view' = [view EXCEPT ![p] = index]
        /\ UNCHANGED <<scenario, packs, index, snaps, lock, markers, reaped, listed, ws, todo, work>>
    BY Zenon, <1>2 DEF LoadIndex
  <2>2. l \in {"read", "lock", "dereg", "recover"} /\ (p \in Maints => l = "lock")
        /\ (p \in Backups => l \in {"dereg", "recover"}) /\ (p \in Sessions => l # "lock")
    BY Zenon, KindOf DEF Sessions
  <2> HIDE DEF l
  <2>3. /\ OthersSame(p) /\ LockStep(p) /\ MarkerStep(p) /\ pc'[p] = l
        /\ view'[p] = index /\ AllPacks' = AllPacks
    BY Zenon, <1>0, <2>1 DEF OthersSame, LockStep, MarkerStep, AllPacks
  <2>4. BlobsInv'
    BY ZenonT(30), <1>0, <2>1, <2>2, <2>3, KindOf, BlobsKept
  <2>5. Own(p)'
    <3>1. CompactHolds(p)' /\ CompactLocal(p)'
      BY Zenon, <2>2, <2>3 DEF CompactHolds, CompactLocal
    <3>2. p \in Sessions => MarkerLocal(p)'
      BY Zenon, <1>0, <2>1, <2>2, <2>3 DEF Own, MarkerLocal, Registered
    <3>3. p \in Backups => PackLocal(p)' /\ BackupLocal(p)'
      BY ZenonT(30), <1>0, <2>1, <2>2, <2>3 DEF Own, PackLocal, BackupLocal, Uploading
    <3>4. p \in Readers => ReaderLocal(p)'
      <4>1. SnapshotsResolve
        BY Zenon, <1>0, SnapshotsStillResolve DEF PacksInv
      <4>2. p \in Readers /\ p \notin reaped => Readable(index, listed[p])
        BY Zenon, <1>0, <2>1, <4>1 DEF Own, ReaderLocal, SnapshotsResolve, Readable
      <4>3. Readable(index, listed[p]) => (Readable(view[p], listed[p]))'
        BY <2>1, <2>3 DEF Readable, Resolves
      <4>4. pc'[p] # "load" /\ reaped' = reaped
        BY Zenon, <2>1, <2>2, <2>3
      <4> QED BY Zenon, <4>2, <4>3, <4>4 DEF ReaderLocal
    <3> QED BY Zenon, <3>1, <3>2, <3>3, <3>4 DEF Own
  <2> QED BY Zenon, <2>1, <2>3, <2>4, <2>5, GrowStep
<1>3. CASE Release(p)
  <2>1. PICK l \in {"done", "clear", "abort"} : pc' = [pc EXCEPT ![p] = l]
    BY ZenonT(30), <1>3 DEF Release
  <2>2. /\ pc[p] = "release" /\ lock' = IF lock = p THEN None ELSE lock
        /\ UNCHANGED <<scenario, packs, index, snaps, markers, reaped, listed, view, ws, todo, work>>
    BY Zenon, <1>3 DEF Release
  <2>3. OthersSame(p) /\ LockStep(p) /\ MarkerStep(p)
    BY Zenon, <1>0, <2>1, <2>2, KindOf DEF OthersSame, LockStep, MarkerStep, Maints, Procs
  <2> QED BY Zenon, <2>1, <2>2, <2>3, LooseStep DEF Loose
<1>4. CASE Crash(p)
  <2>1. /\ pc[p] \notin {"done", "crashed"} /\ pc' = [pc EXCEPT ![p] = "crashed"]
        /\ ws' = [b \in Backups |-> IF b = p THEN NewSession ELSE ws[b]]
        /\ UNCHANGED <<scenario, packs, index, snaps, lock, markers, reaped, listed, view, todo, work>>
    BY Zenon, <1>4 DEF Crash
  <2>2. OthersSame(p) /\ LockStep(p) /\ MarkerStep(p) /\ (p \in Backups => ws'[p] = NewSession)
    BY Zenon, <1>0, <2>1 DEF OthersSame, LockStep, MarkerStep
  <2> QED BY Zenon, <2>1, <2>2, LooseStep DEF Loose
<1>5. CASE Register(p)
  <2>1. /\ p \in Sessions /\ pc[p] = "idle" /\ pc' = [pc EXCEPT ![p] = "list"] /\ lock = None
        /\ markers' = markers \cup {p}
        /\ UNCHANGED <<scenario, packs, index, snaps, lock, reaped, listed, view, ws, todo, work>>
    BY Zenon, <1>5 DEF Register
  <2>2. /\ OthersSame(p) /\ LockStep(p) /\ MarkerStep(p) /\ pc'[p] = "list"
        /\ AllPacks' = AllPacks
    BY ZenonT(30), <1>0, <2>1 DEF OthersSame, LockStep, MarkerStep, AllPacks
  <2>3. BlobsInv'
    BY Zenon, <1>0, <2>1, <2>2, KindOf, BlobsKept
  <2>4. Own(p)'
    <3>1. CompactHolds(p)' /\ CompactLocal(p)' /\ BackupLocal(p)' /\ ReaderLocal(p)'
      BY Zenon, <2>1, <2>2 DEF CompactHolds, CompactLocal, BackupLocal, ReaderLocal, Uploading
    <3>2. MarkerLocal(p)'
      BY Zenon, <2>1, <2>2, KindOf DEF MarkerLocal
    <3>3. p \in Backups => PackLocal(p)'
      BY ZenonT(30), <1>0, <2>1, <2>2 DEF Own, PackLocal, Uploading
    <3> QED BY Zenon, <3>1, <3>2, <3>3 DEF Own
  <2> QED BY Zenon, <2>1, <2>2, <2>3, <2>4, GrowStep
<1>6. CASE Deregister(p)
  <2> DEFINE l == IF pc[p] = "deregHeld" THEN "release" ELSE "done"
  <2>1. /\ pc[p] \in {"dereg", "deregHeld"} /\ pc' = [pc EXCEPT ![p] = l]
        /\ markers' = markers \ {p}
        /\ UNCHANGED <<scenario, packs, index, snaps, lock, reaped, listed, view, ws, todo, work>>
    BY Zenon, <1>6 DEF Deregister
  <2>2. l \in {"release", "done"} /\ (pc[p] = "dereg" => l = "done")
    BY Zenon
  <2> HIDE DEF l
  <2>3. OthersSame(p) /\ LockStep(p) /\ MarkerStep(p)
    BY Zenon, <1>0, <2>1 DEF OthersSame, LockStep, MarkerStep
  <2> QED BY ZenonT(30), <2>1, <2>2, <2>3, LooseStep DEF Loose
<1>7. CASE EndRead(p)
  <2>1. /\ p \in Readers /\ pc[p] = "read" /\ pc' = [pc EXCEPT ![p] = "dereg"]
        /\ UNCHANGED <<scenario, packs, index, snaps, lock, markers, reaped, listed, view, ws, todo,
                       work>>
    BY Zenon, <1>7 DEF EndRead
  <2>2. OthersSame(p) /\ LockStep(p) /\ MarkerStep(p)
    BY Zenon, <1>0, <2>1 DEF OthersSame, LockStep, MarkerStep
  <2> QED BY Zenon, <2>1, <2>2, LooseStep DEF Loose
<1> QED
  BY Zenon, <1>1, <1>2, <1>3, <1>4, <1>5, <1>6, <1>7

--------------------------------------------------------------------------------
\* The upload phase of a backup

\* A backup that goes on with what it has.
LEMMA CarriedOwn ==
  ASSUME PacksInv, NEW b \in Backups, pc[b] \in Uploading, pc'[b] \in Uploading,
         ws'[b] = ws[b], view'[b] = view[b], packs \subseteq packs', index' = index,
         reaped' = reaped, b \in markers => b \in markers', lock' \in {lock, b}
  PROVE  Own(b)'
<1>1. MarkerLocal(b) /\ PackLocal(b) /\ BackupLocal(b) /\ b \notin Compacts /\ b \notin Readers
      /\ b \notin Maints
  BY Zenon, KindOf DEF PacksInv
<1>2. pc'[b] # "putIndex"
  BY Zenon DEF Uploading
<1>3. MarkerLocal(b)'
  BY Zenon, <1>1 DEF MarkerLocal, Registered
<1>4. PackLocal(b)'
  BY Zenon, <1>1, <1>2 DEF PackLocal
<1>5. BackupLocal(b)'
  BY Zenon, <1>1 DEF BackupLocal
<1> QED BY Zenon, <1>1, <1>3, <1>4, <1>5 DEF Own

\* The packs and the blobs of a backup that starts no upload.
LEMMA SessionBlobs ==
  ASSUME PacksInv, NEW b \in Backups, NEW l, NEW x,
         ws' = [ws EXCEPT ![b] = x], pc' = [pc EXCEPT ![b] = l], scenario' = scenario,
         packs' \cup x.inflight \subseteq packs \cup ws[b].inflight,
         pc[b] \in {"dereg", "done", "crashed"} => l \in {"dereg", "done", "crashed"},
         l \notin {"dereg", "done", "crashed"} => Indexed(ws[b].new) \subseteq Indexed(x.new)
  PROVE  BlobsInv'
<1>1. TypeOK /\ BlobsInv /\ b \in Procs /\ b \notin Compacts /\ DOMAIN ws = Backups
      /\ DOMAIN pc = Procs
  BY Zenon, KindOf DEF PacksInv, CountsInv, TypeOK
<1>2. \A d \in Backups : ws'[d] = IF d = b THEN x ELSE ws[d]
  BY Zenon, <1>1
<1>3. AllPacks' \subseteq AllPacks
  BY ZenonT(30), <1>2 DEF AllPacks
<1>4. \A d \in Backups : pc'[d] \notin {"dereg", "done", "crashed"} =>
          Indexed(ws[d].new) \subseteq Indexed(ws'[d].new)
  BY Zenon, <1>1, <1>2
<1> QED BY Zenon, <1>1, <1>3, <1>4, BlobsKept

LEMMA BackupFacts ==
  ASSUME PacksInv, NEW b \in Backups
  PROVE  /\ TypeOK /\ b \in Procs /\ b \in Sessions /\ b \notin Maints /\ b \notin Compacts
         /\ b \notin Readers /\ DOMAIN pc = Procs /\ DOMAIN ws = Backups /\ DOMAIN view = Procs
         /\ DOMAIN listed = Procs /\ ws[b] \in WriteSessions /\ IsIndex(ws[b].new)
         /\ SessionLocal(b) /\ GenLocal(b) /\ CommitLocal(b)
         /\ MarkerLocal(b) /\ PackLocal(b) /\ BackupLocal(b)
<1>1. TypeOK /\ ws[b] \in WriteSessions
  BY Zenon DEF PacksInv, CountsInv, TypeOK
<1>2. IsIndex(ws[b].new)
  BY Zenon, <1>1, IndexEntries DEF WriteSessions
<1> QED BY Zenon, <1>1, <1>2, KindOf DEF PacksInv, CountsInv, TypeOK

LEMMA RecoverPacks ==
  ASSUME PacksInv, CountsInv', NEW b \in Backups, Recover(b)
  PROVE  PacksInv'
<1> USE DEF Goto, packVars, indexVars, lockVars, viewVars, maintVars, auxVars
<1>0. /\ TypeOK /\ b \in Procs /\ b \in Sessions /\ b \notin Maints /\ b \notin Compacts
      /\ b \notin Readers /\ DOMAIN pc = Procs /\ DOMAIN ws = Backups
      /\ SessionLocal(b) /\ MarkerLocal(b) /\ PackLocal(b) /\ BackupLocal(b)
  BY Zenon, BackupFacts
<1>1. /\ pc[b] = "recover" /\ pc' = [pc EXCEPT ![b] = "upload"]
      /\ UNCHANGED <<scenario, packs, index, snaps, lock, markers, reaped, listed, view, todo, work>>
  BY Zenon DEF Recover
<1>2. PICK x : /\ SessionBecomes(b, x) /\ SameDelta(x, ws[b])
               /\ x.inflight = ws[b].inflight /\ x.failed = ws[b].failed
               /\ \A c \in Chunks : x.recovered[c] # {} =>
                    /\ x.recovered[c] \in packs /\ c \in ChunksOf(x.recovered[c])
                    /\ c \notin Indexed(view[b])
  BY Zenon, <1>0, RecoverEffect
<1>3. ws'[b] = x /\ pc'[b] = "upload" /\ ws' = [ws EXCEPT ![b] = x]
  BY Zenon, <1>0, <1>1, <1>2 DEF SessionBecomes
<1>4. OthersSame(b) /\ LockStep(b) /\ MarkerStep(b)
  BY Zenon, <1>0, <1>1, <1>3 DEF OthersSame, LockStep, MarkerStep
<1>5. \A c \in Chunks : x.writer[c] = 0 /\ c \notin Indexed(x.new)
  <2>1. x.new = EmptyIndex /\ x.writer = NoCounts
    BY Zenon, <1>0, <1>1, <1>2 DEF SessionLocal, SameDelta
  <2>2. \A c \in Chunks : EmptyIndex[c].refs = 0 /\ NoCounts[c] = 0
    BY Zenon DEF EmptyIndex, NoCounts, Absent
  <2> QED BY <2>1, <2>2 DEF Indexed
<1>6. BlobsInv'
  BY Zenon, <1>1, <1>2, <1>3, SessionBlobs DEF SameDelta
<1>7. Own(b)'
  <2>1. MarkerLocal(b)'
    BY Zenon, <1>0, <1>1, <1>3 DEF MarkerLocal, Registered
  <2>2. PackLocal(b)'
    BY <1>2, <1>3, <1>5 DEF PackLocal
  <2>3. BackupLocal(b)'
    BY Zenon, <1>0, <1>1, <1>2, <1>3, <1>5 DEF BackupLocal
  <2> QED BY Zenon, <1>0, <2>1, <2>2, <2>3 DEF Own
<1> QED BY Zenon, <1>0, <1>1, <1>4, <1>6, <1>7, GrowStep

\* A step of a backup that goes on uploading.
LEMMA UploadingStep ==
  ASSUME PacksInv, CountsInv', NEW b \in Backups, NEW x, SessionBecomes(b, x),
         pc' = pc, UNCHANGED <<scenario, index, snaps, lock, reaped, listed, view, todo, work>>,
         packs \subseteq packs', markers \subseteq markers', BlobsInv', PackLocal(b)', BackupLocal(b)'
  PROVE  PacksInv'
<1>0. /\ TypeOK /\ b \in Procs /\ b \in Sessions /\ b \notin Maints /\ b \notin Compacts
      /\ b \notin Readers /\ DOMAIN pc = Procs /\ DOMAIN ws = Backups /\ MarkerLocal(b)
  BY Zenon, BackupFacts
<1>1. pc' = [pc EXCEPT ![b] = pc[b]]
  BY Zenon, <1>0 DEF TypeOK
<1>2. OthersSame(b) /\ LockStep(b) /\ MarkerStep(b)
  BY Zenon, <1>0 DEF OthersSame, LockStep, MarkerStep, SessionBecomes
<1>3. MarkerLocal(b)'
  BY Zenon, <1>0 DEF MarkerLocal
<1>4. Own(b)'
  BY Zenon, <1>0, <1>3 DEF Own
<1> QED BY Zenon, <1>0, <1>1, <1>2, <1>4, GrowStep

LEMMA StorePacks ==
  ASSUME PacksInv, CountsInv', NEW b \in Backups, NEW c \in Chunks, StoreChunk(b, c)
  PROVE  PacksInv'
<1> USE DEF packVars, indexVars, lockVars, viewVars, maintVars, auxVars
<1>0. /\ TypeOK /\ DOMAIN ws = Backups /\ ws[b] \in WriteSessions /\ IsIndex(ws[b].new)
      /\ PackLocal(b) /\ BackupLocal(b)
  BY Zenon, BackupFacts
<1>1. /\ pc[b] = "upload" /\ pc' = pc
      /\ UNCHANGED <<scenario, packs, index, snaps, lock, markers, reaped, listed, view, todo, work>>
  BY Zenon DEF StoreChunk
<1>2. PICK x : /\ SessionBecomes(b, x)
               /\ x.refs = [ws[b].refs EXCEPT ![c] = @ + 1]
               /\ x.inflight = ws[b].inflight /\ x.failed = ws[b].failed
               /\ \/ /\ c \in Known(b) /\ x.bumps = [ws[b].bumps EXCEPT ![c] = @ + 1]
                     /\ x.new = ws[b].new /\ x.writer = ws[b].writer
                     /\ x.recovered = ws[b].recovered
                  \/ /\ c \notin Known(b) /\ ws[b].recovered[c] # {}
                     /\ x.new = [ws[b].new EXCEPT ![c] =
                                   [pack |-> ws[b].recovered[c], refs |-> 1]]
                     /\ x.recovered = [ws[b].recovered EXCEPT ![c] = {}]
                     /\ x.bumps = ws[b].bumps /\ x.writer = ws[b].writer
                  \/ /\ c \notin Known(b) /\ ws[b].recovered[c] = {}
                     /\ x.writer = [ws[b].writer EXCEPT ![c] = @ + 1]
                     /\ x.new = ws[b].new /\ x.bumps = ws[b].bumps
                     /\ x.recovered = ws[b].recovered
  BY <1>0, StoreEffect, ZenonT(30)
<1>3. ws'[b] = x /\ ws' = [ws EXCEPT ![b] = x] /\ pc' = [pc EXCEPT ![b] = "upload"]
  BY ZenonT(30), <1>0, <1>1, <1>2 DEF SessionBecomes, TypeOK
<1>4. /\ DOMAIN ws[b].new = Chunks /\ DOMAIN ws[b].writer = Chunks
      /\ DOMAIN ws[b].recovered = Chunks /\ ws[b].new[c].refs \in Nat
      /\ c \notin Known(b) => ws[b].new[c].refs = 0
  BY <1>0 DEF WriteSessions, Counts, IsIndex, Indices, Known, Indexed
<1>5. \A d \in Chunks : ws[b].writer[d] > 0 => ws[b].new[d].refs = 0 /\ ws[b].recovered[d] = {}
  BY Zenon, <1>0 DEF PackLocal
<1>6. \A d \in Chunks :
        /\ d \in Indexed(ws[b].new) => d \in ChunksOf(ws[b].new[d].pack)
        /\ ws[b].recovered[d] # {} => d \in ChunksOf(ws[b].recovered[d])
  BY Zenon, <1>0, <1>1 DEF PackLocal, Uploading
<1>7. /\ \A d \in Chunks : x.writer[d] > 0 => x.new[d].refs = 0 /\ x.recovered[d] = {}
      /\ \A d \in Chunks :
           /\ d \in Indexed(x.new) => d \in ChunksOf(x.new[d].pack)
           /\ x.recovered[d] # {} => d \in ChunksOf(x.recovered[d])
      /\ Indexed(ws[b].new) \subseteq Indexed(x.new)
      /\ \A d \in Chunks :
           /\ d \in Indexed(x.new) => \/ d \in Indexed(ws[b].new) /\ x.new[d].pack = ws[b].new[d].pack
                                      \/ ws[b].recovered[d] # {} /\ x.new[d].pack = ws[b].recovered[d]
           /\ x.recovered[d] # {} => x.recovered[d] = ws[b].recovered[d]
  <2>1. CASE x.new = ws[b].new /\ x.writer = ws[b].writer /\ x.recovered = ws[b].recovered
    BY ZenonT(30), <1>5, <1>6, <2>1
  <2>2. CASE /\ c \notin Known(b) /\ ws[b].recovered[c] # {}
             /\ x.new = [ws[b].new EXCEPT ![c] = [pack |-> ws[b].recovered[c], refs |-> 1]]
             /\ x.recovered = [ws[b].recovered EXCEPT ![c] = {}]
             /\ x.writer = ws[b].writer
    <3>1. \A d \in Chunks : /\ x.new[d] = IF d = c THEN [pack |-> ws[b].recovered[c], refs |-> 1]
                                          ELSE ws[b].new[d]
                            /\ x.recovered[d] = IF d = c THEN {} ELSE ws[b].recovered[d]
      BY Zenon, <1>4, <2>2
    <3>2. \A d \in Chunks \ {c} : x.new[d] = ws[b].new[d] /\ x.recovered[d] = ws[b].recovered[d]
      BY Zenon, <3>1
    <3>3. x.new[c].pack = ws[b].recovered[c] /\ x.new[c].refs = 1 /\ x.recovered[c] = {}
      BY <3>1
    <3>4. ~(x.writer[c] > 0)
      BY Zenon, <1>5, <2>2
    <3> QED BY <1>5, <1>6, <2>2, <3>2, <3>3, <3>4 DEF Indexed
  <2>3. CASE /\ c \notin Known(b) /\ ws[b].recovered[c] = {}
             /\ x.writer = [ws[b].writer EXCEPT ![c] = @ + 1]
             /\ x.new = ws[b].new /\ x.recovered = ws[b].recovered
    <3>1. \A d \in Chunks \ {c} : x.writer[d] = ws[b].writer[d]
      BY Zenon, <1>4, <2>3
    <3> QED BY Zenon, <1>4, <1>5, <1>6, <2>3, <3>1
  <2> QED BY Zenon, <1>2, <2>1, <2>2, <2>3
<1>8. BlobsInv'
  <2>1. packs' \cup x.inflight \subseteq packs \cup ws[b].inflight
    BY Zenon, <1>1, <1>2
  <2>2. scenario' = scenario /\ pc[b] \notin {"dereg", "done", "crashed"}
    BY Zenon, <1>1
  <2>3. Indexed(ws[b].new) \subseteq Indexed(x.new)
    BY Zenon, <1>7
  <2> QED BY Zenon, <1>3, <2>1, <2>2, <2>3, SessionBlobs
<1>9. PackLocal(b)'
  BY Zenon, <1>1, <1>3, <1>7 DEF PackLocal
<1>10. BackupLocal(b)'
  BY Zenon, <1>0, <1>1, <1>2, <1>3, <1>7 DEF BackupLocal, Uploading
<1> QED BY Zenon, <1>1, <1>2, <1>8, <1>9, <1>10, UploadingStep

LEMMA SealPacks ==
  ASSUME PacksInv, CountsInv', NEW b \in Backups, Seal(b)
  PROVE  PacksInv'
<1> USE DEF packVars, indexVars, lockVars, viewVars, maintVars, auxVars
<1> DEFINE pack == PackOf(Counted(ws[b].writer), b)
<1>0. /\ TypeOK /\ DOMAIN ws = Backups /\ ws[b] \in WriteSessions /\ DOMAIN pc = Procs
      /\ b \in Procs /\ PackLocal(b) /\ BackupLocal(b) /\ BlobsInv
  BY Zenon, BackupFacts DEF PacksInv
<1>1. /\ pc[b] \in {"upload", "flush"} /\ pc' = pc
      /\ UNCHANGED <<scenario, packs, index, snaps, lock, reaped, listed, view, todo, work>>
  BY Zenon DEF Seal
<1>2. markers \subseteq markers'
  BY Zenon DEF Seal
<1>3. PICK x : /\ SessionBecomes(b, x)
               /\ x.new = [c \in Chunks |-> IF ws[b].writer[c] > 0
                             THEN [pack |-> pack, refs |-> ws[b].writer[c]]
                             ELSE ws[b].new[c]]
               /\ x.bumps = ws[b].bumps /\ x.writer = NoCounts /\ x.refs = ws[b].refs
               /\ x.recovered = ws[b].recovered /\ x.failed = ws[b].failed
               /\ x.inflight = ws[b].inflight \cup {pack}
  BY <1>0, SealEffect, Zenon
<1>4. \A c \in Chunks : ws[b].writer[c] > 0 => c \in ChunksOf(pack)
  <2> TAKE c \in Chunks
  <2>1. ws[b].writer[c] > 0 => <<c, b>> \in pack
    BY Zenon DEF PackOf, Counted
  <2> HIDE DEF pack
  <2>2. <<c, b>> \in pack => c \in ChunksOf(pack)
    BY DEF ChunksOf
  <2> QED BY Zenon, <2>1, <2>2
<1>5. \A blob \in pack : \E c \in Chunks : blob = <<c, b>> /\ ws[b].writer[c] > 0
  BY Zenon DEF PackOf, Counted
<1> HIDE DEF pack
<1>6. /\ ws'[b] = x /\ ws' = [ws EXCEPT ![b] = x]
      /\ \A d \in Backups : ws'[d] = IF d = b THEN x ELSE ws[d]
  BY Zenon, <1>0, <1>3 DEF SessionBecomes
<1>7. \A c \in Chunks :
        /\ ws[b].writer[c] > 0 => x.new[c].pack = pack /\ x.new[c].refs = ws[b].writer[c]
                                  /\ ws[b].new[c].refs = 0
        /\ ~(ws[b].writer[c] > 0) => x.new[c] = ws[b].new[c]
  BY <1>0, <1>3 DEF PackLocal
<1>8. Indexed(ws[b].new) \subseteq Indexed(x.new)
  BY Zenon, <1>7 DEF Indexed
<1>9. AllPacks' = AllPacks \cup {pack}
  BY <1>1, <1>3, <1>6 DEF AllPacks
<1>10. BlobsInv'
  <2>1. Compacted' <=> Compacted
    BY Zenon, <1>1 DEF Compacted
  <2>2. ASSUME ~Compacted, NEW q \in AllPacks PROVE q \cap pack = {}
    <3> SUFFICES ASSUME NEW blob \in q, blob \in pack PROVE FALSE
      BY Zenon
    <3>1. PICK c \in Chunks : blob = <<c, b>> /\ ws[b].writer[c] > 0
      BY Zenon, <1>5
    <3>2. c \in Indexed(ws[b].new)
      BY Zenon, <1>0, <1>1, <2>2, <3>1 DEF BlobsInv
    <3> QED BY <1>7, <3>1, <3>2 DEF Indexed
  <2>3. ASSUME ~Compacted PROVE Disjoint(AllPacks)'
    <3>1. Disjoint(AllPacks)
      BY Zenon, <1>0, <2>3 DEF BlobsInv
    <3> QED BY <1>9, <2>2, <2>3, <3>1 DEF Disjoint
  <2>4. ASSUME ~Compacted, NEW d \in Backups, pc[d] \notin {"dereg", "done", "crashed"},
               NEW q \in AllPacks', NEW c \in Chunks, <<c, d>> \in q
        PROVE  c \in Indexed(ws'[d].new)
    <3>1. CASE q \in AllPacks
      <4>1. c \in Indexed(ws[d].new)
        BY Zenon, <1>0, <2>4, <3>1 DEF BlobsInv
      <4> QED BY Zenon, <1>6, <1>8, <4>1
    <3>2. CASE q = pack
      <4>1. PICK e \in Chunks : <<c, d>> = <<e, b>> /\ ws[b].writer[e] > 0
        BY Zenon, <1>5, <2>4, <3>2
      <4>2. c = e /\ d = b
        BY Zenon, <4>1
      <4> QED BY Zenon, <1>6, <1>7, <4>1, <4>2 DEF Indexed
    <3> QED BY Zenon, <1>9, <3>1, <3>2
  <2> QED BY Zenon, <1>1, <2>1, <2>3, <2>4 DEF BlobsInv
<1>11. PackLocal(b)'
  <2>1. \A c \in Chunks : x.writer[c] = 0
    BY Zenon, <1>3 DEF NoCounts
  <2>2. \A c \in Chunks : /\ c \in Indexed(x.new) => c \in ChunksOf(x.new[c].pack)
                          /\ x.recovered[c] # {} => c \in ChunksOf(x.recovered[c])
    <3> TAKE c \in Chunks
    <3>1. /\ c \in Indexed(ws[b].new) => c \in ChunksOf(ws[b].new[c].pack)
          /\ ws[b].recovered[c] # {} => c \in ChunksOf(ws[b].recovered[c])
      BY Zenon, <1>0, <1>1 DEF PackLocal, Uploading
    <3> QED BY Zenon, <1>3, <1>4, <1>7, <3>1 DEF Indexed
  <2> QED BY <1>1, <1>6, <2>1, <2>2 DEF PackLocal
<1>12. BackupLocal(b)'
  <2>1. ASSUME b \notin reaped, NEW c \in Chunks
        PROVE  /\ c \in Indexed(x.new) /\ ~x.failed => x.new[c].pack \in packs \cup x.inflight
               /\ x.recovered[c] # {} => x.recovered[c] \in packs
    <3>1. /\ c \in Indexed(ws[b].new) /\ ~ws[b].failed =>
               ws[b].new[c].pack \in packs \cup ws[b].inflight
          /\ ws[b].recovered[c] # {} => ws[b].recovered[c] \in packs
      BY Zenon, <1>0, <1>1, <2>1 DEF BackupLocal, Uploading
    <3> QED BY Zenon, <1>3, <1>7, <3>1 DEF Indexed
  <2>2. b \notin reaped => Indexed(view[b]) \subseteq Indexed(index)
    BY Zenon, <1>0, <1>1 DEF BackupLocal, Uploading
  <2> QED BY Zenon, <1>1, <1>6, <2>1, <2>2 DEF BackupLocal
<1> QED BY Zenon, <1>1, <1>2, <1>3, <1>10, <1>11, <1>12, UploadingStep

LEMMA PutPacks ==
  ASSUME PacksInv, CountsInv', NEW b \in Backups, NEW p \in ws[b].inflight, Upload(b, p)
  PROVE  PacksInv'
<1> USE DEF packVars, indexVars, lockVars, viewVars, maintVars, auxVars
<1>0. /\ TypeOK /\ DOMAIN ws = Backups /\ PackLocal(b) /\ BackupLocal(b)
  BY Zenon, BackupFacts
<1>1. /\ pc' = pc
      /\ UNCHANGED <<scenario, index, snaps, lock, markers, reaped, listed, view, todo, work>>
  BY Zenon DEF Upload
<1>2. PICK x : /\ SessionBecomes(b, x) /\ SameDelta(x, ws[b])
               /\ x.recovered = ws[b].recovered /\ x.inflight = ws[b].inflight \ {p}
               /\ \/ packs' = packs \cup {p} /\ x.failed = ws[b].failed
                  \/ packs' = packs /\ x.failed = TRUE
  BY Zenon, <1>0, UploadEffect
<1>3. ws'[b] = x /\ ws' = [ws EXCEPT ![b] = x] /\ pc' = [pc EXCEPT ![b] = pc[b]]
  BY Zenon, <1>0, <1>1, <1>2 DEF SessionBecomes, TypeOK
<1>4. BlobsInv'
  <2>1. packs' \cup x.inflight \subseteq packs \cup ws[b].inflight
    BY Zenon, <1>2
  <2>2. scenario' = scenario /\ Indexed(ws[b].new) \subseteq Indexed(x.new)
    BY Zenon, <1>1, <1>2 DEF SameDelta
  <2>3. pc[b] \in {"dereg", "done", "crashed"} => pc[b] \in {"dereg", "done", "crashed"}
    BY Zenon
  <2> QED BY Zenon, <1>3, <2>1, <2>2, <2>3, SessionBlobs
<1>5. PackLocal(b)'
  <2>1. ~(lock = b /\ pc[b] = "putIndex") \/ AllResolve(view[b])
    BY Zenon, <1>0 DEF PackLocal
  <2>2. packs \subseteq packs'
    BY Zenon, <1>2
  <2>3. AllResolve(view[b]) => AllResolve(view[b])'
    BY Zenon, <1>1, <2>2 DEF AllResolve, Resolves
  <2> QED BY <1>0, <1>1, <1>2, <1>3, <2>1, <2>3 DEF PackLocal, SameDelta
<1>6. BackupLocal(b)'
  BY Zenon, <1>0, <1>1, <1>2, <1>3 DEF BackupLocal, SameDelta
<1>7. packs \subseteq packs'
  BY Zenon, <1>2
<1> QED BY Zenon, <1>1, <1>2, <1>4, <1>5, <1>6, <1>7, UploadingStep

--------------------------------------------------------------------------------
\* The commit of a backup

\* A step that changes no write session.
LEMMA PlainStep ==
  ASSUME PacksInv, CountsInv', NEW b \in Backups, NEW l,
         pc[b] \notin {"dereg", "done", "crashed"}, pc' = [pc EXCEPT ![b] = l],
         UNCHANGED <<scenario, packs, index, snaps, markers, reaped, ws, todo, work>>,
         \A q \in Procs \ {b} : view'[q] = view[q] /\ listed'[q] = listed[q],
         LockStep(b), Own(b)'
  PROVE  PacksInv'
<1>0. /\ TypeOK /\ BlobsInv /\ b \in Procs /\ b \notin Compacts /\ DOMAIN pc = Procs
  BY Zenon, BackupFacts DEF PacksInv
<1>1. OthersSame(b) /\ MarkerStep(b)
  BY Zenon, <1>0 DEF OthersSame, MarkerStep
<1>2. BlobsInv'
  <2>1. AllPacks' \subseteq AllPacks
    BY Zenon DEF AllPacks
  <2> QED BY Zenon, <1>0, <2>1, BlobsKept
<1> QED BY Zenon, <1>0, <1>1, <1>2, GrowStep

LEMMA LeavingStep ==
  ASSUME PacksInv, CountsInv', NEW b \in Backups, NEW l \in Loose,
         pc[b] \notin {"dereg", "done", "crashed"}, pc' = [pc EXCEPT ![b] = l],
         UNCHANGED <<scenario, packs, index, snaps, markers, reaped, ws, todo, work>>,
         \A q \in Procs \ {b} : view'[q] = view[q] /\ listed'[q] = listed[q],
         LockStep(b)
  PROVE  PacksInv'
<1>0. /\ b \in Procs /\ pc'[b] = l /\ PackLocal(b)
  BY Zenon, BackupFacts
<1>1. \A c \in Chunks : ws'[b].writer[c] > 0 => ws'[b].new[c].refs = 0 /\ ws'[b].recovered[c] = {}
  BY Zenon, <1>0 DEF PackLocal
<1>2. Own(b)'
  BY Zenon, <1>0, <1>1, LooseOwn
<1> QED BY Zenon, <1>2, PlainStep

LEMMA WaitPacks ==
  ASSUME PacksInv, CountsInv', NEW b \in Backups,
         EndUpload(b) \/ CommitLock(b) \/ FlushPacks(b) \/ RefreshNames(b) \/ ClearJournal(b)
  PROVE  PacksInv'
<1> USE DEF Goto, Fail, packVars, indexVars, lockVars, viewVars, maintVars, auxVars
<1>0. /\ b \in Procs /\ b \notin Maints /\ DOMAIN pc = Procs /\ DOMAIN listed = Procs
  BY Zenon, BackupFacts
<1>1. CASE EndUpload(b)
  <2>1. PICK l \in {"lock", "abort"} : pc' = [pc EXCEPT ![b] = l]
    BY Zenon, <1>1 DEF EndUpload
  <2>2. /\ pc[b] = "upload"
        /\ UNCHANGED <<scenario, packs, index, snaps, lock, markers, reaped, listed, view, ws, todo,
                       work>>
    BY <1>1, Zenon DEF EndUpload
  <2>3. LockStep(b)
    BY Zenon, <2>2 DEF LockStep
  <2>4. l = "lock" => Own(b)'
    BY Zenon, <1>0, <2>1, <2>2, CarriedOwn DEF Uploading
  <2>5. CASE l = "lock"
    BY ZenonT(30), <2>1, <2>2, <2>3, <2>4, <2>5, PlainStep
  <2>6. CASE l = "abort"
    BY Zenon, <2>1, <2>2, <2>3, <2>6, LeavingStep DEF Loose
  <2> QED BY Zenon, <2>5, <2>6
<1>2. CASE CommitLock(b)
  <2>1. /\ pc[b] = "lock"
        /\ UNCHANGED <<scenario, packs, index, snaps, markers, reaped, listed, view, ws, todo, work>>
    BY <1>2, Zenon DEF CommitLock
  <2>2. CASE lock = None /\ lock' = b /\ pc' = [pc EXCEPT ![b] = "flush"]
    <3>1. LockStep(b)
      BY Zenon, <1>0, <2>2 DEF LockStep
    <3>2. Own(b)'
      BY Zenon, <1>0, <2>1, <2>2, CarriedOwn DEF Uploading
    <3> QED BY ZenonT(30), <2>1, <2>2, <3>1, <3>2, PlainStep
  <2>3. CASE lock' = lock /\ pc' = [pc EXCEPT ![b] = "abort"]
    <3>1. LockStep(b)
      BY Zenon, <2>3 DEF LockStep
    <3> QED BY Zenon, <2>1, <2>3, <3>1, LeavingStep DEF Loose
  <2> QED BY <1>2, <2>2, <2>3, Zenon DEF CommitLock
<1>3. CASE FlushPacks(b)
  <2>1. PICK l \in {"names", "deregHeld"} : pc' = [pc EXCEPT ![b] = l]
    BY Zenon, <1>3 DEF FlushPacks
  <2>2. /\ pc[b] = "flush"
        /\ UNCHANGED <<scenario, packs, index, snaps, lock, markers, reaped, listed, view, ws, todo,
                       work>>
    BY <1>3, Zenon DEF FlushPacks
  <2>3. LockStep(b)
    BY Zenon, <2>2 DEF LockStep
  <2>4. l = "names" => Own(b)'
    BY Zenon, <1>0, <2>1, <2>2, CarriedOwn DEF Uploading
  <2>5. CASE l = "names"
    BY Zenon, <2>1, <2>2, <2>3, <2>4, <2>5, PlainStep
  <2>6. CASE l = "deregHeld"
    BY Zenon, <2>1, <2>2, <2>3, <2>6, LeavingStep DEF Loose
  <2> QED BY Zenon, <2>5, <2>6
<1>4. CASE RefreshNames(b)
  <2>1. PICK l \in {"fetch", "putSnapshot", "deregHeld"} : pc' = [pc EXCEPT ![b] = l]
    BY Zenon, <1>4 DEF RefreshNames
  <2>2. /\ pc[b] = "names" /\ listed' = [listed EXCEPT ![b] = snaps]
        /\ UNCHANGED <<scenario, packs, index, snaps, lock, markers, reaped, view, ws, todo, work>>
    BY <1>4, Zenon DEF RefreshNames
  <2>3. LockStep(b) /\ \A q \in Procs \ {b} : view'[q] = view[q] /\ listed'[q] = listed[q]
    BY Zenon, <1>0, <2>2 DEF LockStep
  <2>4. l = "fetch" => Own(b)'
    BY Zenon, <1>0, <2>1, <2>2, CarriedOwn DEF Uploading
  <2>5. CASE l = "fetch"
    BY ZenonT(30), <2>1, <2>2, <2>3, <2>4, <2>5, PlainStep
  <2>6. CASE l \in {"putSnapshot", "deregHeld"}
    BY Zenon, <2>1, <2>2, <2>3, <2>6, LeavingStep DEF Loose
  <2> QED BY Zenon, <2>5, <2>6
<1>5. CASE ClearJournal(b)
  <2>1. /\ pc[b] = "clear" /\ pc' = [pc EXCEPT ![b] = "done"]
        /\ UNCHANGED <<scenario, packs, index, snaps, lock, markers, reaped, listed, view, ws, todo,
                       work>>
    BY <1>5, Zenon DEF ClearJournal
  <2>2. LockStep(b)
    BY Zenon, <2>1 DEF LockStep
  <2> QED BY Zenon, <2>1, <2>2, LeavingStep DEF Loose
<1> QED BY Zenon, <1>1, <1>2, <1>3, <1>4, <1>5

LEMMA ReconciledResolves ==
  ASSUME PacksInv, NEW b \in Backups, pc[b] = "fetch",
         StaleChunks(ws[b].new, ws[b].bumps, index) = {},
         \A c \in Indexed(ws[b].new) \ Indexed(index) : ws[b].new[c].pack \in packs
  PROVE  AllResolve(Reconciled(ws[b].new, ws[b].bumps, index))
<1> DEFINE ix == Reconciled(ws[b].new, ws[b].bumps, index)
<1>1. /\ IsIndex(ws[b].new) /\ ws[b].bumps \in Counts /\ PackLocal(b) /\ IndexResolves
  BY Zenon, BackupFacts DEF PacksInv, WriteSessions
<1>2. IsIndex(index)
  BY Zenon, IndexEntries DEF PacksInv, CountsInv, TypeOK
<1> SUFFICES ASSUME NEW c \in Indexed(ix) PROVE Resolves(ix, c)
  BY Zenon DEF AllResolve
<1>3. c \in Chunks /\ ix[c].refs > 0
  BY Zenon DEF Indexed
<1>4. /\ ix[c].pack = IF c \in Indexed(index) THEN index[c].pack ELSE ws[b].new[c].pack
      /\ ix[c].refs = index[c].refs + ws[b].new[c].refs + ws[b].bumps[c]
  BY <1>1, <1>2, <1>3, ReconcileKeepsPlaces, ReconcileCountsAll
<1> HIDE DEF ix
<1>5. CASE c \in Indexed(index)
  BY Zenon, <1>1, <1>4, <1>5 DEF IndexResolves, Resolves
<1>6. CASE c \notin Indexed(index)
  <2>1. ws[b].bumps[c] > 0 => c \in Indexed(ws[b].new)
    BY Zenon, <1>3, <1>6 DEF StaleChunks, Counted
  <2>2. /\ index[c].refs \in Nat /\ ws[b].new[c].refs \in Nat /\ ws[b].bumps[c] \in Nat
        /\ index[c].refs = 0
    <3>1. index[c].refs \in Nat /\ ws[b].new[c].refs \in Nat
      BY Zenon, <1>1, <1>2, <1>3 DEF IsIndex
    <3>2. ws[b].bumps[c] \in Nat
      BY Zenon, <1>1, <1>3 DEF Counts
    <3>3. ~(index[c].refs > 0)
      BY Zenon, <1>3, <1>6 DEF Indexed
    <3> QED BY <3>1, <3>2, <3>3
  <2>3. c \in Indexed(ws[b].new)
    BY <1>3, <1>4, <2>1, <2>2 DEF Indexed
  <2>4. c \in ChunksOf(ws[b].new[c].pack)
    BY Zenon, <1>1, <1>3, <2>3 DEF PackLocal, Uploading
  <2> QED BY Zenon, <1>4, <1>6, <2>3, <2>4 DEF Resolves
<1> QED BY Zenon, <1>5, <1>6

LEMMA FetchPacks ==
  ASSUME PacksInv, CountsInv', NEW b \in Backups, FetchIndex(b)
  PROVE  PacksInv'
<1> USE DEF Goto, Fail, packVars, indexVars, lockVars, viewVars, maintVars, auxVars
<1> DEFINE w == ws[b]
<1>0. /\ b \in Procs /\ b \notin Maints /\ b \in Sessions /\ b \notin Compacts /\ b \notin Readers
      /\ DOMAIN pc = Procs /\ DOMAIN view = Procs /\ PackLocal(b) /\ MarkerLocal(b) /\ CountsInv
  BY Zenon, BackupFacts DEF PacksInv
<1>1. /\ pc[b] = "fetch"
      /\ UNCHANGED <<scenario, packs, index, snaps, lock, markers, reaped, listed, ws, todo, work>>
  BY Zenon DEF FetchIndex
<1>2. \/ pc' = [pc EXCEPT ![b] = "deregHeld"] /\ UNCHANGED view
      \/ /\ gen = viewGen[b] /\ PacksPresent(w.new)
         /\ view' = [view EXCEPT ![b] = MergedCache(w.new, w.bumps, view[b])]
         /\ pc' = [pc EXCEPT ![b] = "putIndex"]
      \/ /\ StaleChunks(w.new, w.bumps, index) = {} /\ PacksPresent(StillNew(w.new, index))
         /\ view' = [view EXCEPT ![b] = Reconciled(w.new, w.bumps, index)]
         /\ pc' = [pc EXCEPT ![b] = "putIndex"]
  BY Zenon DEF FetchIndex
<1>3. LockStep(b)
  BY Zenon, <1>1 DEF LockStep
<1>4. CASE pc' = [pc EXCEPT ![b] = "deregHeld"] /\ UNCHANGED view
  BY Zenon, <1>1, <1>3, <1>4, LeavingStep DEF Loose
<1>5. CASE ~(pc' = [pc EXCEPT ![b] = "deregHeld"] /\ UNCHANGED view)
  <2>1. /\ StaleChunks(w.new, w.bumps, index) = {}
        /\ view' = [view EXCEPT ![b] = Reconciled(w.new, w.bumps, index)]
        /\ pc' = [pc EXCEPT ![b] = "putIndex"]
    BY Zenon, <1>0, <1>1, <1>2, <1>5, FastPathSafe
  <2>2. PacksPresent(w.new) \/ PacksPresent(StillNew(w.new, index))
    BY Zenon, <1>2, <1>5
  <2>3. \A c \in Indexed(w.new) \ Indexed(index) : w.new[c].pack \in packs
    <3> TAKE c \in Indexed(w.new) \ Indexed(index)
    <3>1. c \in Chunks /\ StillNew(w.new, index)[c] = w.new[c]
      BY Zenon DEF StillNew, Indexed
    <3>2. c \in Indexed(StillNew(w.new, index))
      BY Zenon, <3>1 DEF Indexed
    <3> QED BY Zenon, <2>2, <3>1, <3>2 DEF PacksPresent
  <2>4. AllResolve(Reconciled(w.new, w.bumps, index))
    BY Zenon, <1>1, <2>1, <2>3, ReconciledResolves
  <2>5. /\ pc'[b] = "putIndex" /\ view'[b] = Reconciled(w.new, w.bumps, index)
        /\ \A q \in Procs \ {b} : view'[q] = view[q] /\ listed'[q] = listed[q]
    BY Zenon, <1>0, <1>1, <2>1
  <2>6. AllResolve(view[b])'
    BY Zenon, <1>1, <2>4, <2>5 DEF AllResolve, Resolves
  <2>7. PackLocal(b)'
    BY Zenon, <1>0, <1>1, <2>5, <2>6 DEF PackLocal, Uploading
  <2>8. MarkerLocal(b)' /\ BackupLocal(b)'
    BY Zenon, <2>5 DEF MarkerLocal, BackupLocal, Registered, Uploading
  <2>9. Own(b)'
    BY Zenon, <1>0, <2>7, <2>8 DEF Own
  <2> QED BY Zenon, <1>1, <1>3, <2>1, <2>5, <2>9, PlainStep
<1> QED BY Zenon, <1>4, <1>5

LEMMA PutIndexPacks ==
  ASSUME CountingLaws, PacksInv, CountsInv', NEW b \in Backups, PutIndex(b)
  PROVE  PacksInv'
<1> USE DEF Goto, Fail, packVars, indexVars, lockVars, viewVars, maintVars, auxVars
<1>0. /\ TypeOK /\ PartInv /\ BlobsInv /\ b \in Procs /\ b \notin Compacts /\ DOMAIN pc = Procs
      /\ PackLocal(b) /\ CommitLocal(b) /\ ws[b] \in WriteSessions
  BY Zenon, BackupFacts DEF PacksInv
<1>1. /\ pc[b] = "putIndex"
      /\ UNCHANGED <<scenario, packs, snaps, lock, markers, reaped, listed, view, ws, todo, work>>
  BY Zenon DEF PutIndex
<1>2. LockStep(b)
  BY Zenon, <1>1 DEF LockStep
<1>3. CASE lock = b /\ index' = view[b]
  <2>1. PICK l \in {"putSnapshot", "deregHeld"} : pc' = [pc EXCEPT ![b] = l]
    BY <1>1, Zenon DEF PutIndex
  <2>2. IndexResolves'
    BY Zenon, <1>0, <1>1, <1>3 DEF PackLocal, AllResolve, IndexResolves, Resolves
  <2>3. Indexed(index) \subseteq Indexed(index')
    <3> SUFFICES ASSUME NEW c \in Indexed(index) PROVE c \in Indexed(index')
      BY Zenon
    <3>1. c \in Chunks /\ index[c].refs > 0 /\ index[c].refs \in Nat
      BY Zenon, SnapsCount DEF Indexed, PacksInv
    <3>2. index'[c].refs = index[c].refs + ws[b].refs[c]
      BY Zenon, <1>0, <1>1, <1>3, <3>1 DEF CommitLocal
    <3>3. ws[b].refs[c] \in Nat
      BY Zenon, <1>0, <3>1, SessionCounts
    <3> QED BY <3>1, <3>2, <3>3 DEF Indexed
  <2>4. OthersSame(b) /\ MarkerStep(b)
    BY Zenon, <1>0, <1>1, <2>1 DEF OthersSame, MarkerStep
  <2>5. \A q \in Procs \ {b} : Own(q)'
    <3>1. packs \subseteq packs' /\ snaps \subseteq snaps' /\ lock = b /\ b \in Procs
      BY Zenon, <1>0, <1>1, <1>3
    <3> QED BY Zenon, <1>2, <2>3, <2>4, <3>1, OthersGrow
  <2>6. \A c \in Chunks : ws'[b].writer[c] > 0 => ws'[b].new[c].refs = 0 /\ ws'[b].recovered[c] = {}
    BY Zenon, <1>0, <1>1 DEF PackLocal
  <2>7. pc'[b] \in Loose
    BY Zenon, <1>0, <2>1 DEF Loose
  <2>8. Own(b)'
    BY Zenon, <1>0, <2>6, <2>7, LooseOwn
  <2>9. PartInv'
    BY Zenon, <1>0, <1>1, <2>1, PartKept
  <2>10. BlobsInv'
    <3>1. AllPacks' \subseteq AllPacks
      BY Zenon, <1>1 DEF AllPacks
    <3> QED BY Zenon, <1>0, <1>1, <2>1, <3>1, BlobsKept
  <2> QED BY ZenonT(30), <2>2, <2>5, <2>8, <2>9, <2>10, KindOf DEF PacksInv, Own, Procs, Sessions, Maints
<1>4. CASE pc' = [pc EXCEPT ![b] = "deregHeld"] /\ index' = index
  BY Zenon, <1>1, <1>2, <1>4, LeavingStep DEF Loose
<1> QED BY <1>3, <1>4, Zenon DEF PutIndex

LEMMA PutSnapshotPacks ==
  ASSUME PacksInv, CountsInv', NEW b \in Backups, PutSnapshot(b)
  PROVE  PacksInv'
<1> USE DEF Goto, Fail, packVars, indexVars, lockVars, viewVars, maintVars, auxVars
<1>1. PICK l \in {"cleanup", "deregHeld"} : pc' = [pc EXCEPT ![b] = l]
  BY Zenon DEF PutSnapshot
<1>2. /\ pc[b] = "putSnapshot"
      /\ UNCHANGED <<scenario, packs, index, lock, markers, reaped, listed, view, ws, todo, work>>
  BY Zenon DEF PutSnapshot
<1>3. snaps \subseteq snaps'
  BY Zenon DEF PutSnapshot
<1>4. b \in Procs /\ OthersSame(b) /\ LockStep(b) /\ MarkerStep(b)
  BY Zenon, <1>1, <1>2, BackupFacts DEF OthersSame, LockStep, MarkerStep
<1>5. l \in Loose /\ pc[b] \notin {"done", "dereg", "crashed"}
  BY Zenon, <1>2 DEF Loose
<1> QED BY Zenon, <1>1, <1>2, <1>3, <1>4, <1>5, LooseStep

LEMMA EndPacks ==
  ASSUME PacksInv, CountsInv', NEW b \in Backups, CleanupRecovered(b) \/ FlushOnAbort(b)
  PROVE  PacksInv'
<1> USE DEF Goto, Fail, packVars, indexVars, lockVars, viewVars, maintVars, auxVars
<1>0. /\ TypeOK /\ BlobsInv /\ b \in Procs /\ b \notin Compacts /\ DOMAIN pc = Procs
      /\ DOMAIN ws = Backups /\ PackLocal(b)
  BY Zenon, BackupFacts DEF PacksInv
<1>1. CASE CleanupRecovered(b)
  <2>1. /\ pc[b] = "cleanup" /\ pc' = [pc EXCEPT ![b] = "deregHeld"]
        /\ UNCHANGED <<scenario, packs, index, snaps, lock, markers, reaped, listed, view, todo,
                       work>>
    BY <1>1, Zenon DEF CleanupRecovered
  <2>2. PICK x : /\ SessionBecomes(b, x) /\ SameDelta(x, ws[b])
                 /\ x.inflight = ws[b].inflight /\ x.recovered = ws[b].recovered
    BY <1>0, <1>1, CleanupEffect, Zenon
  <2>3. ws' = [ws EXCEPT ![b] = x] /\ ws'[b] = x /\ pc'[b] = "deregHeld"
    BY Zenon, <1>0, <2>1, <2>2 DEF SessionBecomes
  <2>4. OthersSame(b) /\ LockStep(b) /\ MarkerStep(b)
    BY Zenon, <1>0, <2>1, <2>3 DEF OthersSame, LockStep, MarkerStep
  <2>5. \A c \in Chunks : ws'[b].writer[c] > 0 => ws'[b].new[c].refs = 0 /\ ws'[b].recovered[c] = {}
    BY Zenon, <1>0, <2>2, <2>3 DEF PackLocal, SameDelta
  <2>6. Own(b)'
    BY Zenon, <1>0, <2>3, <2>5, LooseOwn DEF Loose
  <2>7. BlobsInv'
    <3>1. packs' \cup x.inflight \subseteq packs \cup ws[b].inflight
      BY Zenon, <2>1, <2>2
    <3>2. scenario' = scenario /\ pc[b] \notin {"dereg", "done", "crashed"}
      BY Zenon, <2>1
    <3>3. Indexed(ws[b].new) \subseteq Indexed(x.new)
      BY Zenon, <2>2 DEF SameDelta
    <3> QED BY Zenon, <2>1, <2>3, <3>1, <3>2, <3>3, SessionBlobs
  <2> QED BY Zenon, <1>0, <2>1, <2>4, <2>6, <2>7, GrowStep
<1>2. CASE FlushOnAbort(b)
  <2> DEFINE pack == PackOf(Counted(ws[b].writer), b)
             sealed == {pack} \ {{}}
  <2>1. /\ pc[b] = "abort" /\ pc' = [pc EXCEPT ![b] = "dereg"]
        /\ UNCHANGED <<scenario, index, snaps, lock, reaped, listed, view, todo, work>>
    BY <1>2, Zenon DEF FlushOnAbort
  <2>2. markers \subseteq markers'
    BY Zenon, <1>2 DEF FlushOnAbort
  <2>3. /\ \E x : SessionBecomes(b, x) /\ x.inflight = {} /\ x.writer = NoCounts
        /\ \E P \in SUBSET (ws[b].inflight \cup sealed) : packs' = packs \cup P
    BY <1>0, <1>2, AbortEffect, Zenon
  <2>4. \A blob \in pack : \E c \in Chunks : blob = <<c, b>> /\ ws[b].writer[c] > 0
    BY Zenon DEF PackOf, Counted
  <2>5. sealed \subseteq {pack}
    BY Zenon
  <2> HIDE DEF pack, sealed
  <2>6. PICK x : SessionBecomes(b, x) /\ x.inflight = {} /\ x.writer = NoCounts
    BY Zenon, <2>3
  <2>7. PICK P \in SUBSET (ws[b].inflight \cup {pack}) : packs' = packs \cup P
    BY Zenon, <2>3, <2>5
  <2>8. /\ ws'[b] = x /\ pc'[b] = "dereg"
        /\ \A d \in Backups : ws'[d] = IF d = b THEN x ELSE ws[d]
        /\ \A q \in Procs : pc'[q] = IF q = b THEN "dereg" ELSE pc[q]
    BY Zenon, <1>0, <2>1, <2>6 DEF SessionBecomes
  <2>9. OthersSame(b) /\ LockStep(b) /\ MarkerStep(b)
    BY Zenon, <1>0, <2>1, <2>2, <2>8 DEF OthersSame, LockStep, MarkerStep
  <2>10. Own(b)'
    <3>1. \A c \in Chunks : ~(ws'[b].writer[c] > 0)
      BY <2>6, <2>8 DEF NoCounts
    <3> QED BY Zenon, <1>0, <2>8, <3>1, LooseOwn DEF Loose
  <2>11. AllPacks' \subseteq AllPacks \cup {pack}
    BY <2>6, <2>7, <2>8 DEF AllPacks
  <2>12. BlobsInv'
    <3>1. Compacted => Compacted'
      BY Zenon, <1>0, <2>1, <2>8, KindOf DEF Compacted
    <3>2. ASSUME ~Compacted, NEW q \in AllPacks PROVE q \cap pack = {}
      <4> SUFFICES ASSUME NEW blob \in q, blob \in pack PROVE FALSE
        BY Zenon
      <4>1. PICK c \in Chunks : blob = <<c, b>> /\ ws[b].writer[c] > 0
        BY Zenon, <2>4
      <4>2. c \in Indexed(ws[b].new)
        BY Zenon, <1>0, <2>1, <3>2, <4>1 DEF BlobsInv
      <4>3. ws[b].new[c].refs = 0
        BY Zenon, <1>0, <4>1 DEF PackLocal
      <4> QED BY <4>2, <4>3 DEF Indexed
    <3>3. ASSUME ~Compacted PROVE Disjoint(AllPacks)'
      <4>1. Disjoint(AllPacks)
        BY Zenon, <1>0, <3>3 DEF BlobsInv
      <4> QED BY <2>11, <3>2, <3>3, <4>1 DEF Disjoint
    <3>4. ASSUME ~Compacted, NEW d \in Backups, pc'[d] \notin {"dereg", "done", "crashed"},
                 NEW q \in AllPacks', NEW c \in Chunks, <<c, d>> \in q
          PROVE  c \in Indexed(ws'[d].new)
      <4>1. d # b /\ pc[d] \notin {"dereg", "done", "crashed"} /\ ws'[d] = ws[d]
        BY Zenon, <2>8, <3>4, KindOf
      <4>2. q # pack
        BY <2>4, <3>4, <4>1
      <4>3. q \in AllPacks
        BY Zenon, <2>11, <4>2
      <4> QED BY Zenon, <1>0, <3>4, <4>1, <4>3 DEF BlobsInv
    <3> QED BY Zenon, <3>1, <3>3, <3>4 DEF BlobsInv
  <2>13. packs \subseteq packs'
    BY Zenon, <2>7
  <2> QED BY ZenonT(30), <1>0, <2>1, <2>9, <2>10, <2>12, <2>13, GrowStep
<1> QED BY Zenon, <1>1, <1>2

LEMMA RefreshPacks ==
  ASSUME PacksInv, CountsInv', NEW r \in Readers, RefreshMarker(r)
  PROVE  PacksInv'
<1> USE DEF packVars, indexVars, lockVars, viewVars, maintVars, auxVars
<1>0. TypeOK /\ BlobsInv /\ r \in Procs /\ r \in Sessions /\ r \notin Compacts /\ r \notin Backups
      /\ MarkerLocal(r) /\ ReaderLocal(r)
  BY Zenon, KindOf DEF PacksInv, CountsInv
<1>1. /\ pc[r] = "read" /\ pc' = pc /\ markers' = markers \cup {r}
      /\ UNCHANGED <<scenario, packs, index, snaps, lock, reaped, listed, view, ws, todo, work>>
  BY Zenon DEF RefreshMarker
<1>2. pc' = [pc EXCEPT ![r] = "read"]
  BY Zenon, <1>0, <1>1 DEF TypeOK
<1>3. OthersSame(r) /\ LockStep(r) /\ MarkerStep(r)
  BY Zenon, <1>1 DEF OthersSame, LockStep, MarkerStep
<1>4. Own(r)'
  <2>1. MarkerLocal(r)'
    BY Zenon, <1>0, <1>1 DEF MarkerLocal
  <2>2. ReaderLocal(r)'
    BY Zenon, <1>0, <1>1 DEF ReaderLocal, Readable, Resolves
  <2> QED BY Zenon, <1>0, <2>1, <2>2 DEF Own
<1>5. BlobsInv'
  BY ZenonT(30), <1>0, <1>1 DEF BlobsInv, Compacted, AllPacks
<1> QED BY Zenon, <1>0, <1>1, <1>2, <1>3, <1>4, <1>5, GrowStep

LEMMA LosePacks ==
  ASSUME PacksInv, CountsInv', OneCompact, LoseLock
  PROVE  PacksInv'
<1> USE DEF packVars, indexVars, lockVars, viewVars, maintVars, auxVars
<1>1. /\ lock # None /\ lock' = None /\ pc' = pc
      /\ pc[lock] = "crashed" \/ lock \in scenario.suspendable
      /\ UNCHANGED <<scenario, packs, index, snaps, markers, reaped, listed, view, ws, todo, work>>
  BY Zenon DEF LoseLock, Suspendable
<1>2. TypeOK /\ BlobsInv /\ lock \in Procs /\ scenario \in Scenarios
  BY Zenon, <1>1 DEF PacksInv, CountsInv, TypeOK
<1>3. PICK p \in Procs : p = lock
  BY Zenon, <1>2
<1>4. pc' = [pc EXCEPT ![p] = pc[p]]
  BY Zenon, <1>1, <1>2 DEF TypeOK
<1>5. OthersSame(p) /\ LockStep(p) /\ MarkerStep(p)
  BY Zenon, <1>1, <1>3, KindOf DEF OthersSame, LockStep, MarkerStep
<1>6. p \in Compacts => pc[p] = "crashed"
  BY Zenon, <1>1, <1>2, <1>3 DEF OneCompact
<1>7. Own(p)'
  <2>1. p \in Compacts => CompactHolds(p)' /\ CompactLocal(p)'
    BY Zenon, <1>1, <1>6 DEF CompactHolds, CompactLocal
  <2>2. p \in Sessions => MarkerLocal(p)'
    BY Zenon, <1>1, KindOf DEF PacksInv, MarkerLocal
  <2>3. p \in Backups => PackLocal(p)' /\ BackupLocal(p)'
    <3> SUFFICES ASSUME p \in Backups PROVE PackLocal(p)' /\ BackupLocal(p)'
      BY Zenon
    <3>1. PackLocal(p) /\ BackupLocal(p)
      BY Zenon DEF PacksInv
    <3>2. lock' # p
      BY Zenon, <1>1, KindOf
    <3> QED BY Zenon, <1>1, <3>1, <3>2 DEF PackLocal, BackupLocal
  <2>4. p \in Readers => ReaderLocal(p)'
    BY Zenon, <1>1 DEF PacksInv, ReaderLocal, Readable, Resolves
  <2> QED BY Zenon, <2>1, <2>2, <2>3, <2>4 DEF Own
<1>8. BlobsInv'
  BY Zenon, <1>1, <1>2 DEF BlobsInv, Compacted, AllPacks
<1>9. pc[p] # "done" \/ pc[p] = "done"
  BY Zenon
<1> QED BY Zenon, <1>1, <1>4, <1>5, <1>7, <1>8, <1>9, GrowStep

--------------------------------------------------------------------------------
\* Maintenance

LEMMA MaintFacts ==
  ASSUME PacksInv, NEW m \in Maints
  PROVE  /\ TypeOK /\ PartInv /\ BlobsInv /\ IndexResolves
         /\ m \in Procs /\ m \notin Sessions /\ m \notin Backups /\ m \notin Readers
         /\ DOMAIN pc = Procs /\ DOMAIN view = Procs /\ DOMAIN todo = Maints /\ DOMAIN work = Maints
         /\ MaintLocal(m) /\ pc[m] \in PhasesOf(m)
         /\ m \in Compacts => CompactHolds(m) /\ CompactLocal(m)
BY Zenon, KindOf DEF PacksInv, CountsInv, PhaseInv, TypeOK

\* The blobs are where they were.
LEMMA MaintBlobs ==
  ASSUME PacksInv, NEW m \in Maints, NEW l, pc' = [pc EXCEPT ![m] = l], scenario' = scenario,
         packs' \subseteq packs, ws' = ws,
         m \in Compacts /\ pc[m] \notin {"list", "load", "lock", "work"}
           => l \notin {"list", "load", "lock", "work"}
  PROVE  BlobsInv'
<1>1. AllPacks' \subseteq AllPacks
  BY Zenon DEF AllPacks
<1> QED BY Zenon, <1>1, MaintFacts, BlobsKept

\* A step under the lock of maintenance.
LEMMA ShrinkStep ==
  ASSUME PacksInv, CountsInv', NEW m \in Maints, NEW l, pc[m] # "done",
         pc' = [pc EXCEPT ![m] = l], lock = m,
         UNCHANGED <<scenario, lock, reaped, listed, ws>>,
         \A q \in Procs \ {m} : view'[q] = view[q],
         \A q \in Maints \ {m} : todo'[q] = todo[q] /\ work'[q] = work[q],
         IndexResolves', BlobsInv', m \in Compacts => CompactHolds(m)' /\ CompactLocal(m)'
  PROVE  PacksInv'
<1>0. TypeOK /\ PartInv /\ m \in Procs /\ m \notin Sessions /\ m \notin Backups /\ m \notin Readers
      /\ DOMAIN pc = Procs
  BY Zenon, MaintFacts
<1>1. OthersSame(m)
  BY Zenon, <1>0 DEF OthersSame
<1>2. \A q \in Procs \ {m} : Own(q)'
  BY Zenon, <1>1, OthersShrink
<1>3. Own(m)'
  BY Zenon, <1>0 DEF Own
<1>4. PartInv'
  BY Zenon, <1>0, PartKept
<1> QED BY Zenon, <1>2, <1>3, <1>4, KindOf DEF PacksInv, Own, Procs, Sessions, Maints

\* A step of maintenance that only decides.
LEMMA MaintPlain ==
  ASSUME PacksInv, CountsInv', NEW m \in Maints, NEW l, pc[m] # "done",
         pc' = [pc EXCEPT ![m] = l], l \notin {"list", "load", "lock", "work"},
         UNCHANGED <<scenario, packs, index, snaps, lock, markers, reaped, listed, view, ws>>,
         \A q \in Maints \ {m} : todo'[q] = todo[q] /\ work'[q] = work[q],
         m \in Compacts => CompactHolds(m)' /\ CompactLocal(m)'
  PROVE  PacksInv'
<1>0. m \in Procs /\ m \notin Sessions /\ m \notin Backups /\ m \notin Readers
      /\ DOMAIN pc = Procs
  BY Zenon, MaintFacts
<1>1. OthersSame(m) /\ LockStep(m) /\ MarkerStep(m)
  BY Zenon, <1>0 DEF OthersSame, LockStep, MarkerStep
<1>2. Own(m)'
  BY Zenon, <1>0 DEF Own
<1>3. BlobsInv'
  BY Zenon, MaintBlobs
<1> QED BY Zenon, <1>0, <1>1, <1>2, <1>3, GrowStep

LEMMA LockPacks ==
  ASSUME PacksInv, CountsInv', NEW m \in Maints, MaintenanceLock(m) \/ MaintenanceRefused(m)
  PROVE  PacksInv'
<1> USE DEF Goto, packVars, indexVars, lockVars, viewVars, maintVars, auxVars
<1>0. TypeOK /\ PartInv /\ IndexResolves /\ m \in Procs /\ m \notin Sessions /\ m \notin Backups
      /\ m \notin Readers /\ DOMAIN pc = Procs
  BY Zenon, MaintFacts
<1>1. CASE MaintenanceRefused(m)
  <2>1. /\ pc[m] = "lock" /\ pc' = [pc EXCEPT ![m] = "done"]
        /\ UNCHANGED <<scenario, packs, index, snaps, lock, markers, reaped, listed, view, ws, todo,
                       work>>
    BY <1>1, Zenon DEF MaintenanceRefused
  <2>2. pc'[m] = "done"
    BY Zenon, <1>0, <2>1
  <2>3. CompactHolds(m)' /\ CompactLocal(m)'
    BY Zenon, <2>2 DEF CompactHolds, CompactLocal
  <2> QED BY Zenon, <2>1, <2>3, MaintPlain
<1>2. CASE MaintenanceLock(m)
  <2>1. /\ pc[m] = "lock" /\ lock = None
        /\ UNCHANGED <<scenario, packs, index, snaps, listed, view, ws, todo, work>>
    BY <1>2, Zenon DEF MaintenanceLock
  <2>2. PICK stale \in SUBSET markers :
          /\ markers' = markers \ stale /\ reaped' = reaped \cup stale
          /\ \/ markers \ stale = {} /\ lock' = m /\ pc' = [pc EXCEPT ![m] = "work"]
             \/ lock' = lock /\ pc' = [pc EXCEPT ![m] = "done"]
    BY Zenon, <1>2 DEF MaintenanceLock, MaySeemStale, NoMarkerLeft
  <2>3. PICK l \in {"work", "done"} : pc' = [pc EXCEPT ![m] = l]
    BY Zenon, <2>2
  <2>4. \A q \in Procs : pc'[q] = IF q = m THEN l ELSE pc[q]
    BY Zenon, <1>0, <2>3
  <2>5. ASSUME NEW s \in Sessions PROVE MarkerLocal(s)'
    <3>1. MarkerLocal(s) /\ pc'[s] = pc[s] /\ s \in Procs
      BY Zenon, <1>0, <2>4 DEF PacksInv, Procs
    <3>2. None \notin Maints
      BY Zenon, KindOf
    <3> QED BY Zenon, <2>1, <2>2, <3>1, <3>2 DEF MarkerLocal
  <2>6. ASSUME NEW b \in Backups PROVE PackLocal(b)' /\ BackupLocal(b)'
    <3>1. PackLocal(b) /\ BackupLocal(b) /\ pc'[b] = pc[b] /\ b # m
      BY Zenon, <1>0, <2>4, KindOf DEF PacksInv
    <3>2. lock' # b
      BY Zenon, <2>1, <2>2, <3>1, KindOf
    <3>3. PackLocal(b)'
      BY Zenon, <2>1, <3>1, <3>2 DEF PackLocal
    <3>4. BackupLocal(b)'
      BY Zenon, <2>1, <2>2, <3>1 DEF BackupLocal
    <3> QED BY Zenon, <3>3, <3>4
  <2>7. ASSUME NEW r \in Readers PROVE ReaderLocal(r)'
    <3>1. ReaderLocal(r) /\ pc'[r] = pc[r]
      BY Zenon, <1>0, <2>4, KindOf DEF PacksInv
    <3> QED BY Zenon, <2>1, <2>2, <3>1 DEF ReaderLocal, Readable, Resolves
  <2>8. ASSUME NEW n \in Compacts PROVE CompactHolds(n)' /\ CompactLocal(n)'
    <3>1. CASE n = m
      <4>1. (pc'[m] = "work" /\ lock' = m) \/ pc'[m] = "done"
        BY Zenon, <1>0, <2>2
      <4> QED BY Zenon, <3>1, <4>1 DEF CompactHolds, CompactLocal
    <3>2. CASE n # m
      <4>1. CompactHolds(n) /\ pc'[n] = pc[n] /\ lock # n
        BY ZenonT(30), <2>1, <2>4, <3>2, KindOf DEF PacksInv
      <4> QED BY Zenon, <4>1 DEF CompactHolds, CompactLocal
    <3> QED BY Zenon, <3>1, <3>2
  <2>9. PartInv'
    BY Zenon, <1>0, <2>1, <2>3, PartKept
  <2>10. IndexResolves'
    BY Zenon, <1>0, <2>1, IndexStillResolves
  <2>11. BlobsInv'
    BY Zenon, <2>1, <2>3, MaintBlobs
  <2> QED BY ZenonT(30), <2>5, <2>6, <2>7, <2>8, <2>9, <2>10, <2>11 DEF PacksInv
<1> QED BY Zenon, <1>1, <1>2

LEMMA RemovalPacks ==
  ASSUME CountingLaws, PacksInv, CountsInv', NEW m \in Maints,
         ChooseTargets(m) \/ DeleteSnapshot(m) \/ SaveDecremented(m)
  PROVE  PacksInv'
<1> USE DEF Goto, packVars, indexVars, lockVars, viewVars, maintVars, auxVars
<1>0. /\ TypeOK /\ IndexResolves /\ m \in Procs /\ DOMAIN pc = Procs /\ MaintLocal(m)
      /\ pc[m] \in PhasesOf(m)
  BY Zenon, MaintFacts
<1>1. CASE ChooseTargets(m)
  <2>1. PICK l \in {"delete", "release"} : pc' = [pc EXCEPT ![m] = l]
    BY <1>1, Zenon DEF ChooseTargets
  <2>2. /\ m \in Deletes \cup Prunes /\ pc[m] = "work"
        /\ UNCHANGED <<scenario, packs, index, snaps, lock, markers, reaped, listed, view, ws, todo,
                       work>>
    BY <1>1, Zenon DEF ChooseTargets
  <2>3. m \notin Compacts
    BY Zenon, <2>2, KindOf
  <2> QED BY Zenon, <2>1, <2>2, <2>3, MaintPlain
<1>2. CASE DeleteSnapshot(m)
  <2>1. PICK l \in {"delete", "save", "release"} : pc' = [pc EXCEPT ![m] = l]
    BY Zenon, <1>2 DEF DeleteSnapshot
  <2>2. /\ pc[m] = "delete"
        /\ UNCHANGED <<scenario, packs, index, lock, markers, reaped, listed, view, ws, todo, work>>
    BY <1>2, Zenon DEF DeleteSnapshot
  <2>3. m \notin Compacts
    BY Zenon, <1>0, <2>2, KindOf DEF CompactAt
  <2>4. lock = m \/ snaps' = snaps
    BY <1>2, Zenon DEF DeleteSnapshot
  <2>5. CASE lock = m
    <3>1. IndexResolves'
      BY Zenon, <1>0, <2>2, IndexStillResolves
    <3>2. BlobsInv'
      BY Zenon, <2>1, <2>2, <2>3, MaintBlobs
    <3> QED BY ZenonT(30), <2>1, <2>2, <2>3, <2>5, <3>1, <3>2, ShrinkStep
  <2>6. CASE snaps' = snaps
    BY Zenon, <2>1, <2>2, <2>3, <2>6, MaintPlain
  <2> QED BY Zenon, <2>4, <2>5, <2>6
<1>3. CASE SaveDecremented(m)
  <2>1. /\ pc[m] = "save" /\ pc' = [pc EXCEPT ![m] = "release"]
        /\ UNCHANGED <<scenario, packs, snaps, lock, markers, reaped, listed, view, ws, todo, work>>
    BY <1>3, Zenon DEF SaveDecremented
  <2>2. m \notin Compacts
    BY Zenon, <1>0, <2>1, KindOf DEF CompactAt
  <2>3. (lock = m /\ index' = DecrementTargets(m)) \/ index' = index
    BY <1>3, Zenon DEF SaveDecremented
  <2>4. CASE lock = m /\ index' = DecrementTargets(m)
    <3>1. view[m] = index
      BY Zenon, <1>0, <2>1, <2>4 DEF MaintLocal
    <3>2. \A c \in Chunks : index'[c] = Absent \/ (index'[c].pack = index[c].pack /\ index'[c].refs =
                              index[c].refs - RefsTo(targets[m], c)
                              /\ ~(index[c].refs <= RefsTo(targets[m], c)))
      BY <2>4, <3>1, IndexEntries DEF DecrementTargets, Decremented, TypeOK
    <3>3. IndexResolves'
      <4> SUFFICES ASSUME NEW c \in Indexed(index') PROVE Resolves(index, c)'
        BY Zenon DEF IndexResolves
      <4>1. c \in Chunks /\ index'[c].refs > 0
        BY Zenon DEF Indexed
      <4>2. index'[c] # Absent
        BY <4>1 DEF Absent
      <4>3. Counting(targets[m], c) /\ RefsTo(targets[m], c) \in Nat /\ index[c].refs \in Nat
        <5>1. IsFiniteSet(targets[m]) /\ targets[m] \subseteq Snapshots
          BY Zenon, <1>0, <2>1, <2>4 DEF MaintLocal, TypeOK
        <5>2. Counting(targets[m], c)
          BY Zenon, <4>1, <5>1 DEF Counting, Snapshots, Counts
        <5> QED BY Zenon, <4>1, <5>2, RefsToType, SnapsCount DEF PacksInv
      <4>4. index'[c].pack = index[c].pack /\ index[c].refs > 0
        BY <3>2, <4>1, <4>2, <4>3
      <4>5. Resolves(index, c)
        BY Zenon, <1>0, <4>1, <4>4 DEF IndexResolves, Indexed
      <4> QED BY Zenon, <2>1, <4>1, <4>4, <4>5 DEF Resolves, Indexed
    <3>4. BlobsInv'
      BY Zenon, <2>1, <2>2, MaintBlobs
    <3> QED BY Zenon, <2>1, <2>2, <2>4, <3>3, <3>4, ShrinkStep
  <2>5. CASE index' = index
    BY Zenon, <2>1, <2>2, <2>5, MaintPlain
  <2> QED BY Zenon, <2>3, <2>4, <2>5
<1> QED BY Zenon, <1>1, <1>2, <1>3


--------------------------------------------------------------------------------
\* Compact

LEMMA CompactFacts ==
  ASSUME PacksInv, NEW m \in Compacts, pc[m] \in {"work", "repack", "saveIndex", "deleteOld"}
  PROVE  /\ TypeOK /\ PartInv /\ BlobsInv /\ IndexResolves /\ m \in Maints /\ m \in Procs
         /\ DOMAIN pc = Procs /\ DOMAIN view = Procs /\ DOMAIN todo = Maints /\ DOMAIN work = Maints
         /\ CompactLocal(m) /\ lock = m /\ m \in scenario.procs
         /\ pc[m] \in {"work", "repack", "deleteOld"} => view[m] = index
<1>1. m \in Maints
  BY Zenon, KindOf
<1>2. /\ TypeOK /\ PartInv /\ BlobsInv /\ IndexResolves /\ m \in Procs
      /\ DOMAIN pc = Procs /\ DOMAIN view = Procs /\ DOMAIN todo = Maints /\ DOMAIN work = Maints
      /\ MaintLocal(m) /\ CompactHolds(m) /\ CompactLocal(m)
  BY Zenon, <1>1, MaintFacts
<1>3. lock = m
  BY Zenon, <1>2 DEF CompactHolds
<1>4. m \in scenario.procs
  BY Zenon, <1>2 DEF PartInv
<1>5. pc[m] \in {"work", "repack", "deleteOld"} => view[m] = index
  BY Zenon, <1>2, <1>3 DEF MaintLocal
<1> QED BY Zenon, <1>1, <1>2, <1>3, <1>4, <1>5

LEMMA CompactStep ==
  ASSUME PacksInv, CountsInv', NEW m \in Compacts, NEW l, pc[m] # "done",
         pc' = [pc EXCEPT ![m] = l], l \notin {"list", "load", "lock", "work"}, lock = m,
         UNCHANGED <<scenario, lock, reaped, listed, ws>>,
         \A q \in Procs \ {m} : view'[q] = view[q],
         \A q \in Maints \ {m} : todo'[q] = todo[q] /\ work'[q] = work[q],
         IndexResolves', CompactLocal(m)'
  PROVE  PacksInv'
<1>1. m \in Maints /\ m \in Procs /\ DOMAIN pc = Procs /\ m \in scenario.procs
  BY Zenon, KindOf, MaintFacts DEF PartInv
<1>2. pc'[m] = l /\ lock' = m /\ scenario' = scenario
  BY Zenon, <1>1
<1>3. Compacted'
  BY Zenon, <1>1, <1>2 DEF Compacted
<1>4. BlobsInv'
  BY <1>3, Zenon DEF BlobsInv
<1>5. CompactHolds(m)'
  BY Zenon, <1>2 DEF CompactHolds
<1> QED BY Zenon, <1>1, <1>4, <1>5, ShrinkStep

\* A pack that the index does not point to can be deleted.
LEMMA DeleteDead ==
  ASSUME IndexResolves, NEW p, packs' = packs \ {p}, index' = index, LiveIn(index, p) = {}
  PROVE  IndexResolves'
<1> SUFFICES ASSUME NEW c \in Indexed(index) PROVE Resolves(index, c)'
  BY Zenon DEF IndexResolves
<1>1. Resolves(index, c)
  BY Zenon DEF IndexResolves
<1>2. index[c].pack # p
  BY Zenon DEF LiveIn
<1> QED BY Zenon, <1>1, <1>2 DEF Resolves

LEMMA AnalysePacks ==
  ASSUME PacksInv, CountsInv', OneCompact, NEW m \in Maints, Analyse(m) \/ EndCompact(m)
  PROVE  PacksInv'
<1> USE DEF Goto, packVars, indexVars, lockVars, viewVars, maintVars, auxVars
<1>0. m \in Compacts /\ pc[m] \in {"work", "repack"}
  BY Zenon DEF Analyse, EndCompact
<1>1. /\ TypeOK /\ BlobsInv /\ IndexResolves /\ m \in Maints /\ m \in Procs /\ DOMAIN pc = Procs
      /\ DOMAIN todo = Maints /\ lock = m /\ m \in scenario.procs
  BY Zenon, <1>0, CompactFacts
<1>2. CASE EndCompact(m)
  <2>1. /\ pc' = [pc EXCEPT ![m] = "release"]
        /\ UNCHANGED <<scenario, packs, index, snaps, lock, reaped, listed, view, ws, todo, work>>
    BY <1>2, Zenon DEF EndCompact
  <2>2. IndexResolves'
    BY Zenon, <1>1, <2>1, IndexStillResolves
  <2>3. CompactLocal(m)'
    BY Zenon, <1>1, <2>1 DEF CompactLocal
  <2> QED BY ZenonT(30), <1>0, <1>1, <2>1, <2>2, <2>3, CompactStep
<1>3. CASE Analyse(m)
  <2> DEFINE found == {[pack |-> p, live |-> LiveIn(view[m], p)] : p \in packs}
  <2>1. PICK Q \in SUBSET {a \in found : ChunksOf(a.pack) # a.live} :
          /\ todo' = [todo EXCEPT ![m] = Q]
          /\ pc' = [pc EXCEPT ![m] = IF Q # {} /\ lock = m THEN "repack" ELSE "release"]
    BY <1>3, Zenon DEF Analyse
  <2>2. /\ pc[m] = "work"
        /\ UNCHANGED <<scenario, packs, index, snaps, lock, reaped, listed, view, ws, work>>
    BY <1>3, Zenon DEF Analyse
  <2>3. PICK l \in {"repack", "release"} : pc' = [pc EXCEPT ![m] = l]
    BY Zenon, <2>1
  <2>4. pc'[m] \in {"repack", "release"} /\ todo'[m] = Q
    BY ZenonT(30), <1>1, <2>1, <2>3
  <2>5. \A a \in Q : /\ a.live = LiveIn(view[m], a.pack) /\ ChunksOf(a.pack) # a.live
                     /\ a.pack \in packs
    OBVIOUS
  <2>6. ~Compacted
    <3>1. scenario \in Scenarios
      BY Zenon, <1>1 DEF TypeOK
    <3>2. \A n \in Compacts \cap scenario.procs : n = m
      BY Zenon, <1>0, <1>1, <3>1 DEF OneCompact
    <3> QED BY Zenon, <2>2, <3>2 DEF Compacted
  <2>7. Disjoint(packs)
    BY Zenon, <1>1, <2>6 DEF BlobsInv, Disjoint, AllPacks
  <2>8. Disjoint({a.pack : a \in Q})
    BY <2>5, <2>7 DEF Disjoint
  <2>9. \A a \in Q : a.live = LiveIn(view[m], a.pack)'
    BY Zenon, <2>2, <2>5 DEF LiveIn, Indexed
  <2> HIDE DEF found
  <2>10. CompactLocal(m)'
    BY Zenon, <2>4, <2>5, <2>8, <2>9 DEF CompactLocal
  <2>11. IndexResolves'
    BY Zenon, <1>1, <2>2, IndexStillResolves
  <2>12. \A q \in Maints \ {m} : todo'[q] = todo[q] /\ work'[q] = work[q]
    BY Zenon, <1>1, <2>1, <2>2
  <2> QED BY ZenonT(30), <1>0, <1>1, <2>2, <2>3, <2>10, <2>11, <2>12, CompactStep
<1> QED BY Zenon, <1>2, <1>3

LEMMA DeletePacks ==
  ASSUME PacksInv, CountsInv', NEW m \in Maints, DeleteOrphan(m) \/ DeleteOld(m)
  PROVE  PacksInv'
<1> USE DEF Goto, packVars, indexVars, lockVars, viewVars, maintVars, auxVars
<1>0. m \in Compacts /\ pc[m] \in {"repack", "deleteOld"}
  BY Zenon DEF DeleteOrphan, DeleteOld
<1>1. /\ TypeOK /\ IndexResolves /\ m \in Maints /\ m \in Procs /\ DOMAIN pc = Procs
      /\ DOMAIN todo = Maints /\ DOMAIN work = Maints /\ lock = m /\ view[m] = index
      /\ CompactLocal(m)
  BY Zenon, <1>0, CompactFacts
<1>2. CASE DeleteOrphan(m)
  <2>1. PICK a \in todo[m] : /\ a.live = {} /\ packs' = packs \ {a.pack}
                             /\ todo' = [todo EXCEPT ![m] = @ \ {a}]
    BY <1>2, Zenon DEF DeleteOrphan
  <2>2. /\ pc[m] = "repack"
        /\ UNCHANGED <<scenario, index, snaps, lock, reaped, listed, view, ws, work, pc>>
    BY <1>2, Zenon DEF DeleteOrphan
  <2>3. pc' = [pc EXCEPT ![m] = "repack"]
    BY Zenon, <1>1, <2>2 DEF TypeOK
  <2>4. /\ \A x \in todo[m] : x.live = LiveIn(view[m], x.pack) /\ ChunksOf(x.pack) # x.live
        /\ Disjoint({x.pack : x \in todo[m]})
    BY Zenon, <1>1, <2>2 DEF CompactLocal
  <2>5. LiveIn(index, a.pack) = {}
    BY Zenon, <1>1, <2>1, <2>4
  <2>6. IndexResolves'
    BY ZenonT(30), <1>1, <2>1, <2>2, <2>5, DeleteDead
  <2>7. todo'[m] \subseteq todo[m] /\ pc'[m] = "repack"
    BY Zenon, <1>1, <2>1, <2>2
  <2>8. Disjoint({x.pack : x \in todo[m]})'
    BY <2>4, <2>7 DEF Disjoint
  <2>9. \A x \in todo'[m] : x.live = LiveIn(view[m], x.pack)' /\ ChunksOf(x.pack) # x.live
    BY <2>2, <2>4, <2>7 DEF LiveIn, Indexed
  <2>10. CompactLocal(m)'
    BY Zenon, <2>7, <2>8, <2>9 DEF CompactLocal
  <2>11. \A q \in Maints \ {m} : todo'[q] = todo[q] /\ work'[q] = work[q]
    BY Zenon, <1>1, <2>1, <2>2
  <2> QED BY ZenonT(30), <1>0, <1>1, <2>2, <2>3, <2>6, <2>10, <2>11, CompactStep
<1>3. CASE DeleteOld(m)
  <2>1. /\ pc[m] = "deleteOld" /\ work' = [work EXCEPT ![m] = {}]
        /\ UNCHANGED <<scenario, index, snaps, lock, reaped, listed, view, ws, todo>>
    BY <1>3, Zenon DEF DeleteOld
  <2>2. \/ packs' = packs \ {work[m]} /\ pc' = [pc EXCEPT ![m] = "repack"]
        \/ packs' = packs /\ pc' = [pc EXCEPT ![m] = "release"]
    BY <1>3, Zenon DEF DeleteOld
  <2>3. PICK l \in {"repack", "release"} : pc' = [pc EXCEPT ![m] = l]
    BY Zenon, <2>2
  <2>4. /\ \A x \in todo[m] : x.live = LiveIn(view[m], x.pack) /\ ChunksOf(x.pack) # x.live
        /\ Disjoint({x.pack : x \in todo[m]}) /\ LiveIn(index, work[m]) = {}
    BY Zenon, <1>1, <2>1 DEF CompactLocal
  <2>5. IndexResolves'
    BY Zenon, <1>1, <2>1, <2>2, <2>4, DeleteDead, IndexStillResolves
  <2>6. todo'[m] = todo[m] /\ view'[m] = view[m] /\ pc'[m] \in {"repack", "release"}
    BY Zenon, <1>1, <2>1, <2>3
  <2>7. CompactLocal(m)'
    <3>1. Disjoint({x.pack : x \in todo[m]})'
      BY ZenonT(30), <2>4, <2>6
    <3>2. \A x \in todo'[m] : x.live = LiveIn(view[m], x.pack)' /\ ChunksOf(x.pack) # x.live
      BY <2>4, <2>6 DEF LiveIn, Indexed
    <3> QED BY Zenon, <2>6, <3>1, <3>2 DEF CompactLocal
  <2>8. \A q \in Maints \ {m} : todo'[q] = todo[q] /\ work'[q] = work[q]
    BY Zenon, <1>1, <2>1
  <2>9. /\ UNCHANGED <<scenario, lock, reaped, listed, ws>>
        /\ \A q \in Procs \ {m} : view'[q] = view[q]
    BY Zenon, <2>1
  <2> QED BY ZenonT(30), <1>0, <1>1, <2>3, <2>5, <2>7, <2>8, <2>9, CompactStep
<1> QED BY Zenon, <1>2, <1>3
================================================================================
