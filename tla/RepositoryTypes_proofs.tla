------------------------ MODULE RepositoryTypes_proofs -------------------------
(***************************************************************************)
(* Theorems about Repository, first part: what the operators of IndexDelta *)
(* compute, the invariant of the reference counts and the laws of counting *)
(* that it needs, type correctness of every action, and the names of the   *)
(* snapshots.                                                              *)
(***************************************************************************)
EXTENDS Repository, IndexDelta, TLAPS

\* An index: an entry for every chunk, Absent where there are no references.
IsIndex(ix) ==
    /\ DOMAIN ix = Chunks
    /\ ix = [c \in Chunks |-> [pack |-> ix[c].pack, refs |-> ix[c].refs]]
    /\ \A c \in Chunks : ix[c].refs \in Nat /\ (ix[c].refs = 0 => ix[c].pack = {})

\* No reference is lost or counted twice: when reconcile accepts a delta, the
\* index that a commit writes counts, for every chunk, the references of the fresh
\* index, those of the new entry and the bumps (IndexDelta::reconcile, apply_to).
THEOREM ReconcileCountsAll ==
    ASSUME NEW new, IsIndex(new), NEW fresh, IsIndex(fresh),
           NEW bumps \in Counts, StaleChunks(new, bumps, fresh) = {},
           NEW c \in Chunks
    PROVE  Reconciled(new, bumps, fresh)[c].refs = fresh[c].refs + new[c].refs + bumps[c]
<1> DEFINE still == StillNew(new, fresh)
           all == AllBumps(new, bumps, fresh)
           added == AddEntries(fresh, still)
<1>1. /\ fresh[c].refs \in Nat /\ new[c].refs \in Nat /\ bumps[c] \in Nat
      /\ c \in Indexed(fresh) <=> fresh[c].refs > 0
      /\ c \in Indexed(new) <=> new[c].refs > 0
  BY Zenon DEF IsIndex, Counts, Indexed
<1>2. bumps[c] > 0 => c \in Indexed(fresh) \/ c \in Indexed(new)
  BY Zenon DEF StaleChunks, Counted
<1>3. /\ still[c].refs = IF c \in Indexed(fresh) THEN 0 ELSE new[c].refs
      /\ all[c] = bumps[c] + (IF c \in Indexed(fresh) THEN new[c].refs ELSE 0)
  BY Zenon DEF StillNew, AllBumps, Absent
<1>4. added[c].refs = fresh[c].refs + still[c].refs
  BY Zenon DEF AddEntries
<1>5. c \in Indexed(added) <=> added[c].refs > 0
  BY Zenon DEF Indexed
<1>6. added[c] = [pack |-> added[c].pack, refs |-> added[c].refs]
  BY Zenon DEF AddEntries
<1>7. Reconciled(new, bumps, fresh)[c].refs =
        IF c \in Indexed(added) THEN added[c].refs + all[c] ELSE added[c].refs
  <2>1. Reconciled(new, bumps, fresh) = BumpEntries(added, all)
    BY Zenon DEF Reconciled, Applied
  <2>2. BumpEntries(added, all)[c] =
          IF c \in Indexed(added) THEN [added[c] EXCEPT !.refs = @ + all[c]] ELSE added[c]
    BY Zenon DEF BumpEntries
  <2> HIDE DEF added, all
  <2> QED BY Zenon, <1>6, <2>1, <2>2
<1> HIDE DEF still, all, added
<1> QED BY <1>1, <1>2, <1>3, <1>4, <1>5, <1>7

\* A chunk stays where it is: reconciling never changes the pack of a chunk that the
\* fresh index has, and a chunk it does not have gets the pack of the new entry.
THEOREM ReconcileKeepsPlaces ==
    ASSUME NEW new, IsIndex(new), NEW fresh, IsIndex(fresh),
           NEW bumps \in Counts, NEW c \in Chunks
    PROVE  Reconciled(new, bumps, fresh)[c].pack =
             IF c \in Indexed(fresh) THEN fresh[c].pack ELSE new[c].pack
<1> DEFINE still == StillNew(new, fresh)
           all == AllBumps(new, bumps, fresh)
           added == AddEntries(fresh, still)
<1>1. added[c] = [pack |-> IF c \in Indexed(fresh) THEN fresh[c].pack ELSE new[c].pack,
                  refs |-> added[c].refs]
  BY Zenon DEF AddEntries, StillNew
<1>2. Reconciled(new, bumps, fresh)[c] =
        IF c \in Indexed(added) THEN [added[c] EXCEPT !.refs = @ + all[c]] ELSE added[c]
  BY Zenon DEF Reconciled, Applied, BumpEntries
<1> HIDE DEF still, all, added
<1> QED BY <1>1, <1>2

\* The fast path of a commit writes the index that the slow path would write, if no
\* new entry overlaps the cache and every bump has a target
\* (merge_full_index_cache against reconcile and apply_to).
THEOREM FastPathEqualsSlowPath ==
    ASSUME NEW new, IsIndex(new), NEW old, IsIndex(old), NEW bumps \in Counts,
           Indexed(new) \cap Indexed(old) = {}, StaleChunks(new, bumps, old) = {}
    PROVE  MergedCache(new, bumps, old) = Reconciled(new, bumps, old)
<1> DEFINE M(c) == MergedCache(new, bumps, old)[c]
           R(c) == Reconciled(new, bumps, old)[c]
<1>1. ASSUME NEW c \in Chunks PROVE M(c) = R(c)
  <2>1. /\ old[c].refs \in Nat /\ new[c].refs \in Nat /\ bumps[c] \in Nat
        /\ old[c].refs = 0 => old[c].pack = {}
        /\ new[c].refs = 0 => new[c].pack = {}
        /\ c \in Indexed(old) <=> old[c].refs > 0
        /\ c \in Indexed(new) <=> new[c].refs > 0
        /\ ~(c \in Indexed(new) /\ c \in Indexed(old))
        /\ bumps[c] > 0 => c \in Indexed(old) \/ c \in Indexed(new)
    BY Zenon DEF IsIndex, Counts, Indexed, StaleChunks, Counted
  <2>2. /\ old[c] = [pack |-> old[c].pack, refs |-> old[c].refs]
        /\ new[c] = [pack |-> new[c].pack, refs |-> new[c].refs]
    BY Zenon DEF IsIndex
  <2>3. /\ R(c).refs = old[c].refs + new[c].refs + bumps[c]
        /\ R(c).pack = IF c \in Indexed(old) THEN old[c].pack ELSE new[c].pack
    BY ReconcileCountsAll, ReconcileKeepsPlaces
  <2>4. R(c) = [pack |-> R(c).pack, refs |-> R(c).refs]
    <3> DEFINE still == StillNew(new, old)
               all == AllBumps(new, bumps, old)
               added == AddEntries(old, still)
    <3>1. added[c] = [pack |-> added[c].pack, refs |-> added[c].refs]
      BY Zenon DEF AddEntries
    <3>2. R(c) = IF c \in Indexed(added) THEN [added[c] EXCEPT !.refs = @ + all[c]]
                 ELSE added[c]
      BY Zenon DEF Reconciled, Applied, BumpEntries
    <3> HIDE DEF still, all, added, R
    <3> QED BY Zenon, <3>1, <3>2
  <2>5. M(c) = LET e == IF c \in Indexed(new) THEN new[c] ELSE old[c]
               IN  IF e.refs > 0 THEN [e EXCEPT !.refs = @ + bumps[c]] ELSE e
    BY Zenon DEF MergedCache
  <2>6. M(c) = [pack |-> IF c \in Indexed(new) THEN new[c].pack ELSE old[c].pack,
                refs |-> old[c].refs + new[c].refs + bumps[c]]
    <3> HIDE DEF M
    <3>1. CASE c \in Indexed(new)
      <4>1. M(c) = [new[c] EXCEPT !.refs = @ + bumps[c]]
        BY Zenon, <2>1, <2>5, <3>1
      <4>2. M(c) = [pack |-> new[c].pack, refs |-> new[c].refs + bumps[c]]
        BY Zenon, <2>2, <4>1
      <4> QED BY <2>1, <3>1, <4>2
    <3>2. CASE c \notin Indexed(new) /\ c \in Indexed(old)
      <4>1. M(c) = [old[c] EXCEPT !.refs = @ + bumps[c]]
        BY Zenon, <2>1, <2>5, <3>2
      <4>2. M(c) = [pack |-> old[c].pack, refs |-> old[c].refs + bumps[c]]
        BY Zenon, <2>2, <4>1
      <4> QED BY <2>1, <3>2, <4>2
    <3>3. CASE c \notin Indexed(new) /\ c \notin Indexed(old)
      BY <2>1, <2>2, <2>5, <3>3
    <3> QED BY Zenon, <3>1, <3>2, <3>3
  <2>7. (IF c \in Indexed(new) THEN new[c].pack ELSE old[c].pack) =
        (IF c \in Indexed(old) THEN old[c].pack ELSE new[c].pack)
    <3>1. CASE c \notin Indexed(new) /\ c \notin Indexed(old)
      <4>1. new[c].refs = 0 /\ old[c].refs = 0
        BY <2>1, <3>1
      <4>2. new[c].pack = {} /\ old[c].pack = {}
        BY Zenon, <2>1, <4>1
      <4> QED BY Zenon, <3>1, <4>2
    <3>2. CASE c \in Indexed(new)
      BY Zenon, <2>1, <3>2
    <3>3. CASE c \notin Indexed(new) /\ c \in Indexed(old)
      BY Zenon, <3>3
    <3> QED BY Zenon, <3>1, <3>2, <3>3
  <2> HIDE DEF M, R
  <2>8. R(c) = [pack |-> IF c \in Indexed(new) THEN new[c].pack ELSE old[c].pack,
                refs |-> old[c].refs + new[c].refs + bumps[c]]
    BY Zenon, <2>3, <2>4, <2>7
  <2> QED BY <2>6, <2>8
<1>2. MergedCache(new, bumps, old) = [c \in Chunks |-> M(c)]
  BY Zenon DEF MergedCache
<1>3. Reconciled(new, bumps, old) = [c \in Chunks |-> R(c)]
  BY Zenon DEF Reconciled, Applied, BumpEntries
<1> HIDE DEF M, R
<1> QED BY Zenon, <1>1, <1>2, <1>3

--------------------------------------------------------------------------------

\* Where each kind of process can be.
ReaderAt == {"idle", "list", "load", "read", "dereg", "done", "crashed"}

BackupAt == {"idle", "list", "load", "recover", "upload", "lock", "flush", "names", "fetch",
             "putIndex", "putSnapshot", "cleanup", "deregHeld", "dereg", "release", "clear",
             "abort", "done", "crashed"}

RemoverAt == {"list", "load", "lock", "work", "delete", "save", "release", "done", "crashed"}

CompactAt == {"list", "load", "lock", "work", "repack", "saveIndex", "deleteOld", "release",
              "done", "crashed"}

\* Where the holder of the lock can be.
HolderAt == {"flush", "names", "fetch", "putIndex", "putSnapshot", "cleanup", "deregHeld",
             "release", "work", "delete", "save", "repack", "saveIndex", "deleteOld", "crashed"}

PhasesOf(p) == IF p \in Readers THEN ReaderAt ELSE IF p \in Backups THEN BackupAt
               ELSE IF p \in Compacts THEN CompactAt ELSE RemoverAt

PhaseInv ==
    /\ \A p \in Procs : pc[p] \in PhasesOf(p)
    /\ lock \notin Readers
    /\ lock # None => pc[lock] \in HolderAt

\* The write session of a backup: every reference is a new entry, a bump or still in
\* the writer; new entries and the writer have chunks that the index it was opened
\* with did not have, bumps have a target.
Uploading == {"upload", "lock", "flush", "names", "fetch"}

Flushed == {"names", "fetch", "putIndex", "putSnapshot"}

SessionLocal(b) ==
    /\ pc[b] \in {"idle", "list", "load", "recover"} =>
         /\ ws[b].new = EmptyIndex /\ ws[b].bumps = NoCounts
         /\ ws[b].writer = NoCounts /\ ws[b].refs = NoCounts
    /\ pc[b] \in Uploading \cup Flushed =>
         \A c \in Chunks : ws[b].refs[c] = ws[b].new[c].refs + ws[b].bumps[c] + ws[b].writer[c]
    /\ pc[b] \in Uploading => \A c \in Chunks :
         /\ ws[b].new[c].refs > 0 => view[b][c].refs = 0
         /\ ws[b].bumps[c] > 0 => view[b][c].refs > 0 \/ ws[b].new[c].refs > 0
         /\ ws[b].writer[c] > 0 =>
              view[b][c].refs = 0 /\ ws[b].new[c].refs = 0 /\ ws[b].recovered[c] = {}
    /\ pc[b] \in Flushed => ws[b].writer = NoCounts

\* The generation tells whether the index is still the one it was opened with.
GenLocal(b) ==
    pc[b] \in {"recover"} \cup Uploading =>
        viewGen[b] <= gen /\ (viewGen[b] = gen => view[b] = index)

\* What a backup has established under its lock.
CommitLocal(b) ==
    lock = b =>
      /\ pc[b] = "putIndex" =>
           \A c \in Chunks : view[b][c].refs = index[c].refs + ws[b].refs[c]
      /\ pc[b] = "putSnapshot" =>
           \A c \in Chunks : index[c].refs >= RefsTo(snaps, c) + ws[b].refs[c]

\* Maintenance works on the index there is, and its targets are counted until it
\* has saved.
MaintLocal(m) ==
    /\ pc[m] = "lock" => view[m] = index
    /\ lock = m =>
        /\ pc[m] \in {"work", "delete", "save", "repack", "deleteOld"} => view[m] = index
        /\ pc[m] = "saveIndex" => \A c \in Chunks : view[m][c].refs = index[c].refs
        /\ pc[m] \in {"delete", "save"} =>
             /\ targets[m] \cap snaps \subseteq left[m] /\ IsFiniteSet(targets[m])
             /\ \A c \in Chunks : index[c].refs >= RefsTo(snaps \cup targets[m], c)
        /\ pc[m] = "save" => left[m] = {}

CountsInv ==
    /\ TypeOK /\ PhaseInv
    /\ IsFiniteSet(snaps) /\ RefcountsCover
    /\ \A b \in Backups : SessionLocal(b) /\ GenLocal(b) /\ CommitLocal(b)
    /\ \A m \in Maints : MaintLocal(m)

--------------------------------------------------------------------------------
\* How references add up. The laws of counting rest on the cardinality of finite sets;
\* Repository_proofs proves them, and the lemmas that count references assume them.

Counting(S, c) == IsFiniteSet(S) /\ \A s \in S : s.refs[c] \in Nat

CountingLaws ==
    /\ IsFiniteSet({}) /\ \A c : RefsTo({}, c) = 0
    /\ \A S : IsFiniteSet(S) => \A T \in SUBSET S : IsFiniteSet(T)
    /\ \A S, x : IsFiniteSet(S) => IsFiniteSet(S \cup {x})
    /\ \A S, c : Counting(S, c) =>
         /\ RefsTo(S, c) \in Nat
         /\ \A T \in SUBSET S : RefsTo(T, c) <= RefsTo(S, c) /\ Counting(T, c)
    /\ \A s, c : s.refs[c] \in Nat => RefsTo({s}, c) = s.refs[c] /\ Counting({s}, c)
    /\ \A S, T, c : Counting(S, c) /\ Counting(T, c) =>
         /\ Counting(S \cup T, c)
         /\ RefsTo(S \cup T, c) <= RefsTo(S, c) + RefsTo(T, c)
         /\ S \cap T = {} => RefsTo(S \cup T, c) = RefsTo(S, c) + RefsTo(T, c)

LEMMA FiniteSetLaws ==
  ASSUME CountingLaws
  PROVE  /\ IsFiniteSet({}) /\ \A x : IsFiniteSet({x})
         /\ \A S, x : IsFiniteSet(S) => IsFiniteSet(S \cup {x})
         /\ \A S : IsFiniteSet(S) => \A T \in SUBSET S : IsFiniteSet(T)
<1>1. \A S, x : IsFiniteSet(S) => IsFiniteSet(S \cup {x})
  BY Zenon DEF CountingLaws
<1>2. ASSUME NEW x PROVE IsFiniteSet({x})
  <2>1. {x} = {} \cup {x}
    BY Zenon
  <2>2. IsFiniteSet({})
    BY Zenon DEF CountingLaws
  <2> QED BY Zenon, <1>1, <2>1, <2>2
<1> QED BY Zenon, <1>1, <1>2 DEF CountingLaws

LEMMA RefsToType ==
  ASSUME CountingLaws, NEW S, NEW c, Counting(S, c)
  PROVE  RefsTo(S, c) \in Nat
BY Zenon DEF CountingLaws

LEMMA RefsToMonotone ==
  ASSUME CountingLaws, NEW S, NEW T, NEW c, T \subseteq S, Counting(S, c)
  PROVE  RefsTo(T, c) <= RefsTo(S, c) /\ Counting(T, c)
<1>1. T \in SUBSET S
  BY Zenon
<1> QED BY Zenon, <1>1 DEF CountingLaws

LEMMA RefsToOne ==
  ASSUME CountingLaws, NEW s, NEW c, s.refs[c] \in Nat
  PROVE  RefsTo({s}, c) = s.refs[c] /\ Counting({s}, c)
BY Zenon DEF CountingLaws

LEMMA RefsToUnion ==
  ASSUME CountingLaws, NEW S, NEW T, NEW c, Counting(S, c), Counting(T, c)
  PROVE  /\ Counting(S \cup T, c)
         /\ RefsTo(S \cup T, c) <= RefsTo(S, c) + RefsTo(T, c)
         /\ S \cap T = {} => RefsTo(S \cup T, c) = RefsTo(S, c) + RefsTo(T, c)
BY DEF CountingLaws

--------------------------------------------------------------------------------
Entries == {e \in [pack : SUBSET Blobs, refs : Nat] : e.refs = 0 => e = Absent}

LEMMA EntryMade ==
  ASSUME NEW p \in SUBSET Blobs, NEW n \in Nat, n = 0 => p = {}
  PROVE  [pack |-> p, refs |-> n] \in Entries
BY Zenon DEF Entries, Absent

LEMMA EntryCounted ==
  ASSUME NEW e \in Entries, NEW n \in Nat
  PROVE  /\ [e EXCEPT !.refs = n] = [pack |-> e.pack, refs |-> n]
         /\ n > 0 => [e EXCEPT !.refs = n] \in Entries
<1>1. [e EXCEPT !.refs = n] = [pack |-> e.pack, refs |-> n]
  BY DEF Entries
<1>2. e.pack \in SUBSET Blobs
  BY Zenon DEF Entries
<1> QED BY <1>1, <1>2, EntryMade

LEMMA EntryBumped ==
  ASSUME NEW e \in Entries, e.refs > 0, NEW n \in Nat
  PROVE  [e EXCEPT !.refs = @ + n] \in Entries
<1>1. e.refs \in Nat
  BY Zenon DEF Entries
<1>2. e.refs + n \in Nat /\ e.refs + n > 0
  BY <1>1
<1> QED BY Zenon, <1>2, EntryCounted

LEMMA IndexEntries ==
  ASSUME NEW ix \in Indices
  PROVE  /\ IsIndex(ix)
         /\ \A c \in Chunks : ix[c] \in Entries
         /\ \A c \in Chunks : ix[c] = [pack |-> ix[c].pack, refs |-> ix[c].refs]
         /\ \A c \in Chunks : ix[c].pack \in SUBSET Blobs /\ ix[c].refs \in Nat
         /\ \A c \in Chunks : ix[c].refs = 0 => ix[c] = Absent /\ ix[c].pack = {}
BY DEF Indices, IsIndex, Absent, Entries

LEMMA IsIndexOfEntries ==
  ASSUME NEW ix, ix = [c \in Chunks |-> ix[c]], \A c \in Chunks : ix[c] \in Entries
  PROVE  ix \in Indices
BY Zenon DEF Indices, Entries

LEMMA EmptyIsIndex == EmptyIndex \in Indices /\ NoCounts \in Counts
BY Zenon DEF EmptyIndex, Indices, Absent, NoCounts, Counts

LEMMA DecrementedIsIndex ==
  ASSUME NEW ix \in Indices, NEW n \in Counts
  PROVE  /\ Decremented(ix, n) \in Indices
         /\ \A c \in Chunks : Decremented(ix, n)[c].refs =
                                IF ix[c].refs <= n[c] THEN 0 ELSE ix[c].refs - n[c]
<1> DEFINE r == Decremented(ix, n)
<1>1. ASSUME NEW c \in Chunks
      PROVE  r[c] \in Entries /\ r[c].refs = IF ix[c].refs <= n[c] THEN 0 ELSE ix[c].refs - n[c]
  <2>1. ix[c] \in Entries /\ ix[c].refs \in Nat /\ n[c] \in Nat
    BY Zenon, IndexEntries DEF Counts
  <2>2. CASE ix[c].refs <= n[c]
    BY Zenon, <2>2 DEF Decremented, Absent, Entries
  <2>3. CASE ~(ix[c].refs <= n[c])
    <3>1. r[c] = [ix[c] EXCEPT !.refs = ix[c].refs - n[c]]
      BY Zenon, <2>3 DEF Decremented
    <3>2. ix[c].refs - n[c] \in Nat /\ ix[c].refs - n[c] > 0
      BY <2>1, <2>3
    <3>3. r[c] = [pack |-> ix[c].pack, refs |-> ix[c].refs - n[c]] /\ r[c] \in Entries
      BY <2>1, <3>1, <3>2, EntryCounted
    <3> QED BY <2>3, <3>3
  <2> QED BY Zenon, <2>2, <2>3
<1>2. r = [c \in Chunks |-> r[c]]
  BY Zenon DEF Decremented
<1> QED BY Zenon, <1>1, <1>2, IsIndexOfEntries

LEMMA RelocatedIsIndex ==
  ASSUME NEW ix \in Indices, NEW moved, NEW pack \in SUBSET Blobs
  PROVE  /\ Relocated(ix, moved, pack) \in Indices
         /\ \A c \in Chunks :
              /\ Relocated(ix, moved, pack)[c].refs = ix[c].refs
              /\ Relocated(ix, moved, pack)[c].pack =
                   IF c \in moved /\ c \in Indexed(ix) THEN pack ELSE ix[c].pack
<1> DEFINE r == Relocated(ix, moved, pack)
<1>1. ASSUME NEW c \in Chunks
      PROVE  /\ r[c] \in Entries /\ r[c].refs = ix[c].refs
             /\ r[c].pack = IF c \in moved /\ c \in Indexed(ix) THEN pack ELSE ix[c].pack
  <2>1. /\ ix[c] \in Entries /\ ix[c].refs \in Nat
        /\ ix[c] = [pack |-> ix[c].pack, refs |-> ix[c].refs]
    BY Zenon, IndexEntries
  <2>2. CASE c \in moved /\ c \in Indexed(ix)
    <3>1. r[c] = [ix[c] EXCEPT !.pack = pack]
      BY Zenon, <2>2 DEF Relocated
    <3>2. r[c] = [pack |-> pack, refs |-> ix[c].refs]
      BY Zenon, <2>1, <3>1
    <3>3. ix[c].refs > 0
      BY Zenon, <2>2 DEF Indexed
    <3>4. [pack |-> pack, refs |-> ix[c].refs] \in Entries
      BY <2>1, <3>3, EntryMade
    <3> HIDE DEF r
    <3> QED BY <2>2, <3>2, <3>4
  <2>3. CASE ~(c \in moved /\ c \in Indexed(ix))
    BY Zenon, <2>1, <2>3 DEF Relocated
  <2> QED BY Zenon, <2>2, <2>3
<1>2. r = [c \in Chunks |-> r[c]]
  BY Zenon DEF Relocated
<1> QED BY Zenon, <1>1, <1>2, IsIndexOfEntries

LEMMA AppliedIsIndex ==
  ASSUME NEW new \in Indices, NEW bumps \in Counts, NEW ix \in Indices
  PROVE  Applied(new, bumps, ix) \in Indices
<1> DEFINE added == AddEntries(ix, new)
           r == Applied(new, bumps, ix)
<1>1. ASSUME NEW c \in Chunks
      PROVE  added[c] \in Entries /\ (c \in Indexed(added) <=> added[c].refs > 0)
  <2> DEFINE pk == IF c \in Indexed(ix) THEN ix[c].pack ELSE new[c].pack
  <2>1. added[c] = [pack |-> pk, refs |-> ix[c].refs + new[c].refs]
    BY Zenon DEF AddEntries
  <2>2. /\ ix[c].refs \in Nat /\ ix[c].pack \in SUBSET Blobs
        /\ new[c].refs \in Nat /\ new[c].pack \in SUBSET Blobs
        /\ ix[c].refs = 0 => ix[c].pack = {}
        /\ new[c].refs = 0 => new[c].pack = {}
    BY Zenon, IndexEntries
  <2>3. c \in Indexed(added) <=> added[c].refs > 0
    BY Zenon DEF Indexed
  <2>4. pk \in SUBSET Blobs
    BY Zenon, <2>2
  <2>5. ix[c].refs + new[c].refs \in Nat
    BY <2>2
  <2>6. ix[c].refs + new[c].refs = 0 => ix[c].refs = 0 /\ new[c].refs = 0
    BY <2>2
  <2>7. ix[c].refs + new[c].refs = 0 => pk = {}
    BY Zenon, <2>2, <2>6
  <2> HIDE DEF added, pk
  <2> QED BY Zenon, <2>1, <2>3, <2>4, <2>5, <2>7, EntryMade
<1>2. ASSUME NEW c \in Chunks
      PROVE  r[c] = IF c \in Indexed(added) THEN [added[c] EXCEPT !.refs = @ + bumps[c]]
                    ELSE added[c]
  BY Zenon DEF Applied, BumpEntries
<1>3. r = [c \in Chunks |-> r[c]]
  BY Zenon DEF Applied, BumpEntries
<1> HIDE DEF added, r
<1>4. ASSUME NEW c \in Chunks PROVE r[c] \in Entries
  <2>1. bumps[c] \in Nat
    BY Zenon DEF Counts
  <2>2. CASE c \in Indexed(added)
    <3>1. added[c] \in Entries /\ added[c].refs > 0
      BY Zenon, <1>1, <2>2
    <3>2. r[c] = [added[c] EXCEPT !.refs = @ + bumps[c]]
      BY Zenon, <1>2, <2>2
    <3>3. [added[c] EXCEPT !.refs = @ + bumps[c]] \in Entries
      BY Zenon, <2>1, <3>1, EntryBumped
    <3> QED BY Zenon, <3>2, <3>3
  <2>3. CASE c \notin Indexed(added)
    BY Zenon, <1>1, <1>2, <2>3
  <2> QED BY Zenon, <2>2, <2>3
<1>5. r \in Indices
  BY Zenon, <1>3, <1>4, IsIndexOfEntries
<1> QED BY Zenon, <1>5 DEF r

LEMMA ReconciledIsIndex ==
  ASSUME NEW new \in Indices, NEW bumps \in Counts, NEW ix \in Indices
  PROVE  Reconciled(new, bumps, ix) \in Indices
<1>1. StillNew(new, ix) \in Indices
  BY Zenon DEF StillNew, Indices, Absent
<1>2. AllBumps(new, bumps, ix) \in Counts
  BY DEF AllBumps, Counts, Indices
<1> QED BY Zenon, <1>1, <1>2, AppliedIsIndex DEF Reconciled

LEMMA MergedIsIndex ==
  ASSUME NEW new \in Indices, NEW bumps \in Counts, NEW ix \in Indices
  PROVE  MergedCache(new, bumps, ix) \in Indices
<1> DEFINE r == MergedCache(new, bumps, ix)
           e(c) == IF c \in Indexed(new) THEN new[c] ELSE ix[c]
<1>1. ASSUME NEW c \in Chunks
      PROVE  /\ r[c] = IF e(c).refs > 0 THEN [e(c) EXCEPT !.refs = @ + bumps[c]] ELSE e(c)
             /\ e(c) \in Entries /\ bumps[c] \in Nat
  BY Zenon, IndexEntries DEF MergedCache, Counts
<1>2. r = [c \in Chunks |-> r[c]]
  BY Zenon DEF MergedCache
<1> HIDE DEF r, e
<1>3. ASSUME NEW c \in Chunks PROVE r[c] \in Entries
  <2>1. CASE e(c).refs > 0
    BY Zenon, <1>1, <2>1, EntryBumped
  <2>2. CASE ~(e(c).refs > 0)
    BY Zenon, <1>1, <2>2
  <2> QED BY Zenon, <2>1, <2>2
<1>4. r \in Indices
  BY Zenon, <1>2, <1>3, IsIndexOfEntries
<1> QED BY Zenon, <1>4 DEF r

--------------------------------------------------------------------------------
\* Types

LEMMA NewSessionType == NewSession \in WriteSessions
<1>1. EmptyIndex \in Indices /\ NoCounts \in Counts
  BY Zenon, EmptyIsIndex
<1>2. [c \in Chunks |-> {}] \in [Chunks -> SUBSET Blobs]
  BY Zenon
<1> QED BY Zenon, <1>1, <1>2 DEF NewSession, WriteSessions

LEMMA TypesInitial == Init => TypeOK
<1> SUFFICES ASSUME Init PROVE TypeOK
  BY Zenon
<1>1. /\ scenario \in Scenarios
      /\ scenario.founded \in SUBSET Chunks /\ scenario.dead \in SUBSET Chunks
      /\ scenario.names \in [Backups \cup {Founder} -> Names]
  BY Zenon, RepositoryAssumption DEF Init
<1>2. FirstPack \in SUBSET Blobs
  BY <1>1 DEF FirstPack, PackOf, Founded, Dead, Blobs
<1>3. packs \subseteq SUBSET Blobs
  BY Zenon, <1>2 DEF Init
<1>4. index \in Indices
  BY <1>2 DEF Init, Indices, Absent
<1>5. FirstSnapshot \in Snapshots
  BY Zenon, <1>1 DEF FirstSnapshot, Snapshots, Counts
<1>6. snaps \in SUBSET Snapshots
  BY Zenon, <1>5 DEF Init
<1>7. pc \in [Procs -> Phases]
  BY Zenon DEF Init, Phases
<1>8. view \in [Procs -> Indices] /\ ws \in [Backups -> WriteSessions]
  BY Zenon, EmptyIsIndex, NewSessionType DEF Init
<1>9. /\ gen \in Nat /\ journals \in [Backups -> SUBSET SUBSET Blobs]
      /\ markers \in SUBSET Sessions /\ lock \in Procs \cup {None}
      /\ listed \in [Procs -> SUBSET Snapshots] /\ viewGen \in [Procs -> Nat]
      /\ targets \in [Maints -> SUBSET Snapshots] /\ left \in [Maints -> SUBSET Snapshots]
      /\ todo \in [Maints -> SUBSET [pack : SUBSET Blobs, live : SUBSET Chunks]]
      /\ work \in [Maints -> SUBSET Blobs]
      /\ reaped \in SUBSET Sessions /\ crashes \in Nat /\ losses \in Nat
  BY Zenon DEF Init
<1> QED
  BY Zenon, <1>1, <1>3, <1>4, <1>6, <1>7, <1>8, <1>9 DEF TypeOK

LEMMA CommonTypes ==
  ASSUME TypeOK, NEW p \in Procs,
         \/ ListSnapshots(p) \/ LoadIndex(p) \/ Release(p) \/ Crash(p)
         \/ Register(p) \/ Deregister(p) \/ RefreshMarker(p) \/ EndRead(p)
  PROVE  TypeOK'
<1> USE DEF Goto, packVars, indexVars, lockVars, viewVars, maintVars, auxVars
<1>0. \A l \in {"list", "load", "read", "lock", "dereg", "recover", "release", "done", "clear",
                "abort", "crashed"} :
        [pc EXCEPT ![p] = l] \in [Procs -> Phases]
  BY Zenon DEF TypeOK, Phases
<1>1. CASE ListSnapshots(p)
  <2>1. listed' \in [Procs -> SUBSET Snapshots]
    BY Zenon, <1>1 DEF ListSnapshots, TypeOK
  <2> QED BY Zenon, <1>0, <1>1, <2>1 DEF ListSnapshots, TypeOK
<1>2. CASE LoadIndex(p)
  <2>1. view' \in [Procs -> Indices] /\ viewGen' \in [Procs -> Nat]
    BY Zenon, <1>2 DEF LoadIndex, TypeOK
  <2>2. /\ \E l \in {"read", "lock", "dereg", "recover"} : pc' = [pc EXCEPT ![p] = l]
        /\ UNCHANGED <<scenario, packVars, indexVars, snaps, lockVars, listed, ws, maintVars, auxVars>>
    BY Zenon, <1>2 DEF LoadIndex
  <2>3. pc' \in [Procs -> Phases]
    BY <1>0, <2>2
  <2> QED BY Zenon, <2>1, <2>2, <2>3 DEF TypeOK
<1>3. CASE Release(p)
  <2>1. /\ \E l \in {"done", "clear", "abort"} : pc' = [pc EXCEPT ![p] = l]
        /\ lock' = None \/ lock' = lock
        /\ UNCHANGED <<scenario, packVars, indexVars, snaps, markers, viewVars, ws, maintVars, auxVars>>
    BY Zenon, <1>3 DEF Release
  <2>2. pc' \in [Procs -> Phases]
    BY ZenonT(30), <1>0, <2>1
  <2> QED BY Zenon, <2>1, <2>2 DEF TypeOK
<1>4. CASE Crash(p)
  <2>1. /\ pc' = [pc EXCEPT ![p] = "crashed"] /\ crashes' = crashes + 1
        /\ ws' = [b \in Backups |-> IF b = p THEN NewSession ELSE ws[b]]
        /\ UNCHANGED <<scenario, packVars, indexVars, snaps, lockVars, viewVars, maintVars, reaped,
                       losses>>
    BY Zenon, <1>4 DEF Crash
  <2>2. ws' \in [Backups -> WriteSessions]
    BY Zenon, <2>1, NewSessionType DEF TypeOK
  <2>3. crashes' \in Nat
    BY <2>1 DEF TypeOK
  <2> QED BY Zenon, <1>0, <2>1, <2>2, <2>3 DEF TypeOK
<1>5. CASE Register(p)
  BY Zenon, <1>0, <1>5 DEF Register, TypeOK
<1>6. CASE Deregister(p)
  <2>1. /\ \E l \in {"done", "release"} : pc' = [pc EXCEPT ![p] = l]
        /\ markers' = markers \ {p}
        /\ UNCHANGED <<scenario, packVars, indexVars, snaps, lock, viewVars, ws, maintVars, auxVars>>
    BY Zenon, <1>6 DEF Deregister
  <2>2. pc' \in [Procs -> Phases]
    BY <1>0, <2>1
  <2> QED BY Zenon, <2>1, <2>2 DEF TypeOK
<1>7. CASE RefreshMarker(p)
  BY Zenon, <1>7 DEF RefreshMarker, Sessions, TypeOK
<1>8. CASE EndRead(p)
  BY Zenon, <1>0, <1>8 DEF EndRead, TypeOK
<1> QED
  BY Zenon, <1>1, <1>2, <1>3, <1>4, <1>5, <1>6, <1>7, <1>8

--------------------------------------------------------------------------------
\* What the steps of a backup make of its write session.

SameDelta(x, y) ==
    x.new = y.new /\ x.bumps = y.bumps /\ x.writer = y.writer /\ x.refs = y.refs

SessionBecomes(b, x) == x \in WriteSessions /\ ws' = [ws EXCEPT ![b] = x]

LEMMA PackOfType ==
  ASSUME NEW S \in SUBSET Chunks, NEW b \in Backups PROVE PackOf(S, b) \in SUBSET Blobs
BY DEF PackOf, Blobs

LEMMA RecoverEffect ==
  ASSUME TypeOK, NEW b \in Backups, Recover(b)
  PROVE  \E x : /\ SessionBecomes(b, x) /\ SameDelta(x, ws[b])
                /\ x.inflight = ws[b].inflight /\ x.failed = ws[b].failed
                /\ \A c \in Chunks : x.recovered[c] # {} =>
                     /\ x.recovered[c] \in packs /\ c \in ChunksOf(x.recovered[c])
                     /\ c \notin Indexed(view[b])
<1>1. PICK R \in SUBSET {o \in Backups \ {b} : journals[o] # {}} :
        LET found == Recoverable(UNION {journals[o] : o \in R})
            With(c) == IF c \in Indexed(view[b]) THEN {}
                       ELSE {p \in found : c \in ChunksOf(p)}
        IN  \E f \in [Chunks -> found \cup {{}}] :
              /\ \A c \in Chunks : IF With(c) = {} THEN f[c] = {} ELSE f[c] \in With(c)
              /\ ws' = [ws EXCEPT ![b].recovered = f, ![b].keys = R, ![b].journal = found]
  BY Zenon DEF Recover
<1> DEFINE found == Recoverable(UNION {journals[o] : o \in R})
           With(c) == IF c \in Indexed(view[b]) THEN {}
                      ELSE {p \in found : c \in ChunksOf(p)}
<1>2. PICK f \in [Chunks -> found \cup {{}}] :
        /\ \A c \in Chunks : IF With(c) = {} THEN f[c] = {} ELSE f[c] \in With(c)
        /\ ws' = [ws EXCEPT ![b].recovered = f, ![b].keys = R, ![b].journal = found]
  BY Zenon, <1>1
<1> DEFINE x == [ws[b] EXCEPT !.recovered = f, !.keys = R, !.journal = found]
<1>3. ws[b] \in WriteSessions
  BY Zenon DEF TypeOK
<1>4. found \subseteq packs /\ found \in SUBSET SUBSET Blobs
  BY Zenon DEF Recoverable, TypeOK
<1>5. \A c \in Chunks : f[c] # {} =>
        f[c] \in packs /\ c \in ChunksOf(f[c]) /\ c \notin Indexed(view[b])
  <2> TAKE c \in Chunks
  <2>1. IF With(c) = {} THEN f[c] = {} ELSE f[c] \in With(c)
    BY Zenon, <1>2
  <2> HIDE DEF found
  <2> QED BY Zenon, <1>4, <2>1
<1> HIDE DEF found, With
<1>6. ws' = [ws EXCEPT ![b] = x]
  BY Zenon, <1>2
<1>7. f \in [Chunks -> SUBSET Blobs] /\ R \in SUBSET Backups
  BY Zenon, <1>2, <1>4
<1>8. /\ x \in WriteSessions /\ x.recovered = f
      /\ SameDelta(x, ws[b]) /\ x.inflight = ws[b].inflight /\ x.failed = ws[b].failed
  BY Zenon, <1>3, <1>4, <1>7 DEF WriteSessions, SameDelta
<1> HIDE DEF x
<1> QED BY Zenon, <1>5, <1>6, <1>8 DEF SessionBecomes

LEMMA SealEffect ==
  ASSUME TypeOK, NEW b \in Backups, Seal(b)
  PROVE  LET pack == PackOf(Counted(ws[b].writer), b)
         IN  \E x : /\ SessionBecomes(b, x)
                    /\ x.new = [c \in Chunks |-> IF ws[b].writer[c] > 0
                                  THEN [pack |-> pack, refs |-> ws[b].writer[c]]
                                  ELSE ws[b].new[c]]
                    /\ x.bumps = ws[b].bumps /\ x.writer = NoCounts /\ x.refs = ws[b].refs
                    /\ x.recovered = ws[b].recovered /\ x.failed = ws[b].failed
                    /\ x.inflight = ws[b].inflight \cup {pack}
<1> DEFINE pack == PackOf(Counted(ws[b].writer), b)
           new == [c \in Chunks |-> IF ws[b].writer[c] > 0
                     THEN [pack |-> pack, refs |-> ws[b].writer[c]] ELSE ws[b].new[c]]
           x == [ws[b] EXCEPT !.new = new, !.journal = @ \cup {pack},
                              !.inflight = @ \cup {pack}, !.writer = NoCounts]
<1>1. ws' = [ws EXCEPT ![b].new = new, ![b].journal = @ \cup {pack},
                       ![b].inflight = @ \cup {pack}, ![b].writer = NoCounts]
  BY Zenon DEF Seal
<1>2. pack \in SUBSET Blobs
  BY Zenon, PackOfType DEF Counted
<1>3. ws[b] \in WriteSessions
  BY Zenon DEF TypeOK
<1>4. new \in Indices
  <2> HIDE DEF pack
  <2> QED BY <1>2, <1>3 DEF WriteSessions, Counts, Indices
<1>5. new = [c \in Chunks |-> IF ws[b].writer[c] > 0
               THEN [pack |-> pack, refs |-> ws[b].writer[c]] ELSE ws[b].new[c]]
  BY Zenon
<1> HIDE DEF pack, new
<1>6. ws' = [ws EXCEPT ![b] = x]
  BY Zenon, <1>1
<1>7. /\ x \in WriteSessions /\ x.new = new
      /\ x.bumps = ws[b].bumps /\ x.writer = NoCounts /\ x.refs = ws[b].refs
      /\ x.recovered = ws[b].recovered /\ x.failed = ws[b].failed
      /\ x.inflight = ws[b].inflight \cup {pack}
  BY Zenon, <1>2, <1>3, <1>4, EmptyIsIndex DEF WriteSessions
<1> HIDE DEF x
<1>8. \E y : /\ SessionBecomes(b, y) /\ y.new = new
             /\ y.bumps = ws[b].bumps /\ y.writer = NoCounts /\ y.refs = ws[b].refs
             /\ y.recovered = ws[b].recovered /\ y.failed = ws[b].failed
             /\ y.inflight = ws[b].inflight \cup {pack}
  BY Zenon, <1>6, <1>7 DEF SessionBecomes
<1> QED BY Zenon, <1>5, <1>8 DEF pack

LEMMA StoreEffect ==
  ASSUME TypeOK, NEW b \in Backups, NEW c \in Chunks, StoreChunk(b, c)
  PROVE  \E x : /\ SessionBecomes(b, x)
                /\ x.refs = [ws[b].refs EXCEPT ![c] = @ + 1]
                /\ x.inflight = ws[b].inflight /\ x.failed = ws[b].failed
                /\ \/ /\ c \in Known(b) /\ x.bumps = [ws[b].bumps EXCEPT ![c] = @ + 1]
                      /\ x.new = ws[b].new /\ x.writer = ws[b].writer
                      /\ x.recovered = ws[b].recovered
                   \/ /\ c \notin Known(b) /\ ws[b].recovered[c] # {}
                      /\ x.new = [ws[b].new EXCEPT ![c] =
                                    [pack |-> ws[b].recovered[c], refs |-> 1]]
                      /\ x.recovered = [ws[b].recovered EXCEPT ![c] = {}]
                      /\ x.bumps = ws[b].bumps /\ x.writer = ws[b].writer
                   \/ /\ c \notin Known(b) /\ ws[b].recovered[c] = {}
                      /\ x.writer = [ws[b].writer EXCEPT ![c] = @ + 1]
                      /\ x.new = ws[b].new /\ x.bumps = ws[b].bumps
                      /\ x.recovered = ws[b].recovered
<1> DEFINE s == [ws[b] EXCEPT !.refs[c] = @ + 1]
           x == WithChunk(b, c)
<1>1. ws' = [ws EXCEPT ![b] = x]
  BY Zenon DEF StoreChunk
<1>2. ws[b] \in WriteSessions
  BY Zenon DEF TypeOK
<1>3. /\ s \in WriteSessions
      /\ s.refs = [ws[b].refs EXCEPT ![c] = @ + 1]
      /\ s.new = ws[b].new /\ s.bumps = ws[b].bumps /\ s.writer = ws[b].writer
      /\ s.recovered = ws[b].recovered
      /\ s.inflight = ws[b].inflight /\ s.failed = ws[b].failed
  <2> DEFINE r == [ws[b].refs EXCEPT ![c] = @ + 1]
  <2>1. r \in Counts
    BY <1>2 DEF WriteSessions, Counts
  <2>2. s = [ws[b] EXCEPT !.refs = r]
    BY Zenon
  <2> HIDE DEF r, s
  <2>3. s \in WriteSessions /\ s.refs = r
    BY Zenon, <1>2, <2>1, <2>2 DEF WriteSessions
  <2>4. /\ s.new = ws[b].new /\ s.bumps = ws[b].bumps /\ s.writer = ws[b].writer
        /\ s.recovered = ws[b].recovered
        /\ s.inflight = ws[b].inflight /\ s.failed = ws[b].failed
    BY Zenon, <1>2, <2>2 DEF WriteSessions
  <2> QED BY Zenon, <2>3, <2>4 DEF r
<1> USE DEF WithChunk
<1>4. CASE c \in Known(b)
  <2> DEFINE n == [s.bumps EXCEPT ![c] = @ + 1]
  <2>1. x = [s EXCEPT !.bumps = n]
    BY Zenon, <1>4
  <2> HIDE DEF s, x
  <2>2. n \in Counts
    BY <1>3 DEF WriteSessions, Counts
  <2> HIDE DEF n
  <2>3. /\ x \in WriteSessions /\ x.refs = s.refs /\ x.inflight = s.inflight
        /\ x.failed = s.failed /\ x.bumps = n
        /\ x.new = s.new /\ x.writer = s.writer /\ x.recovered = s.recovered
    BY Zenon, <1>3, <2>1, <2>2 DEF WriteSessions
  <2>4. n = [ws[b].bumps EXCEPT ![c] = @ + 1]
    BY Zenon, <1>3 DEF n
  <2>5. /\ SessionBecomes(b, x) /\ x.refs = [ws[b].refs EXCEPT ![c] = @ + 1]
        /\ x.inflight = ws[b].inflight /\ x.failed = ws[b].failed
        /\ c \in Known(b) /\ x.bumps = [ws[b].bumps EXCEPT ![c] = @ + 1]
        /\ x.new = ws[b].new /\ x.writer = ws[b].writer /\ x.recovered = ws[b].recovered
    BY Zenon, <1>1, <1>3, <1>4, <2>3, <2>4 DEF SessionBecomes
  <2> QED BY <2>5, Zenon
<1>5. CASE c \notin Known(b) /\ s.recovered[c] # {}
  <2>1. x = [s EXCEPT !.new[c] = [pack |-> s.recovered[c], refs |-> 1], !.recovered[c] = {}]
    BY Zenon, <1>5
  <2> HIDE DEF s, x
  <2>2. s.recovered[c] \in SUBSET Blobs /\ s.new \in Indices
    BY Zenon, <1>3 DEF WriteSessions
  <2>3. [s.new EXCEPT ![c] = [pack |-> s.recovered[c], refs |-> 1]] \in Indices
    BY <2>2 DEF Indices
  <2>4. /\ x \in WriteSessions /\ x.refs = s.refs /\ x.inflight = s.inflight
        /\ x.failed = s.failed /\ x.bumps = s.bumps /\ x.writer = s.writer
        /\ x.new = [s.new EXCEPT ![c] = [pack |-> s.recovered[c], refs |-> 1]]
        /\ x.recovered = [s.recovered EXCEPT ![c] = {}]
    BY Zenon, <1>3, <2>1, <2>3 DEF WriteSessions
  <2>5. /\ SessionBecomes(b, x) /\ x.refs = [ws[b].refs EXCEPT ![c] = @ + 1]
        /\ x.inflight = ws[b].inflight /\ x.failed = ws[b].failed
        /\ c \notin Known(b) /\ ws[b].recovered[c] # {}
        /\ x.new = [ws[b].new EXCEPT ![c] = [pack |-> ws[b].recovered[c], refs |-> 1]]
        /\ x.recovered = [ws[b].recovered EXCEPT ![c] = {}]
        /\ x.bumps = ws[b].bumps /\ x.writer = ws[b].writer
    BY Zenon, <1>1, <1>3, <1>5, <2>4 DEF SessionBecomes
  <2> QED BY <2>5, Zenon
<1>6. CASE c \notin Known(b) /\ s.recovered[c] = {}
  <2> DEFINE n == [s.writer EXCEPT ![c] = @ + 1]
  <2>1. x = [s EXCEPT !.writer = n]
    BY Zenon, <1>6
  <2> HIDE DEF s, x
  <2>2. n \in Counts
    BY <1>3 DEF WriteSessions, Counts
  <2> HIDE DEF n
  <2>3. /\ x \in WriteSessions /\ x.refs = s.refs /\ x.inflight = s.inflight
        /\ x.failed = s.failed /\ x.writer = n
        /\ x.new = s.new /\ x.bumps = s.bumps /\ x.recovered = s.recovered
    BY Zenon, <1>3, <2>1, <2>2 DEF WriteSessions
  <2>4. n = [ws[b].writer EXCEPT ![c] = @ + 1]
    BY Zenon, <1>3 DEF n
  <2>5. /\ SessionBecomes(b, x) /\ x.refs = [ws[b].refs EXCEPT ![c] = @ + 1]
        /\ x.inflight = ws[b].inflight /\ x.failed = ws[b].failed
        /\ c \notin Known(b) /\ ws[b].recovered[c] = {}
        /\ x.writer = [ws[b].writer EXCEPT ![c] = @ + 1]
        /\ x.new = ws[b].new /\ x.bumps = ws[b].bumps /\ x.recovered = ws[b].recovered
    BY Zenon, <1>1, <1>3, <1>6, <2>3, <2>4 DEF SessionBecomes
  <2> QED BY <2>5, Zenon
<1> HIDE DEF s
<1> QED BY Zenon, <1>4, <1>5, <1>6

LEMMA UploadEffect ==
  ASSUME TypeOK, NEW b \in Backups, NEW p \in ws[b].inflight, Upload(b, p)
  PROVE  \E x : /\ SessionBecomes(b, x) /\ SameDelta(x, ws[b])
                /\ x.recovered = ws[b].recovered /\ x.inflight = ws[b].inflight \ {p}
                /\ \/ packs' = packs \cup {p} /\ x.failed = ws[b].failed
                   \/ packs' = packs /\ x.failed = TRUE
<1>1. ws[b] \in WriteSessions
  BY Zenon DEF TypeOK
<1>2. CASE packs' = packs \cup {p} /\ ws' = [ws EXCEPT ![b].inflight = @ \ {p}]
  <2> DEFINE x == [ws[b] EXCEPT !.inflight = @ \ {p}]
  <2>1. ws' = [ws EXCEPT ![b] = x]
    BY Zenon, <1>2
  <2>2. /\ x \in WriteSessions /\ SameDelta(x, ws[b]) /\ x.failed = ws[b].failed
        /\ x.recovered = ws[b].recovered /\ x.inflight = ws[b].inflight \ {p}
    BY Zenon, <1>1 DEF WriteSessions, SameDelta
  <2> HIDE DEF x
  <2> QED BY Zenon, <1>2, <2>1, <2>2 DEF SessionBecomes
<1>3. CASE packs' = packs /\ ws' = [ws EXCEPT ![b].inflight = @ \ {p}, ![b].failed = TRUE]
  <2> DEFINE x == [ws[b] EXCEPT !.inflight = @ \ {p}, !.failed = TRUE]
  <2>1. ws' = [ws EXCEPT ![b] = x]
    BY Zenon, <1>3
  <2>2. /\ x \in WriteSessions /\ SameDelta(x, ws[b]) /\ x.failed = TRUE
        /\ x.recovered = ws[b].recovered /\ x.inflight = ws[b].inflight \ {p}
    BY Zenon, <1>1 DEF WriteSessions, SameDelta
  <2> HIDE DEF x
  <2> QED BY Zenon, <1>3, <2>1, <2>2 DEF SessionBecomes
<1> QED BY Zenon, <1>2, <1>3 DEF Upload

LEMMA CleanupEffect ==
  ASSUME TypeOK, NEW b \in Backups, CleanupRecovered(b)
  PROVE  \E x : /\ SessionBecomes(b, x) /\ SameDelta(x, ws[b])
                /\ x.inflight = ws[b].inflight /\ x.recovered = ws[b].recovered
<1>1. ws[b] \in WriteSessions
  BY Zenon DEF TypeOK
<1>2. CASE ws' = [ws EXCEPT ![b].ok = TRUE]
  <2> DEFINE x == [ws[b] EXCEPT !.ok = TRUE]
  <2>1. ws' = [ws EXCEPT ![b] = x]
    BY Zenon, <1>2
  <2>2. /\ x \in WriteSessions /\ SameDelta(x, ws[b])
        /\ x.inflight = ws[b].inflight /\ x.recovered = ws[b].recovered
    BY Zenon, <1>1 DEF WriteSessions, SameDelta
  <2> HIDE DEF x
  <2> QED BY Zenon, <2>1, <2>2 DEF SessionBecomes
<1>3. CASE ws' = ws
  <2>1. ws' = [ws EXCEPT ![b] = ws[b]]
    BY Zenon, <1>3 DEF TypeOK
  <2> QED BY Zenon, <1>1, <2>1 DEF SessionBecomes, SameDelta
<1> QED BY Zenon, <1>2, <1>3 DEF CleanupRecovered

LEMMA AbortEffect ==
  ASSUME TypeOK, NEW b \in Backups, FlushOnAbort(b)
  PROVE  LET sealed == {PackOf(Counted(ws[b].writer), b)} \ {{}}
         IN  /\ \E x : SessionBecomes(b, x) /\ x.inflight = {} /\ x.writer = NoCounts
             /\ \E P \in SUBSET (ws[b].inflight \cup sealed) : packs' = packs \cup P
             /\ packs' \in SUBSET SUBSET Blobs /\ journals' \in [Backups -> SUBSET SUBSET Blobs]
<1> DEFINE sealed == {PackOf(Counted(ws[b].writer), b)} \ {{}}
           journal == ws[b].journal \cup sealed
           x == [ws[b] EXCEPT !.inflight = {}, !.writer = NoCounts, !.journal = journal]
<1>0. ws[b] \in WriteSessions
  BY Zenon DEF TypeOK
<1>1. sealed \in SUBSET SUBSET Blobs /\ journal \in SUBSET SUBSET Blobs
  <2>1. PackOf(Counted(ws[b].writer), b) \in SUBSET Blobs
    BY Zenon, PackOfType DEF Counted
  <2>2. ws[b].journal \in SUBSET SUBSET Blobs
    BY Zenon, <1>0 DEF WriteSessions
  <2> QED BY Zenon, <2>1, <2>2
<1>2. ws' = [ws EXCEPT ![b].inflight = {}, ![b].writer = NoCounts, ![b].journal = journal]
  BY Zenon DEF FlushOnAbort
<1>3. \E P \in Achieved(ws[b].inflight \cup sealed) : packs' = packs \cup P
  BY Zenon DEF FlushOnAbort
<1>4. \E done \in Achieved({b}) : journals' = [journals EXCEPT ![b] =
               IF b \in done /\ journal # {} THEN journal ELSE @]
  BY Zenon DEF FlushOnAbort
<1>5. ASSUME sealed = {PackOf(Counted(ws[b].writer), b)} \ {{}}
      PROVE  /\ \E y : SessionBecomes(b, y) /\ y.inflight = {} /\ y.writer = NoCounts
             /\ \E P \in SUBSET (ws[b].inflight \cup sealed) : packs' = packs \cup P
             /\ packs' \in SUBSET SUBSET Blobs /\ journals' \in [Backups -> SUBSET SUBSET Blobs]
  <2> HIDE DEF sealed, journal
  <2>1. ws' = [ws EXCEPT ![b] = x]
    BY Zenon, <1>2
  <2>2. x \in WriteSessions /\ x.inflight = {} /\ x.writer = NoCounts
    BY Zenon, <1>0, <1>1, EmptyIsIndex DEF WriteSessions
  <2> HIDE DEF x
  <2>3. \E y : SessionBecomes(b, y) /\ y.inflight = {} /\ y.writer = NoCounts
    BY Zenon, <2>1, <2>2 DEF SessionBecomes
  <2>4. \E P \in SUBSET (ws[b].inflight \cup sealed) : packs' = packs \cup P
    BY Zenon, <1>3 DEF Achieved
  <2>5. packs' \in SUBSET SUBSET Blobs
    BY Zenon, <1>0, <1>1, <2>4 DEF WriteSessions, TypeOK
  <2>6. journals' \in [Backups -> SUBSET SUBSET Blobs]
    BY ZenonT(30), <1>1, <1>4 DEF TypeOK
  <2> QED BY Zenon, <2>3, <2>4, <2>5, <2>6
<1> QED BY Zenon, <1>5

LEMMA BecomesType ==
  ASSUME TypeOK, NEW b \in Backups, \E x : SessionBecomes(b, x)
  PROVE  ws' \in [Backups -> WriteSessions]
BY Zenon DEF TypeOK, SessionBecomes

LEMMA UploadTypes ==
  ASSUME TypeOK, NEW b \in Backups,
         \/ Recover(b) \/ Seal(b) \/ EndUpload(b)
         \/ (\E c \in Chunks : StoreChunk(b, c)) \/ (\E p \in ws[b].inflight : Upload(b, p))
         \/ CommitLock(b) \/ CleanupRecovered(b) \/ ClearJournal(b) \/ FlushOnAbort(b)
  PROVE  TypeOK'
<1> USE DEF Goto, packVars, indexVars, lockVars, viewVars, maintVars, auxVars
<1>0. /\ b \in Procs /\ b \in Sessions /\ ws[b] \in WriteSessions
      /\ packs \subseteq SUBSET Blobs /\ journals \in [Backups -> SUBSET SUBSET Blobs]
      /\ markers \in SUBSET Sessions
  BY Zenon DEF TypeOK, Procs, Sessions
<1>1. \A l \in {"upload", "lock", "abort", "flush", "deregHeld", "dereg", "done"} :
        [pc EXCEPT ![b] = l] \in [Procs -> Phases]
  BY Zenon DEF TypeOK, Phases
<1>2. ws[b].journal \in SUBSET SUBSET Blobs /\ ws[b].inflight \in SUBSET SUBSET Blobs
  BY Zenon, <1>0 DEF WriteSessions
<1>3. CASE Recover(b)
  <2>1. /\ pc' = [pc EXCEPT ![b] = "upload"]
        /\ UNCHANGED <<scenario, packVars, indexVars, snaps, lockVars, viewVars, maintVars, auxVars>>
    BY Zenon, <1>3 DEF Recover
  <2>2. ws' \in [Backups -> WriteSessions]
    BY Zenon, <1>3, RecoverEffect, BecomesType
  <2> QED BY Zenon, <1>1, <2>1, <2>2 DEF TypeOK
<1>4. CASE Seal(b)
  <2>1. UNCHANGED <<scenario, packs, indexVars, snaps, lock, pc, viewVars, maintVars, auxVars>>
    BY Zenon, <1>4 DEF Seal
  <2>2. ws' \in [Backups -> WriteSessions]
    BY Zenon, <1>4, SealEffect, BecomesType
  <2>3. journals' \in [Backups -> SUBSET SUBSET Blobs]
    <3>1. \/ journals' = [journals EXCEPT ![b] = ws[b].journal]
          \/ journals' = [journals EXCEPT ![b] = journals[b]]
      BY Zenon, <1>4 DEF Seal
    <3> QED BY Zenon, <1>0, <1>2, <3>1
  <2>4. markers' \in SUBSET Sessions
    BY Zenon, <1>0, <1>4 DEF Seal
  <2> QED BY Zenon, <2>1, <2>2, <2>3, <2>4 DEF TypeOK
<1>5. CASE EndUpload(b)
  <2>1. /\ pc' = [pc EXCEPT ![b] = "lock"] \/ pc' = [pc EXCEPT ![b] = "abort"]
        /\ UNCHANGED <<scenario, packVars, indexVars, snaps, lockVars, viewVars, ws, maintVars, auxVars>>
    BY Zenon, <1>5 DEF EndUpload
  <2> QED BY Zenon, <1>1, <2>1 DEF TypeOK
<1>6. ASSUME NEW c \in Chunks, StoreChunk(b, c) PROVE TypeOK'
  <2>1. UNCHANGED <<scenario, packVars, indexVars, snaps, lockVars, pc, viewVars, maintVars, auxVars>>
    BY Zenon, <1>6 DEF StoreChunk
  <2>2. ws' \in [Backups -> WriteSessions]
    BY Zenon, <1>6, StoreEffect, BecomesType
  <2> QED BY Zenon, <2>1, <2>2 DEF TypeOK
<1>7. ASSUME NEW p \in ws[b].inflight, Upload(b, p) PROVE TypeOK'
  <2>1. /\ packs' = packs \cup {p} \/ packs' = packs
        /\ UNCHANGED <<scenario, journals, indexVars, snaps, lockVars, pc, viewVars, maintVars, auxVars>>
    BY Zenon, <1>7 DEF Upload
  <2>2. ws' \in [Backups -> WriteSessions]
    BY Zenon, <1>7, UploadEffect, BecomesType
  <2>3. packs' \subseteq SUBSET Blobs
    BY Zenon, <1>0, <1>2, <2>1
  <2> QED BY Zenon, <2>1, <2>2, <2>3 DEF TypeOK
<1>8. CASE CommitLock(b)
  <2>1. /\ lock' = b \/ lock' = lock
        /\ pc' = [pc EXCEPT ![b] = "flush"] \/ pc' = [pc EXCEPT ![b] = "abort"]
        /\ UNCHANGED <<scenario, packVars, indexVars, snaps, markers, viewVars, ws, maintVars, auxVars>>
    BY Zenon, <1>8 DEF CommitLock
  <2> QED BY Zenon, <1>0, <1>1, <2>1 DEF TypeOK
<1>9. CASE CleanupRecovered(b)
  <2>1. /\ pc' = [pc EXCEPT ![b] = "deregHeld"]
        /\ UNCHANGED <<scenario, packs, indexVars, snaps, lockVars, viewVars, maintVars, auxVars>>
    BY Zenon, <1>9 DEF CleanupRecovered
  <2>2. ws' \in [Backups -> WriteSessions]
    BY Zenon, <1>9, CleanupEffect, BecomesType
  <2>3. \/ journals' = journals
        \/ \E gone : journals' = [o \in Backups |-> IF o \in gone THEN {} ELSE journals[o]]
    BY Zenon, <1>9 DEF CleanupRecovered
  <2>4. journals' \in [Backups -> SUBSET SUBSET Blobs]
    BY Zenon, <1>0, <2>3
  <2> QED BY Zenon, <1>1, <2>1, <2>2, <2>4 DEF TypeOK
<1>10. CASE ClearJournal(b)
  <2>1. /\ pc' = [pc EXCEPT ![b] = "done"]
        /\ UNCHANGED <<scenario, packs, indexVars, snaps, lockVars, viewVars, ws, maintVars, auxVars>>
    BY Zenon, <1>10 DEF ClearJournal
  <2>2. \/ journals' = [journals EXCEPT ![b] = {}]
        \/ journals' = [journals EXCEPT ![b] = journals[b]]
    BY Zenon, <1>10 DEF ClearJournal
  <2>3. journals' \in [Backups -> SUBSET SUBSET Blobs]
    BY Zenon, <1>0, <2>2
  <2> QED BY Zenon, <1>1, <2>1, <2>3 DEF TypeOK
<1>11. CASE FlushOnAbort(b)
  <2>1. /\ pc' = [pc EXCEPT ![b] = "dereg"]
        /\ UNCHANGED <<scenario, indexVars, snaps, lock, viewVars, maintVars, auxVars>>
    BY Zenon, <1>11 DEF FlushOnAbort
  <2>2. ws' \in [Backups -> WriteSessions]
    BY Zenon, <1>11, AbortEffect, BecomesType
  <2>3. packs' \in SUBSET SUBSET Blobs /\ journals' \in [Backups -> SUBSET SUBSET Blobs]
    BY Zenon, <1>11, AbortEffect
  <2>4. markers' \in SUBSET Sessions
    BY Zenon, <1>0, <1>11 DEF FlushOnAbort
  <2> QED BY Zenon, <1>1, <2>1, <2>2, <2>3, <2>4 DEF TypeOK
<1> QED
  BY Zenon, <1>3, <1>4, <1>5, <1>6, <1>7, <1>8, <1>9, <1>10, <1>11

LEMMA CommitTypes ==
  ASSUME TypeOK, NEW b \in Backups,
         FlushPacks(b) \/ RefreshNames(b) \/ FetchIndex(b) \/ PutIndex(b) \/ PutSnapshot(b)
  PROVE  TypeOK'
<1> USE DEF Goto, Fail, packVars, indexVars, lockVars, viewVars, maintVars, auxVars
<1>0. /\ b \in Procs /\ ws[b] \in WriteSessions
      /\ journals \in [Backups -> SUBSET SUBSET Blobs]
      /\ listed \in [Procs -> SUBSET Snapshots] /\ snaps \in SUBSET Snapshots
      /\ view \in [Procs -> Indices] /\ index \in Indices /\ gen \in Nat
  BY Zenon DEF TypeOK, Procs, Sessions
<1>1. \A l \in {"deregHeld", "names", "putSnapshot", "fetch", "putIndex", "cleanup"} :
        [pc EXCEPT ![b] = l] \in [Procs -> Phases]
  BY Zenon DEF TypeOK, Phases
<1>2. /\ ws[b].journal \in SUBSET SUBSET Blobs /\ ws[b].new \in Indices
      /\ ws[b].bumps \in Counts /\ ws[b].refs \in Counts
  BY Zenon, <1>0 DEF WriteSessions
<1>3. CASE FlushPacks(b)
  <2>1. /\ pc' = [pc EXCEPT ![b] = "deregHeld"] \/ pc' = [pc EXCEPT ![b] = "names"]
        /\ UNCHANGED <<scenario, packs, indexVars, snaps, lockVars, viewVars, ws, maintVars, auxVars>>
    BY Zenon, <1>3 DEF FlushPacks
  <2>2. \/ journals' = journals
        \/ journals' = [journals EXCEPT ![b] = ws[b].journal]
        \/ journals' = [journals EXCEPT ![b] = journals[b]]
    BY Zenon, <1>3 DEF FlushPacks
  <2>3. journals' \in [Backups -> SUBSET SUBSET Blobs]
    BY Zenon, <1>0, <1>2, <2>2
  <2> QED BY Zenon, <1>1, <2>1, <2>3 DEF TypeOK
<1>4. CASE RefreshNames(b)
  <2>1. /\ \E l \in {"deregHeld", "putSnapshot", "fetch"} : pc' = [pc EXCEPT ![b] = l]
        /\ listed' = [listed EXCEPT ![b] = snaps]
        /\ UNCHANGED <<scenario, packVars, indexVars, snaps, lockVars, view, viewGen, ws, maintVars,
                       auxVars>>
    BY Zenon, <1>4 DEF RefreshNames
  <2>2. listed' \in [Procs -> SUBSET Snapshots]
    BY Zenon, <1>0, <2>1
  <2> QED BY ZenonT(30), <1>1, <2>1, <2>2 DEF TypeOK
<1>5. CASE FetchIndex(b)
  <2> DEFINE new == ws[b].new
             bumps == ws[b].bumps
  <2>1. view[b] \in Indices
    BY Zenon, <1>0
  <2>2. /\ MergedCache(new, bumps, view[b]) \in Indices
        /\ Reconciled(new, bumps, index) \in Indices
    BY Zenon, <1>0, <1>2, <2>1, MergedIsIndex, ReconciledIsIndex
  <2>3. \/ UNCHANGED view
        \/ view' = [view EXCEPT ![b] = MergedCache(new, bumps, view[b])]
        \/ view' = [view EXCEPT ![b] = Reconciled(new, bumps, index)]
    BY Zenon, <1>5 DEF FetchIndex
  <2>4. /\ pc' = [pc EXCEPT ![b] = "putIndex"] \/ pc' = [pc EXCEPT ![b] = "deregHeld"]
        /\ UNCHANGED <<scenario, packVars, indexVars, snaps, lockVars, listed, viewGen, ws,
                       maintVars, auxVars>>
    BY Zenon, <1>5 DEF FetchIndex
  <2> HIDE DEF new, bumps
  <2>5. view' \in [Procs -> Indices]
    BY Zenon, <1>0, <2>2, <2>3
  <2> QED BY Zenon, <1>1, <2>4, <2>5 DEF TypeOK
<1>6. CASE PutIndex(b)
  <2>1. /\ pc' = [pc EXCEPT ![b] = "putSnapshot"] \/ pc' = [pc EXCEPT ![b] = "deregHeld"]
        /\ (index' = view[b] /\ gen' = gen + 1) \/ (index' = index /\ gen' = gen)
        /\ UNCHANGED <<scenario, packVars, snaps, lockVars, viewVars, ws, maintVars, auxVars>>
    BY Zenon, <1>6 DEF PutIndex
  <2>2. index' \in Indices /\ gen' \in Nat
    BY <1>0, <2>1
  <2> QED BY Zenon, <1>1, <2>1, <2>2 DEF TypeOK
<1>7. CASE PutSnapshot(b)
  <2> DEFINE made == [id |-> b, name |-> scenario.names[b], refs |-> ws[b].refs]
  <2>1. /\ pc' = [pc EXCEPT ![b] = "cleanup"] \/ pc' = [pc EXCEPT ![b] = "deregHeld"]
        /\ snaps' = snaps \cup {made} \/ snaps' = snaps
        /\ UNCHANGED <<scenario, packVars, indexVars, lockVars, viewVars, ws, maintVars, auxVars>>
    BY Zenon, <1>7 DEF PutSnapshot
  <2>2. scenario.names[b] \in Names
    BY RepositoryAssumption DEF TypeOK
  <2>3. made \in Snapshots
    BY Zenon, <1>2, <2>2 DEF Snapshots
  <2> HIDE DEF made
  <2>4. snaps' \in SUBSET Snapshots
    BY Zenon, <1>0, <2>1, <2>3
  <2> QED BY Zenon, <1>1, <2>1, <2>4 DEF TypeOK
<1> QED
  BY Zenon, <1>3, <1>4, <1>5, <1>6, <1>7

LEMMA MaintenanceTypes ==
  ASSUME CountingLaws, TypeOK, NEW m \in Maints, MaintenanceStep(m),
         pc[m] = "save" /\ lock = m => IsFiniteSet(targets[m])
  PROVE  TypeOK'
<1> USE DEF Goto, packVars, indexVars, lockVars, viewVars, maintVars, auxVars
<1> DEFINE Plans == SUBSET [pack : SUBSET Blobs, live : SUBSET Chunks]
<1>0. /\ m \in Procs
      /\ packs \subseteq SUBSET Blobs /\ journals \in [Backups -> SUBSET SUBSET Blobs]
      /\ snaps \in SUBSET Snapshots /\ markers \in SUBSET Sessions /\ reaped \in SUBSET Sessions
      /\ index \in Indices /\ gen \in Nat /\ view \in [Procs -> Indices]
      /\ listed \in [Procs -> SUBSET Snapshots]
      /\ targets \in [Maints -> SUBSET Snapshots] /\ left \in [Maints -> SUBSET Snapshots]
      /\ todo \in [Maints -> Plans] /\ work \in [Maints -> SUBSET Blobs]
  BY Zenon DEF TypeOK, Procs
<1>1. \A l \in {"work", "done", "delete", "save", "release", "repack", "saveIndex", "deleteOld"} :
        [pc EXCEPT ![m] = l] \in [Procs -> Phases]
  BY ZenonT(30) DEF TypeOK, Phases
<1>2. CASE MaintenanceLock(m)
  <2>1. UNCHANGED <<scenario, packs, indexVars, snaps, viewVars, ws, maintVars, crashes, losses>>
    BY Zenon, <1>2 DEF MaintenanceLock
  <2>2. /\ \E stale \in SUBSET markers : markers' = markers \ stale /\ reaped' = reaped \cup stale
        /\ \E gone : journals' = [o \in Backups |-> IF o \in gone THEN {} ELSE journals[o]]
        /\ \/ lock' = m /\ pc' = [pc EXCEPT ![m] = "work"]
           \/ lock' = lock /\ pc' = [pc EXCEPT ![m] = "done"]
    BY Zenon, <1>2 DEF MaintenanceLock, MaySeemStale
  <2>3. markers' \in SUBSET Sessions /\ reaped' \in SUBSET Sessions
    BY Zenon, <1>0, <2>2
  <2>4. journals' \in [Backups -> SUBSET SUBSET Blobs]
    BY Zenon, <1>0, <2>2
  <2> QED BY ZenonT(30), <1>0, <1>1, <2>1, <2>2, <2>3, <2>4 DEF TypeOK
<1>3. CASE MaintenanceRefused(m)
  <2>1. /\ pc' = [pc EXCEPT ![m] = "done"]
        /\ UNCHANGED <<scenario, packVars, indexVars, snaps, lockVars, viewVars, ws, maintVars, auxVars>>
    BY Zenon, <1>3 DEF MaintenanceRefused
  <2> QED BY Zenon, <1>1, <2>1 DEF TypeOK
<1>4. CASE ChooseTargets(m)
  <2>1. /\ pc' = [pc EXCEPT ![m] = "delete"] \/ pc' = [pc EXCEPT ![m] = "release"]
        /\ UNCHANGED <<scenario, packVars, indexVars, snaps, lockVars, viewVars, ws, todo, work, auxVars>>
    BY Zenon, <1>4 DEF ChooseTargets
  <2>2. \/ \E T \in SUBSET listed[m] :
             targets' = [targets EXCEPT ![m] = T] /\ left' = [left EXCEPT ![m] = T]
        \/ UNCHANGED <<targets, left>>
    BY Zenon, <1>4 DEF ChooseTargets
  <2>3. targets' \in [Maints -> SUBSET Snapshots] /\ left' \in [Maints -> SUBSET Snapshots]
    BY <1>0, <2>2
  <2> QED BY Zenon, <1>1, <2>1, <2>3 DEF TypeOK
<1>5. CASE DeleteSnapshot(m)
  <2>1. /\ \E l \in {"save", "delete", "release"} : pc' = [pc EXCEPT ![m] = l]
        /\ UNCHANGED <<scenario, packVars, indexVars, lockVars, viewVars, ws, targets, todo, work, auxVars>>
    BY Zenon, <1>5 DEF DeleteSnapshot
  <2>2. \/ \E s : snaps' = snaps \ {s} /\ left' = [left EXCEPT ![m] = left[m] \ {s}]
        \/ UNCHANGED <<snaps, left>>
    BY Zenon, <1>5 DEF DeleteSnapshot
  <2>3. snaps' \in SUBSET Snapshots /\ left' \in [Maints -> SUBSET Snapshots]
    BY Zenon, <1>0, <2>2
  <2>4. pc' \in [Procs -> Phases]
    BY <1>1, <2>1
  <2> QED BY Zenon, <2>1, <2>3, <2>4 DEF TypeOK
<1>6. CASE SaveDecremented(m)
  <2>1. ASSUME lock = m PROVE DecrementTargets(m) \in Indices
    <3> DEFINE n == [c \in Chunks |-> RefsTo(targets[m], c)]
    <3>1. IsFiniteSet(targets[m]) /\ targets[m] \in SUBSET Snapshots /\ view[m] \in Indices
      BY Zenon, <1>0, <1>6, <2>1 DEF SaveDecremented
    <3>2. ASSUME NEW c \in Chunks PROVE RefsTo(targets[m], c) \in Nat
      <4>1. \A s \in targets[m] : s.refs[c] \in Nat
        BY Zenon, <3>1 DEF Snapshots, Counts
      <4> QED BY Zenon, <3>1, <4>1, RefsToType DEF Counting
    <3>3. n \in Counts
      BY Zenon, <3>2 DEF Counts
    <3> HIDE DEF n
    <3>4. Decremented(view[m], n) \in Indices
      BY Zenon, <3>1, <3>3, DecrementedIsIndex
    <3> QED BY Zenon, <3>4 DEF DecrementTargets, n
  <2>2. /\ \/ lock = m /\ index' = DecrementTargets(m) /\ gen' = gen + 1
           \/ UNCHANGED indexVars
        /\ pc' = [pc EXCEPT ![m] = "release"]
        /\ UNCHANGED <<scenario, packVars, snaps, lockVars, viewVars, ws, maintVars, auxVars>>
    BY Zenon, <1>6 DEF SaveDecremented
  <2>3. index' \in Indices /\ gen' \in Nat
    BY <1>0, <2>1, <2>2
  <2> QED BY Zenon, <1>1, <2>2, <2>3 DEF TypeOK
<1>7. CASE Analyse(m)
  <2>1. /\ pc' = [pc EXCEPT ![m] = "repack"] \/ pc' = [pc EXCEPT ![m] = "release"]
        /\ UNCHANGED <<scenario, packVars, indexVars, snaps, lockVars, viewVars, ws, targets, left,
                       work, auxVars>>
    BY Zenon, <1>7 DEF Analyse
  <2>2. PICK Q \in SUBSET {[pack |-> p, live |-> LiveIn(view[m], p)] : p \in packs} :
          todo' = [todo EXCEPT ![m] = Q]
    BY Zenon, <1>7 DEF Analyse
  <2>3. \A p \in packs : [pack |-> p, live |-> LiveIn(view[m], p)]
                           \in [pack : SUBSET Blobs, live : SUBSET Chunks]
    BY Zenon, <1>0 DEF LiveIn, Indexed
  <2>4. Q \in Plans
    BY ZenonT(30), <2>3
  <2> HIDE DEF Plans
  <2>5. todo' \in [Maints -> Plans]
    BY Zenon, <1>0, <2>2, <2>4
  <2> QED BY Zenon, <1>1, <2>1, <2>5 DEF TypeOK, Plans
<1>8. CASE DeleteOrphan(m)
  <2>1. /\ \E a : packs' = packs \ {a.pack} /\ todo' = [todo EXCEPT ![m] = todo[m] \ {a}]
        /\ UNCHANGED <<scenario, journals, indexVars, snaps, lockVars, pc, viewVars, ws, targets,
                       left, work, auxVars>>
    BY Zenon, <1>8 DEF DeleteOrphan
  <2>2. packs' \subseteq SUBSET Blobs /\ todo' \in [Maints -> Plans]
    BY Zenon, <1>0, <2>1
  <2> QED BY Zenon, <2>1, <2>2 DEF TypeOK
<1>9. CASE WriteRepacked(m)
  <2>1. UNCHANGED <<scenario, journals, indexVars, snaps, lockVars, listed, viewGen, ws, targets,
                    left, auxVars>>
    BY Zenon, <1>9 DEF WriteRepacked
  <2>2. PICK a \in todo[m] :
          LET pack == {blob \in a.pack : blob[1] \in a.live}
          IN  /\ \/ /\ packs' = packs \cup {pack}
                    /\ view' = [view EXCEPT ![m] = Relocated(view[m], a.live, pack)]
                    /\ work' = [work EXCEPT ![m] = a.pack]
                    /\ todo' = [todo EXCEPT ![m] = todo[m] \ {a}]
                 \/ UNCHANGED <<packs, view, work, todo>>
              /\ pc' = [pc EXCEPT ![m] = "saveIndex"] \/ pc' = [pc EXCEPT ![m] = "release"]
    BY Zenon, <1>9 DEF WriteRepacked
  <2> DEFINE pack == {blob \in a.pack : blob[1] \in a.live}
  <2>3. a \in [pack : SUBSET Blobs, live : SUBSET Chunks] /\ view[m] \in Indices
    BY Zenon, <1>0
  <2>4. a.pack \in SUBSET Blobs /\ pack \in SUBSET Blobs /\ a.live \in SUBSET Chunks
    BY Zenon, <2>3
  <2> HIDE DEF pack
  <2>5. Relocated(view[m], a.live, pack) \in Indices
    BY Zenon, <2>3, <2>4, RelocatedIsIndex
  <2>6. \/ /\ packs' = packs \cup {pack}
           /\ view' = [view EXCEPT ![m] = Relocated(view[m], a.live, pack)]
           /\ work' = [work EXCEPT ![m] = a.pack]
           /\ todo' = [todo EXCEPT ![m] = todo[m] \ {a}]
        \/ UNCHANGED <<packs, view, work, todo>>
    BY Zenon, <2>2 DEF pack
  <2>7. /\ packs' \subseteq SUBSET Blobs /\ view' \in [Procs -> Indices]
        /\ work' \in [Maints -> SUBSET Blobs] /\ todo' \in [Maints -> Plans]
    BY <1>0, <2>4, <2>5, <2>6
  <2> QED BY Zenon, <1>1, <2>1, <2>2, <2>7 DEF TypeOK
<1>10. CASE SaveRelocated(m)
  <2>1. /\ pc' = [pc EXCEPT ![m] = "deleteOld"] \/ pc' = [pc EXCEPT ![m] = "release"]
        /\ (index' = view[m] /\ gen' = gen + 1) \/ UNCHANGED indexVars
        /\ UNCHANGED <<scenario, packVars, snaps, lockVars, viewVars, ws, maintVars, auxVars>>
    BY Zenon, <1>10 DEF SaveRelocated
  <2>2. index' \in Indices /\ gen' \in Nat
    BY <1>0, <2>1
  <2> QED BY Zenon, <1>1, <2>1, <2>2 DEF TypeOK
<1>11. CASE DeleteOld(m)
  <2>1. /\ pc' = [pc EXCEPT ![m] = "repack"] \/ pc' = [pc EXCEPT ![m] = "release"]
        /\ packs' = packs \ {work[m]} \/ UNCHANGED packs
        /\ work' = [work EXCEPT ![m] = {}]
        /\ UNCHANGED <<scenario, journals, indexVars, snaps, lockVars, viewVars, ws, targets, left,
                       todo, auxVars>>
    BY Zenon, <1>11 DEF DeleteOld
  <2>2. packs' \subseteq SUBSET Blobs /\ work' \in [Maints -> SUBSET Blobs]
    BY Zenon, <1>0, <2>1
  <2> QED BY Zenon, <1>1, <2>1, <2>2 DEF TypeOK
<1>12. CASE EndCompact(m)
  <2>1. /\ pc' = [pc EXCEPT ![m] = "release"]
        /\ UNCHANGED <<scenario, packVars, indexVars, snaps, lockVars, viewVars, ws, maintVars, auxVars>>
    BY Zenon, <1>12 DEF EndCompact
  <2> QED BY Zenon, <1>1, <2>1 DEF TypeOK
<1> QED
  BY Zenon, <1>2, <1>3, <1>4, <1>5, <1>6, <1>7, <1>8, <1>9, <1>10, <1>11, <1>12 DEF MaintenanceStep

--------------------------------------------------------------------------------

LEMMA KindOf ==
  /\ \A r \in Readers : r \in Procs /\ r \in Sessions /\ r \notin Backups /\ r \notin Maints
                        /\ PhasesOf(r) = ReaderAt
  /\ \A b \in Backups : b \in Procs /\ b \in Sessions /\ b \notin Readers /\ b \notin Maints
                        /\ PhasesOf(b) = BackupAt
  /\ \A m \in Maints : m \in Procs /\ m \notin Readers /\ m \notin Backups /\ m \notin Sessions
  /\ \A m \in Compacts : m \in Maints /\ PhasesOf(m) = CompactAt
  /\ \A m \in Deletes \cup Prunes : m \in Maints /\ m \notin Compacts /\ PhasesOf(m) = RemoverAt
  /\ None \notin Procs
BY Zenon, RepositoryAssumption DEF Procs, Sessions, Maints, PhasesOf

LEMMA SessionCounts ==
  ASSUME NEW w, w \in WriteSessions
  PROVE  /\ \A c \in Chunks : /\ w.new[c].refs \in Nat /\ w.bumps[c] \in Nat
                              /\ w.writer[c] \in Nat /\ w.refs[c] \in Nat
         /\ DOMAIN w.bumps = Chunks /\ DOMAIN w.writer = Chunks /\ DOMAIN w.refs = Chunks
         /\ DOMAIN w.new = Chunks /\ DOMAIN w.recovered = Chunks
BY Zenon DEF WriteSessions, Counts, Indices

LEMMA SnapsCount ==
  ASSUME CountingLaws, CountsInv, NEW c \in Chunks
  PROVE  Counting(snaps, c) /\ RefsTo(snaps, c) \in Nat /\ index[c].refs \in Nat
         /\ index[c].refs >= RefsTo(snaps, c)
<1>1. Counting(snaps, c)
  BY Zenon DEF Counting, CountsInv, TypeOK, Snapshots, Counts
<1>2. index[c].refs \in Nat
  BY Zenon, IndexEntries DEF CountsInv, TypeOK
<1>3. index[c].refs >= RefsTo(snaps, c)
  BY Zenon DEF CountsInv, RefcountsCover
<1> QED BY Zenon, <1>1, <1>2, <1>3, RefsToType

\* The two ways to the new index at "fetch".
LEMMA FastPathSafe ==
  ASSUME CountsInv, NEW b \in Backups, pc[b] = "fetch", gen = viewGen[b]
  PROVE  /\ StaleChunks(ws[b].new, ws[b].bumps, index) = {}
         /\ MergedCache(ws[b].new, ws[b].bumps, view[b])
              = Reconciled(ws[b].new, ws[b].bumps, index)
<1>1. /\ SessionLocal(b) /\ GenLocal(b) /\ index \in Indices /\ ws[b] \in WriteSessions
  BY Zenon DEF CountsInv, TypeOK
<1>2. view[b] = index
  BY Zenon, <1>1 DEF GenLocal, Uploading
<1>3. ws[b].new \in Indices /\ ws[b].bumps \in Counts
  BY Zenon, <1>1 DEF WriteSessions
<1>4. IsIndex(ws[b].new) /\ IsIndex(index)
  BY Zenon, <1>1, <1>3, IndexEntries
<1>5. \A c \in Chunks : /\ ws[b].new[c].refs > 0 => index[c].refs = 0
                        /\ ws[b].bumps[c] > 0 => index[c].refs > 0 \/ ws[b].new[c].refs > 0
  BY Zenon, <1>1, <1>2 DEF SessionLocal, Uploading
<1>6. Indexed(ws[b].new) \cap Indexed(index) = {}
  BY <1>5 DEF Indexed
<1>7. StaleChunks(ws[b].new, ws[b].bumps, index) = {}
  BY Zenon, <1>5 DEF StaleChunks, Counted, Indexed
<1> QED BY Zenon, <1>2, <1>3, <1>4, <1>6, <1>7, FastPathEqualsSlowPath

--------------------------------------------------------------------------------
(***************************************************************************)
(* Names of snapshots stay unique.  A backup that holds the lock and has   *)
(* checked its name goes on to write its snapshot; until then nobody else  *)
(* can add a snapshot, since that takes the lock, and a lock that was lost *)
(* never comes back to a backup that has checked its name.                 *)
(***************************************************************************)

\* A backup that has checked its name under the lock and still has the lock.
NameChecked(b) == lock = b /\ pc[b] \in {"fetch", "putIndex", "putSnapshot"}

NamesInv ==
    /\ DOMAIN pc = Procs
    /\ UniqueNames
    /\ \A b \in Backups : NameChecked(b) => ~NameTaken(b, snaps)

LEMMA NamesInitial == Init => NamesInv
<1> SUFFICES ASSUME Init PROVE NamesInv
  BY Zenon
<1>1. DOMAIN pc = Procs
  BY Zenon DEF Init
<1>2. UniqueNames
  BY Zenon DEF Init, UniqueNames
<1>3. \A b \in Backups : ~NameChecked(b)
  BY Zenon, RepositoryAssumption DEF Init, NameChecked, Procs, Sessions
<1> QED
  BY Zenon, <1>1, <1>2, <1>3 DEF NamesInv

\* A step of p that adds no snapshot and does not pass the check.
LEMMA MoveKeeps ==
  ASSUME NamesInv, NEW p \in Procs, NEW l, l \notin {"fetch", "putIndex", "putSnapshot"},
         pc' = [pc EXCEPT ![p] = l], lock' \in {lock, None, p},
         snaps' \subseteq snaps, scenario' = scenario
  PROVE  NamesInv'
<1>1. DOMAIN pc' = Procs /\ \A q \in Procs : pc'[q] = IF q = p THEN l ELSE pc[q]
  BY Zenon DEF NamesInv
<1>2. \A b \in Backups : NameChecked(b)' => NameChecked(b)
  BY Zenon, <1>1, RepositoryAssumption DEF NameChecked, Procs, Sessions
<1> QED
  BY Zenon, <1>1, <1>2 DEF NamesInv, UniqueNames, NameTaken

\* A step that moves nobody.
LEMMA StayKeeps ==
  ASSUME NamesInv, pc' = pc, lock' \in {lock, None}, snaps' \subseteq snaps, scenario' = scenario
  PROVE  NamesInv'
<1>1. \A b \in Backups : NameChecked(b)' => NameChecked(b)
  BY Zenon, RepositoryAssumption DEF NameChecked, Procs, Sessions
<1> QED
  BY Zenon, <1>1 DEF NamesInv, UniqueNames, NameTaken

\* Opening and leaving a repository, reading.
LEMMA CommonKeeps ==
  ASSUME NamesInv, NEW p \in Procs,
         \/ ListSnapshots(p) \/ LoadIndex(p) \/ Release(p) \/ Crash(p)
         \/ Register(p) \/ Deregister(p) \/ RefreshMarker(p) \/ EndRead(p)
  PROVE  NamesInv'
<1> USE DEF Goto, lockVars
<1>1. CASE ListSnapshots(p)
  BY Zenon, <1>1, MoveKeeps DEF ListSnapshots
<1>2. CASE LoadIndex(p)
  <2>1. PICK l \in {"read", "lock", "dereg", "recover"} : pc' = [pc EXCEPT ![p] = l]
    BY Zenon, <1>2 DEF LoadIndex
  <2> QED BY Zenon, <1>2, <2>1, MoveKeeps DEF LoadIndex
<1>3. CASE Release(p)
  <2>1. PICK l \in {"done", "clear", "abort"} : pc' = [pc EXCEPT ![p] = l]
    BY Zenon, <1>3 DEF Release
  <2> QED BY Zenon, <1>3, <2>1, MoveKeeps DEF Release
<1>4. CASE Crash(p)
  BY Zenon, <1>4, MoveKeeps DEF Crash
<1>5. CASE Register(p)
  BY Zenon, <1>5, MoveKeeps DEF Register
<1>6. CASE Deregister(p)
  <2>1. PICK l \in {"release", "done"} : pc' = [pc EXCEPT ![p] = l]
    BY Zenon, <1>6 DEF Deregister
  <2> QED BY Zenon, <1>6, <2>1, MoveKeeps DEF Deregister
<1>7. CASE RefreshMarker(p)
  BY Zenon, <1>7, StayKeeps DEF RefreshMarker
<1>8. CASE EndRead(p)
  BY Zenon, <1>8, MoveKeeps DEF EndRead
<1> QED
  BY Zenon, <1>1, <1>2, <1>3, <1>4, <1>5, <1>6, <1>7, <1>8

\* The upload phase of a backup, and its ways out.
LEMMA UploadKeeps ==
  ASSUME NamesInv, NEW b \in Backups,
         \/ Recover(b) \/ Seal(b) \/ EndUpload(b)
         \/ \E c \in Chunks : StoreChunk(b, c)
         \/ \E p \in ws[b].inflight : Upload(b, p)
         \/ CommitLock(b) \/ CleanupRecovered(b) \/ ClearJournal(b) \/ FlushOnAbort(b)
  PROVE  NamesInv'
<1> USE DEF Goto, lockVars
<1>0. b \in Procs
  BY Zenon DEF Procs, Sessions
<1>1. CASE Recover(b)
  <2>1. pc' = [pc EXCEPT ![b] = "upload"] /\ UNCHANGED <<scenario, snaps, lock>>
    BY <1>1, Zenon DEF Recover
  <2> QED BY Zenon, <1>0, <2>1, MoveKeeps
<1>2. CASE Seal(b)
  <2>1. UNCHANGED <<scenario, snaps, lock, pc>>
    BY <1>2, Zenon DEF Seal
  <2> QED BY Zenon, <2>1, StayKeeps
<1>3. CASE EndUpload(b)
  BY Zenon, <1>0, <1>3, MoveKeeps DEF EndUpload
<1>4. ASSUME NEW c \in Chunks, StoreChunk(b, c) PROVE NamesInv'
  <2>1. UNCHANGED <<scenario, snaps, lock, pc>>
    BY <1>4, Zenon DEF StoreChunk
  <2> QED BY Zenon, <2>1, StayKeeps
<1>5. ASSUME NEW p \in ws[b].inflight, Upload(b, p) PROVE NamesInv'
  <2>1. UNCHANGED <<scenario, snaps, lock, pc>>
    BY <1>5, Zenon DEF Upload
  <2> QED BY Zenon, <2>1, StayKeeps
<1>6. CASE CommitLock(b)
  BY Zenon, <1>0, <1>6, MoveKeeps DEF CommitLock
<1>7. CASE CleanupRecovered(b)
  <2>1. pc' = [pc EXCEPT ![b] = "deregHeld"] /\ UNCHANGED <<scenario, snaps, lock>>
    BY <1>7, Zenon DEF CleanupRecovered
  <2> QED BY Zenon, <1>0, <2>1, MoveKeeps
<1>8. CASE ClearJournal(b)
  <2>1. pc' = [pc EXCEPT ![b] = "done"] /\ UNCHANGED <<scenario, snaps, lock>>
    BY <1>8, Zenon DEF ClearJournal
  <2> QED BY Zenon, <1>0, <2>1, MoveKeeps
<1>9. CASE FlushOnAbort(b)
  <2>1. pc' = [pc EXCEPT ![b] = "dereg"] /\ UNCHANGED <<scenario, snaps, lock>>
    BY <1>9, Zenon DEF FlushOnAbort
  <2> QED BY Zenon, <1>0, <2>1, MoveKeeps
<1> QED
  BY Zenon, <1>1, <1>2, <1>3, <1>4, <1>5, <1>6, <1>7, <1>8, <1>9

\* The commit: the check, and what follows it.
LEMMA CommitKeeps ==
  ASSUME NamesInv, NEW b \in Backups,
         FlushPacks(b) \/ RefreshNames(b) \/ FetchIndex(b) \/ PutIndex(b) \/ PutSnapshot(b)
  PROVE  NamesInv'
<1> USE DEF Goto, Fail, lockVars
<1>0. b \in Procs
  BY Zenon DEF Procs, Sessions
<1>1. CASE FlushPacks(b)
  <2>1. PICK l \in {"deregHeld", "names"} : pc' = [pc EXCEPT ![b] = l]
    BY <1>1, Zenon DEF FlushPacks
  <2>2. UNCHANGED <<scenario, snaps, lock>>
    BY <1>1, Zenon DEF FlushPacks
  <2> QED BY Zenon, <1>0, <2>1, <2>2, MoveKeeps
<1>2. CASE RefreshNames(b)
  <2>1. UNCHANGED <<scenario, snaps, lock>>
    BY Zenon, <1>2 DEF RefreshNames
  <2>2. CASE NameTaken(b, snaps)
    BY Zenon, <1>0, <1>2, <2>1, <2>2, MoveKeeps DEF RefreshNames
  <2>3. CASE ~NameTaken(b, snaps)
    <3>1. \A o \in Backups : NameChecked(o)' => NameChecked(o) \/ o = b
      BY Zenon, <1>2, <2>1 DEF RefreshNames, NameChecked, NamesInv, Procs, Sessions
    <3>2. DOMAIN pc' = Procs
      BY Zenon, <1>2 DEF RefreshNames, NamesInv
    <3> QED BY Zenon, <2>1, <2>3, <3>1, <3>2 DEF NamesInv, UniqueNames, NameTaken
  <2> QED BY Zenon, <2>2, <2>3
<1>3. CASE FetchIndex(b)
  <2>1. UNCHANGED <<scenario, snaps, lock>> /\ pc[b] = "fetch"
    BY <1>3, Zenon DEF FetchIndex
  <2>2. PICK l : pc' = [pc EXCEPT ![b] = l]
    BY <1>3, Zenon DEF FetchIndex
  <2>3. \A o \in Backups : NameChecked(o)' => NameChecked(o)
    BY Zenon, <2>1, <2>2 DEF NameChecked, NamesInv, Procs, Sessions
  <2>4. DOMAIN pc' = Procs
    BY Zenon, <2>2 DEF NamesInv
  <2> QED BY Zenon, <2>1, <2>3, <2>4 DEF NamesInv, UniqueNames, NameTaken
<1>4. CASE PutIndex(b)
  <2>1. UNCHANGED <<scenario, snaps, lock>> /\ pc[b] = "putIndex"
    BY <1>4, Zenon DEF PutIndex
  <2>2. PICK l : pc' = [pc EXCEPT ![b] = l]
    BY <1>4, Zenon DEF PutIndex
  <2>3. \A o \in Backups : NameChecked(o)' => NameChecked(o)
    BY Zenon, <2>1, <2>2 DEF NameChecked, NamesInv, Procs, Sessions
  <2>4. DOMAIN pc' = Procs
    BY Zenon, <2>2 DEF NamesInv
  <2> QED BY Zenon, <2>1, <2>3, <2>4 DEF NamesInv, UniqueNames, NameTaken
<1>5. CASE PutSnapshot(b)
  <2> DEFINE s == [id |-> b, name |-> scenario.names[b], refs |-> ws[b].refs]
  <2>1. PICK l \in {"cleanup", "deregHeld"} : pc' = [pc EXCEPT ![b] = l]
    BY <1>5, Zenon DEF PutSnapshot
  <2>2. UNCHANGED <<scenario, lock>> /\ pc[b] = "putSnapshot"
    BY <1>5, Zenon DEF PutSnapshot
  <2>3. CASE UNCHANGED snaps
    BY Zenon, <1>0, <2>1, <2>2, <2>3, MoveKeeps
  <2>4. CASE lock = b /\ snaps' = snaps \cup {s}
    <3>1. s.name = scenario.names[b]
      BY Zenon
    <3>2. ~NameTaken(b, snaps)
      BY Zenon, <2>2, <2>4 DEF NamesInv, NameChecked
    <3>3. UniqueNames'
      <4> HIDE DEF s
      <4> QED BY Zenon, <2>2, <2>4, <3>1, <3>2 DEF NamesInv, UniqueNames, NameTaken
    <3>4. DOMAIN pc' = Procs /\ pc'[b] = l
      BY Zenon, <1>0, <2>1 DEF NamesInv
    <3>5. \A o \in Backups : ~NameChecked(o)'
      BY Zenon, <2>1, <2>2, <2>4, <3>4 DEF NameChecked
    <3> QED BY Zenon, <3>3, <3>4, <3>5 DEF NamesInv
  <2> QED BY <1>5, <2>3, <2>4, Zenon DEF PutSnapshot
<1> QED
  BY Zenon, <1>1, <1>2, <1>3, <1>4, <1>5

\* Delete, prune and compact: snapshots are only removed.
LEMMA MaintenanceKeeps ==
  ASSUME NamesInv, NEW m \in Maints, MaintenanceStep(m)
  PROVE  NamesInv'
<1> USE DEF Goto, lockVars
<1>0. m \in Procs
  BY Zenon DEF Procs
<1>1. CASE MaintenanceLock(m)
  <2>1. PICK l \in {"work", "done"} : pc' = [pc EXCEPT ![m] = l]
    BY <1>1, Zenon DEF MaintenanceLock
  <2>2. UNCHANGED <<scenario, snaps>> /\ lock' \in {lock, None, m}
    BY Zenon, <1>1 DEF MaintenanceLock
  <2> QED BY Zenon, <1>0, <2>1, <2>2, MoveKeeps
<1>2. CASE MaintenanceRefused(m)
  BY Zenon, <1>0, <1>2, MoveKeeps DEF MaintenanceRefused
<1>3. CASE ChooseTargets(m)
  <2>1. PICK l \in {"delete", "release"} : pc' = [pc EXCEPT ![m] = l]
    BY <1>3, Zenon DEF ChooseTargets
  <2>2. UNCHANGED <<scenario, snaps, lock>>
    BY <1>3, Zenon DEF ChooseTargets
  <2> QED BY Zenon, <1>0, <2>1, <2>2, MoveKeeps
<1>4. CASE DeleteSnapshot(m)
  <2>1. PICK l \in {"save", "delete", "release"} : pc' = [pc EXCEPT ![m] = l]
    BY <1>4, Zenon DEF DeleteSnapshot
  <2>2. UNCHANGED <<scenario, lock>> /\ snaps' \subseteq snaps
    BY Zenon, <1>4 DEF DeleteSnapshot
  <2> QED BY Zenon, <1>0, <2>1, <2>2, MoveKeeps
<1>5. CASE SaveDecremented(m)
  <2>1. pc' = [pc EXCEPT ![m] = "release"] /\ UNCHANGED <<scenario, snaps, lock>>
    BY <1>5, Zenon DEF SaveDecremented
  <2> QED BY Zenon, <1>0, <2>1, MoveKeeps
<1>6. CASE Analyse(m)
  <2>1. PICK l \in {"repack", "release"} : pc' = [pc EXCEPT ![m] = l]
    BY <1>6, Zenon DEF Analyse
  <2>2. UNCHANGED <<scenario, snaps, lock>>
    BY <1>6, Zenon DEF Analyse
  <2> QED BY Zenon, <1>0, <2>1, <2>2, MoveKeeps
<1>7. CASE DeleteOrphan(m)
  <2>1. UNCHANGED <<scenario, snaps, lock, pc>>
    BY <1>7, Zenon DEF DeleteOrphan
  <2> QED BY Zenon, <2>1, StayKeeps
<1>8. CASE WriteRepacked(m)
  <2>1. PICK l \in {"saveIndex", "release"} : pc' = [pc EXCEPT ![m] = l]
    BY <1>8, Zenon DEF WriteRepacked
  <2>2. UNCHANGED <<scenario, snaps, lock>>
    BY <1>8, Zenon DEF WriteRepacked
  <2> QED BY Zenon, <1>0, <2>1, <2>2, MoveKeeps
<1>9. CASE SaveRelocated(m)
  <2>1. PICK l \in {"deleteOld", "release"} : pc' = [pc EXCEPT ![m] = l]
    BY <1>9, Zenon DEF SaveRelocated
  <2>2. UNCHANGED <<scenario, snaps, lock>>
    BY <1>9, Zenon DEF SaveRelocated
  <2> QED BY Zenon, <1>0, <2>1, <2>2, MoveKeeps
<1>10. CASE DeleteOld(m)
  <2>1. PICK l \in {"repack", "release"} : pc' = [pc EXCEPT ![m] = l]
    BY <1>10, Zenon DEF DeleteOld
  <2>2. UNCHANGED <<scenario, snaps, lock>>
    BY <1>10, Zenon DEF DeleteOld
  <2> QED BY Zenon, <1>0, <2>1, <2>2, MoveKeeps
<1>11. CASE EndCompact(m)
  BY Zenon, <1>0, <1>11, MoveKeeps DEF EndCompact
<1> QED
  BY Zenon, <1>1, <1>2, <1>3, <1>4, <1>5, <1>6, <1>7, <1>8, <1>9, <1>10, <1>11 DEF MaintenanceStep

LEMMA NamesPreserved == NamesInv /\ [Next]_vars => NamesInv'
<1> SUFFICES ASSUME NamesInv, [Next]_vars PROVE NamesInv'
  BY Zenon
<1>1. ASSUME NEW p \in Procs, ListSnapshots(p) \/ LoadIndex(p) \/ Release(p) \/ Crash(p)
      PROVE  NamesInv'
  BY Zenon, <1>1, CommonKeeps
<1>2. ASSUME NEW s \in Sessions, Register(s) \/ Deregister(s) PROVE NamesInv'
  BY Zenon, <1>2, CommonKeeps DEF Procs
<1>3. ASSUME NEW b \in Backups, BackupStep(b) PROVE NamesInv'
  BY Zenon, <1>3, UploadKeeps, CommitKeeps DEF BackupStep
<1>4. ASSUME NEW r \in Readers, RefreshMarker(r) \/ EndRead(r) PROVE NamesInv'
  BY Zenon, <1>4, CommonKeeps DEF Procs, Sessions
<1>5. ASSUME NEW m \in Maints, MaintenanceStep(m) PROVE NamesInv'
  BY Zenon, <1>5, MaintenanceKeeps
<1>6. CASE LoseLock
  BY Zenon, <1>6, StayKeeps DEF LoseLock
<1>7. CASE Terminated \/ UNCHANGED vars
  BY Zenon, <1>7, StayKeeps DEF Terminated, vars
<1> QED
  BY Zenon, <1>1, <1>2, <1>3, <1>4, <1>5, <1>6, <1>7 DEF Next

(* For any number of backups, readers and maintenance commands and every   *)
(* scenario, with crashes, failing requests and lost locks: no two         *)
(* snapshots have the same name (the check of the name in                  *)
(* commit_concurrent_session, behind the lock and its fence).              *)
THEOREM SnapshotNamesUnique == Spec => []UniqueNames
<1>1. NamesInv => UniqueNames
  BY Zenon DEF NamesInv
<1> QED
  BY <1>1, NamesInitial, NamesPreserved, PTL DEF Spec
================================================================================
