------------------------------ MODULE IndexDelta -------------------------------
(***************************************************************************)
(* The chunk index and the deltas a backup session collects against it, as *)
(* pure operators.  An index maps every chunk to an entry; a chunk that is *)
(* not in the HashMap has the entry Absent, since no entry of the program  *)
(* ever has the refcount 0.  A delta is a pair of functions: the new       *)
(* entries (by chunk) and the refcount bumps.  Sizes and offsets inside a  *)
(* pack are left out: a pack identifies its blobs.                         *)
(***************************************************************************)
EXTENDS Naturals

CONSTANT Chunks     \* chunk ids

\* The entry of a chunk that is not in the index: no pack, no references.
Absent == [pack |-> {}, refs |-> 0]
EmptyIndex == [c \in Chunks |-> Absent]

\* Reference counts: the bumps of a delta, the references of a snapshot.
Counts == [Chunks -> Nat]
NoCounts == [c \in Chunks |-> 0]

\* ChunkIndex::contains, for all chunks
Indexed(ix) == {c \in Chunks : ix[c].refs > 0}

Counted(n) == {c \in Chunks : n[c] > 0}

\* ChunkIndex::add followed by increment_refcount_by(refcount - 1), for every
\* chunk with a new entry: an existing entry keeps its place.
AddEntries(ix, new) ==
    [c \in Chunks |->
        [pack |-> IF c \in Indexed(ix) THEN ix[c].pack ELSE new[c].pack,
         refs |-> ix[c].refs + new[c].refs]]

\* increment_refcount_by, for every bump: a chunk that is not there stays so.
\* (Mutant: a bump counts once, whatever its number.)
BumpEntriesOnce(ix, bumps) ==
    [c \in Chunks |->
        IF c \in Indexed(ix) /\ bumps[c] > 0 THEN [ix[c] EXCEPT !.refs = @ + 1] ELSE ix[c]]

BumpEntries(ix, bumps) ==
    [c \in Chunks |->
        IF c \in Indexed(ix) THEN [ix[c] EXCEPT !.refs = @ + bumps[c]] ELSE ix[c]]

\* decrement, n[c] times for every chunk: at zero the entry is removed.
Decremented(ix, n) ==
    [c \in Chunks |-> IF ix[c].refs <= n[c] THEN Absent
                      ELSE [ix[c] EXCEPT !.refs = @ - n[c]]]

\* update_location, for every chunk of moved
Relocated(ix, moved, pack) ==
    [c \in Chunks |-> IF c \in moved /\ c \in Indexed(ix)
                      THEN [ix[c] EXCEPT !.pack = pack] ELSE ix[c]]

\* IndexDelta::is_empty
DeltaEmpty(new, bumps) == Indexed(new) = {} /\ Counted(bumps) = {}

\* IndexDelta::reconcile: new entries that the fresh index has become bumps.
StillNew(new, fresh) ==
    [c \in Chunks |-> IF c \in Indexed(fresh) THEN Absent ELSE new[c]]

AllBumps(new, bumps, fresh) ==
    [c \in Chunks |-> bumps[c] + (IF c \in Indexed(fresh) THEN new[c].refs ELSE 0)]

\* A bump whose chunk is neither in the fresh index nor new: StaleChunksDuringCommit.
\* (Mutant: the targets of the bumps are not verified.)
StaleChunksUnverified(new, bumps, fresh) == {}

StaleChunks(new, bumps, fresh) ==
    Counted(bumps) \ (Indexed(fresh) \cup Indexed(new))

\* IndexDelta::apply_to
Applied(new, bumps, ix) == BumpEntries(AddEntries(ix, new), bumps)

\* The index a commit writes after reconciling.
Reconciled(new, bumps, fresh) ==
    Applied(StillNew(new, fresh), AllBumps(new, bumps, fresh), fresh)

\* merge_full_index_cache: the old entries and the new ones side by side; of two
\* entries for one chunk the later, new one is read back.
MergedCache(new, bumps, old) ==
    [c \in Chunks |->
        LET e == IF c \in Indexed(new) THEN new[c] ELSE old[c]
        IN  IF e.refs > 0 THEN [e EXCEPT !.refs = @ + bumps[c]] ELSE e]
================================================================================
