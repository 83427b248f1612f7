------------------------ MODULE RepositoryCounts_proofs ------------------------
(***************************************************************************)
(* Theorems about Repository, second part: every action preserves the      *)
(* invariant of the reference counts.  A lemma for what a step leaves to   *)
(* the other processes, then one for each group of actions.                *)
(***************************************************************************)
EXTENDS RepositoryTypes_proofs

--------------------------------------------------------------------------------
\* Where processes are: a step moves one of them, and the lock changes hands only
\* at the right places.

HolderMoves(p, l) ==
    \/ lock' \in {lock, None} /\ (lock' = p => l \in HolderAt)
    \/ lock' = p /\ l \in HolderAt /\ p \notin Readers

LEMMA PhaseKept ==
  ASSUME TypeOK, PhaseInv, NEW p \in Procs, NEW l \in PhasesOf(p),
         pc' = [pc EXCEPT ![p] = l], HolderMoves(p, l)
  PROVE  PhaseInv'
<1>1. \A q \in Procs : pc'[q] = IF q = p THEN l ELSE pc[q]
  BY Zenon DEF TypeOK
<1>2. \A q \in Procs : pc'[q] \in PhasesOf(q)
  BY Zenon, <1>1 DEF PhaseInv
<1>3. lock' \notin Readers
  BY Zenon, RepositoryAssumption DEF PhaseInv, HolderMoves, Procs, Sessions
<1>4. lock' # None => pc'[lock'] \in HolderAt
  BY Zenon, <1>1 DEF PhaseInv, HolderMoves, TypeOK
<1> QED BY Zenon, <1>2, <1>3, <1>4 DEF PhaseInv, PhasesOf

LEMMA PhaseStays ==
  ASSUME PhaseInv, pc' = pc, lock' \in {lock, None}
  PROVE  PhaseInv'
BY Zenon, RepositoryAssumption DEF PhaseInv, PhasesOf, Procs, Sessions

--------------------------------------------------------------------------------
\* A step of p leaves the others as they are.

OthersKeep(p) ==
    /\ \A q \in Procs \ {p} : pc'[q] = pc[q] /\ view'[q] = view[q] /\ viewGen'[q] = viewGen[q]
    /\ \A b \in Backups \ {p} : ws'[b] = ws[b]
    /\ \A m \in Maints \ {p} : targets'[m] = targets[m] /\ left'[m] = left[m]

OthersLocal(p) ==
    /\ \A b \in Backups \ {p} : SessionLocal(b) /\ GenLocal(b) /\ CommitLocal(b)
    /\ \A m \in Maints \ {p} : MaintLocal(m)

Locals ==
    /\ \A b \in Backups : SessionLocal(b) /\ GenLocal(b) /\ CommitLocal(b)
    /\ \A m \in Maints : MaintLocal(m)

\* A step of p that writes neither the index nor a snapshot.
LEMMA OthersUndisturbed ==
  ASSUME Locals, NEW p \in Procs, OthersKeep(p), UNCHANGED <<index, gen, snaps>>,
         lock' \in {lock, None, p}
  PROVE  OthersLocal(p)'
<1>1. ASSUME NEW b \in Backups \ {p} PROVE (SessionLocal(b) /\ GenLocal(b) /\ CommitLocal(b))'
  <2>1. /\ b \in Procs /\ pc'[b] = pc[b] /\ view'[b] = view[b] /\ viewGen'[b] = viewGen[b]
        /\ ws'[b] = ws[b] /\ (lock' = b => lock = b)
    BY Zenon, RepositoryAssumption DEF OthersKeep, Procs, Sessions
  <2>2. SessionLocal(b)'
    BY <2>1 DEF Locals, SessionLocal
  <2>3. GenLocal(b)'
    BY Zenon, <2>1 DEF Locals, GenLocal
  <2>4. CommitLocal(b)'
    BY Zenon, <2>1 DEF Locals, CommitLocal
  <2> QED BY Zenon, <2>2, <2>3, <2>4
<1>2. ASSUME NEW m \in Maints \ {p} PROVE MaintLocal(m)'
  <2>1. /\ m \in Procs /\ pc'[m] = pc[m] /\ view'[m] = view[m]
        /\ targets'[m] = targets[m] /\ left'[m] = left[m] /\ (lock' = m => lock = m)
    BY Zenon, RepositoryAssumption DEF OthersKeep, Procs
  <2> QED BY Zenon, <2>1 DEF Locals, MaintLocal
<1> QED BY Zenon, <1>1, <1>2 DEF OthersLocal

\* A step of the holder that writes the index or a snapshot, while no maintenance
\* command is about to lock.
LEMMA OthersOutdated ==
  ASSUME Locals, TypeOK, NEW p \in Procs, OthersKeep(p), lock = p, lock' = lock, Undisturbed, Quiet,
         gen' = gen + 1 \/ UNCHANGED <<index, gen>>
  PROVE  OthersLocal(p)'
<1>1. ASSUME NEW b \in Backups \ {p} PROVE (SessionLocal(b) /\ GenLocal(b) /\ CommitLocal(b))'
  <2>1. /\ b \in Procs /\ pc'[b] = pc[b] /\ view'[b] = view[b] /\ viewGen'[b] = viewGen[b]
        /\ ws'[b] = ws[b] /\ lock' # b /\ viewGen[b] \in Nat /\ gen \in Nat
    BY Zenon DEF OthersKeep, Procs, Sessions, TypeOK
  <2>2. SessionLocal(b)'
    BY <2>1 DEF Locals, SessionLocal
  <2>3. GenLocal(b)'
    BY <2>1 DEF Locals, GenLocal
  <2>4. CommitLocal(b)'
    BY Zenon, <2>1 DEF CommitLocal
  <2> QED BY Zenon, <2>2, <2>3, <2>4
<1>2. ASSUME NEW m \in Maints \ {p} PROVE MaintLocal(m)'
  <2>1. m \in Procs /\ pc'[m] = pc[m] /\ pc[m] # "lock" /\ lock' # m
    BY Zenon DEF OthersKeep, Procs, Quiet
  <2> QED BY Zenon, <2>1 DEF MaintLocal
<1> QED BY Zenon, <1>1, <1>2 DEF OthersLocal

LEMMA OthersAndOwn ==
  ASSUME NEW p, OthersLocal(p)',
         p \in Backups => (SessionLocal(p) /\ GenLocal(p) /\ CommitLocal(p))',
         p \in Maints => MaintLocal(p)'
  PROVE  Locals'
BY Zenon DEF OthersLocal, Locals

CoversInv == IsFiniteSet(snaps) /\ RefcountsCover

LEMMA CountsParts == CountsInv <=> TypeOK /\ PhaseInv /\ CoversInv /\ Locals
BY Zenon DEF CountsInv, CoversInv, Locals

LEMMA CoversKept ==
  ASSUME CoversInv, UNCHANGED <<index, snaps>> PROVE CoversInv'
BY Zenon DEF CoversInv, RefcountsCover

\* At these places a process has nothing to promise.
Free == {"dereg", "deregHeld", "cleanup", "release", "clear", "abort", "done", "crashed", "read"}

LEMMA FreeLocal ==
  ASSUME NEW p, pc'[p] \in Free
  PROVE  (SessionLocal(p) /\ GenLocal(p) /\ CommitLocal(p) /\ MaintLocal(p))'
BY Zenon DEF Free, SessionLocal, GenLocal, CommitLocal, MaintLocal, Uploading, Flushed

\* A step of p to such a place that writes neither the index nor a snapshot.
LEMMA FreeStep ==
  ASSUME CountsInv, TypeOK', NEW p \in Procs, NEW l \in Free \cap PhasesOf(p),
         pc' = [pc EXCEPT ![p] = l], HolderMoves(p, l), OthersKeep(p),
         UNCHANGED <<index, gen, snaps>>
  PROVE  CountsInv'
<1>1. TypeOK /\ PhaseInv /\ CoversInv /\ Locals
  BY Zenon, CountsParts
<1>2. PhaseInv'
  BY Zenon, <1>1, PhaseKept
<1>3. OthersLocal(p)'
  BY Zenon, <1>1, OthersUndisturbed DEF HolderMoves
<1>4. pc'[p] = l
  BY Zenon, <1>1 DEF TypeOK
<1>5. Locals'
  BY Zenon, <1>3, <1>4, FreeLocal, OthersAndOwn
<1>6. CoversInv'
  BY Zenon, <1>1, CoversKept
<1>7. (TypeOK /\ PhaseInv /\ CoversInv /\ Locals)'
  BY Zenon, <1>2, <1>5, <1>6
<1> QED BY Zenon, <1>7 DEF CountsInv, CoversInv, Locals

\* Any other step of p that writes neither the index nor a snapshot.
LEMMA QuietStep ==
  ASSUME CountsInv, TypeOK', NEW p \in Procs, NEW l \in PhasesOf(p),
         pc' = [pc EXCEPT ![p] = l], HolderMoves(p, l), OthersKeep(p),
         UNCHANGED <<index, gen, snaps>>,
         p \in Backups => (SessionLocal(p) /\ GenLocal(p) /\ CommitLocal(p))',
         p \in Maints => MaintLocal(p)'
  PROVE  CountsInv'
<1>1. TypeOK /\ PhaseInv /\ CoversInv /\ Locals
  BY Zenon, CountsParts
<1>2. PhaseInv'
  BY Zenon, <1>1, PhaseKept
<1>3. OthersLocal(p)'
  BY Zenon, <1>1, OthersUndisturbed DEF HolderMoves
<1>5. Locals'
  BY Zenon, <1>3, OthersAndOwn
<1>6. CoversInv'
  BY Zenon, <1>1, CoversKept
<1>7. (TypeOK /\ PhaseInv /\ CoversInv /\ Locals)'
  BY Zenon, <1>2, <1>5, <1>6
<1> QED BY Zenon, <1>7 DEF CountsInv, CoversInv, Locals

--------------------------------------------------------------------------------
\* The invariant holds at first, and every step keeps it.

LEMMA CountsInitial ==
  ASSUME CountingLaws, Init
  PROVE  CountsInv
<1>1. TypeOK
  BY Zenon, TypesInitial
<1>2. PhaseInv
  BY Zenon, RepositoryAssumption DEF Init, PhaseInv, PhasesOf, ReaderAt, BackupAt, CompactAt, RemoverAt,
        Procs, Sessions, Maints
<1>3. IsFiniteSet(snaps)
  BY Zenon, FiniteSetLaws DEF Init
<1>4. RefcountsCover
  <2> SUFFICES ASSUME NEW c \in Chunks PROVE index[c].refs >= RefsTo(snaps, c)
    BY Zenon DEF RefcountsCover
  <2>1. CASE Founded = {}
    <3>1. snaps = {} /\ index[c].refs = 0
      BY Zenon, <2>1 DEF Init, Absent
    <3>2. RefsTo({}, c) = 0
      BY Zenon DEF CountingLaws
    <3> QED BY <3>1, <3>2
  <2>2. CASE Founded # {}
    <3>1. /\ snaps = {FirstSnapshot}
          /\ index[c].refs = IF c \in Founded THEN 1 ELSE 0
          /\ FirstSnapshot.refs[c] = IF c \in Founded THEN 1 ELSE 0
      BY Zenon, <2>2 DEF Init, Absent, FirstSnapshot
    <3>2. RefsTo({FirstSnapshot}, c) = FirstSnapshot.refs[c]
      BY <3>1, RefsToOne
    <3> QED BY <3>1, <3>2
  <2> QED BY Zenon, <2>1, <2>2
<1>5. ASSUME NEW b \in Backups PROVE SessionLocal(b) /\ GenLocal(b) /\ CommitLocal(b)
  <2>1. pc[b] \in {"idle", "done"} /\ ws[b] = NewSession /\ b \in Procs
    BY Zenon DEF Init, Procs, Sessions
  <2> QED BY <2>1 DEF SessionLocal, GenLocal, CommitLocal, Uploading, Flushed, NewSession
<1>6. ASSUME NEW m \in Maints PROVE MaintLocal(m)
  <2>1. pc[m] \in {"list", "done"} /\ lock # m
    BY Zenon, RepositoryAssumption DEF Init, Procs
  <2> QED BY Zenon, <2>1 DEF MaintLocal
<1> QED BY Zenon, <1>1, <1>2, <1>3, <1>4, <1>5, <1>6 DEF CountsInv

LEMMA CommonCounts ==
  ASSUME CountsInv, NEW p \in Procs,
         \/ ListSnapshots(p) \/ LoadIndex(p) \/ Release(p) \/ Crash(p)
         \/ Register(p) \/ Deregister(p) \/ EndRead(p)
  PROVE  CountsInv'
<1> USE DEF Goto, packVars, indexVars, lockVars, viewVars, maintVars, auxVars
<1>0. /\ TypeOK /\ PhaseInv /\ TypeOK' /\ pc[p] \in PhasesOf(p)
      /\ DOMAIN pc = Procs /\ DOMAIN view = Procs /\ DOMAIN viewGen = Procs
      /\ DOMAIN ws = Backups
      /\ lock = p => pc[p] \in HolderAt
  BY ZenonT(30), CommonTypes, KindOf DEF CountsInv, PhaseInv, TypeOK
<1>1. CASE ListSnapshots(p)
  <2>1. /\ pc[p] = "list" /\ pc' = [pc EXCEPT ![p] = "load"]
        /\ UNCHANGED <<index, gen, snaps, lock, view, viewGen, ws, targets, left>>
    BY Zenon, <1>1 DEF ListSnapshots
  <2>2. lock # p
    BY ZenonT(30), <1>0, <2>1 DEF HolderAt
  <2>3. OthersKeep(p) /\ HolderMoves(p, "load") /\ pc'[p] = "load"
    BY Zenon, <1>0, <2>1, <2>2 DEF OthersKeep, HolderMoves
  <2>4. "load" \in PhasesOf(p)
    BY Zenon DEF PhasesOf, ReaderAt, BackupAt, CompactAt, RemoverAt
  <2>5. p \in Backups => (SessionLocal(p) /\ GenLocal(p) /\ CommitLocal(p))'
    <3> SUFFICES ASSUME p \in Backups PROVE (SessionLocal(p) /\ GenLocal(p) /\ CommitLocal(p))'
      BY Zenon
    <3>1. SessionLocal(p)'
      BY Zenon, <2>1, <2>3 DEF CountsInv, SessionLocal, Uploading, Flushed
    <3> QED BY Zenon, <2>3, <3>1 DEF GenLocal, CommitLocal, Uploading
  <2>6. p \in Maints => MaintLocal(p)'
    BY Zenon, <2>3 DEF MaintLocal
  <2> QED BY Zenon, <1>0, <2>1, <2>3, <2>4, <2>5, <2>6, QuietStep
<1>2. CASE LoadIndex(p)
  <2> DEFINE l == IF p \in Readers THEN "read" ELSE IF p \in Maints THEN "lock"
                  ELSE IF NameTaken(p, listed[p]) THEN "dereg" ELSE "recover"
  <2>1. /\ pc[p] = "load" /\ pc' = [pc EXCEPT ![p] = l]
        /\ view' = [view EXCEPT ![p] = index] /\ viewGen' = [viewGen EXCEPT ![p] = gen]
        /\ UNCHANGED <<index, gen, snaps, lock, ws, targets, left>>
    BY Zenon, <1>2 DEF LoadIndex
  <2>2. l \in PhasesOf(p) /\ l \in {"read", "lock", "dereg", "recover"}
    BY Zenon, KindOf DEF PhasesOf, ReaderAt, BackupAt, CompactAt, RemoverAt, Procs, Sessions
  <2>3. p \in Maints => l = "lock"
    BY Zenon, KindOf
  <2>4. p \in Backups => l \in {"dereg", "recover"}
    BY Zenon, KindOf
  <2> HIDE DEF l
  <2>5. lock # p
    BY Zenon, <1>0, <2>1 DEF HolderAt
  <2>6. OthersKeep(p) /\ HolderMoves(p, l) /\ pc'[p] = l
    BY Zenon, <1>0, <2>1, <2>5 DEF OthersKeep, HolderMoves
  <2>7. gen \in Nat
    BY Zenon, <1>0 DEF TypeOK
  <2>8. p \in Backups => (SessionLocal(p) /\ GenLocal(p) /\ CommitLocal(p))'
    <3> SUFFICES ASSUME p \in Backups PROVE (SessionLocal(p) /\ GenLocal(p) /\ CommitLocal(p))'
      BY Zenon
    <3>1. SessionLocal(p)'
      BY Zenon, <2>1, <2>4, <2>6 DEF CountsInv, SessionLocal, Uploading, Flushed
    <3>2. GenLocal(p)'
      BY <1>0, <2>1, <2>4, <2>7 DEF GenLocal
    <3> QED BY Zenon, <2>4, <2>6, <3>1, <3>2 DEF CommitLocal
  <2>9. p \in Maints => MaintLocal(p)'
    BY Zenon, <1>0, <2>1, <2>3, <2>5, <2>6 DEF MaintLocal
  <2> QED BY Zenon, <1>0, <2>1, <2>2, <2>6, <2>8, <2>9, QuietStep
<1>3. CASE Release(p)
  <2> DEFINE l == IF p \in Maints THEN "done" ELSE IF ws[p].ok THEN "clear" ELSE "abort"
  <2>1. /\ pc[p] = "release" /\ pc' = [pc EXCEPT ![p] = l]
        /\ lock' = IF lock = p THEN None ELSE lock
        /\ UNCHANGED <<index, gen, snaps, view, viewGen, ws, targets, left>>
    BY Zenon, <1>3 DEF Release
  <2>2. p \notin Readers
    BY Zenon, <1>0, <2>1, KindOf DEF ReaderAt
  <2>3. l \in Free \cap PhasesOf(p)
    BY Zenon, <2>2, KindOf DEF Free, PhasesOf, BackupAt, CompactAt, RemoverAt, Procs, Sessions
  <2> HIDE DEF l
  <2>4. OthersKeep(p) /\ HolderMoves(p, l)
    BY Zenon, <1>0, <2>1, KindOf DEF OthersKeep, HolderMoves
  <2> QED BY Zenon, <1>0, <2>1, <2>3, <2>4, FreeStep
<1>4. CASE Crash(p)
  <2>1. /\ pc' = [pc EXCEPT ![p] = "crashed"]
        /\ ws' = [b \in Backups |-> IF b = p THEN NewSession ELSE ws[b]]
        /\ UNCHANGED <<index, gen, snaps, lock, view, viewGen, targets, left>>
    BY Zenon, <1>4 DEF Crash
  <2>2. "crashed" \in Free \cap PhasesOf(p)
    BY Zenon DEF Free, PhasesOf, ReaderAt, BackupAt, CompactAt, RemoverAt
  <2>3. OthersKeep(p) /\ HolderMoves(p, "crashed")
    BY Zenon, <1>0, <2>1 DEF OthersKeep, HolderMoves, HolderAt
  <2> QED BY ZenonT(30), <1>0, <2>1, <2>2, <2>3, FreeStep
<1>5. CASE Register(p)
  <2>1. /\ p \in Sessions /\ pc[p] = "idle" /\ pc' = [pc EXCEPT ![p] = "list"] /\ lock = None
        /\ UNCHANGED <<index, gen, snaps, lock, view, viewGen, ws, targets, left>>
    BY Zenon, <1>5 DEF Register
  <2>2. "list" \in PhasesOf(p)
    BY Zenon DEF PhasesOf, ReaderAt, BackupAt, CompactAt, RemoverAt
  <2>3. OthersKeep(p) /\ HolderMoves(p, "list") /\ pc'[p] = "list"
    BY Zenon, <1>0, <2>1, KindOf DEF OthersKeep, HolderMoves
  <2>4. p \in Backups => (SessionLocal(p) /\ GenLocal(p) /\ CommitLocal(p))'
    <3> SUFFICES ASSUME p \in Backups PROVE (SessionLocal(p) /\ GenLocal(p) /\ CommitLocal(p))'
      BY Zenon
    <3>1. SessionLocal(p)'
      BY Zenon, <2>1, <2>3 DEF CountsInv, SessionLocal, Uploading, Flushed
    <3> QED BY Zenon, <2>3, <3>1 DEF GenLocal, CommitLocal, Uploading
  <2>5. p \notin Maints
    BY Zenon, <2>1, KindOf
  <2> QED BY Zenon, <1>0, <2>1, <2>2, <2>3, <2>4, <2>5, QuietStep
<1>6. CASE Deregister(p)
  <2> DEFINE l == IF pc[p] = "deregHeld" THEN "release" ELSE "done"
  <2>1. /\ p \in Sessions /\ pc[p] \in {"dereg", "deregHeld"} /\ pc' = [pc EXCEPT ![p] = l]
        /\ UNCHANGED <<index, gen, snaps, lock, view, viewGen, ws, targets, left>>
    BY Zenon, <1>6 DEF Deregister
  <2>2. l \in Free \cap PhasesOf(p)
    BY Zenon, <1>0, <2>1 DEF Free, PhasesOf, ReaderAt, BackupAt, CompactAt, RemoverAt
  <2>3. lock = p => l \in HolderAt
    BY Zenon, <1>0, <2>1 DEF HolderAt
  <2> HIDE DEF l
  <2>4. OthersKeep(p) /\ HolderMoves(p, l)
    BY Zenon, <1>0, <2>1, <2>3 DEF OthersKeep, HolderMoves
  <2> QED BY Zenon, <1>0, <2>1, <2>2, <2>4, FreeStep
<1>7. CASE EndRead(p)
  <2>1. /\ p \in Readers /\ pc' = [pc EXCEPT ![p] = "dereg"]
        /\ UNCHANGED <<index, gen, snaps, lock, view, viewGen, ws, targets, left>>
    BY Zenon, <1>7 DEF EndRead
  <2>2. "dereg" \in Free \cap PhasesOf(p)
    BY Zenon, <2>1 DEF Free, PhasesOf, ReaderAt
  <2>3. lock # p
    BY Zenon, <1>0, <2>1 DEF PhaseInv
  <2>4. OthersKeep(p) /\ HolderMoves(p, "dereg")
    BY Zenon, <1>0, <2>1, <2>3 DEF OthersKeep, HolderMoves
  <2> QED BY ZenonT(30), <1>0, <2>1, <2>2, <2>4, FreeStep
<1> QED
  BY Zenon, <1>1, <1>2, <1>3, <1>4, <1>5, <1>6, <1>7

\* A step of backup b that changes at most its write session.
LEMMA SessionStep ==
  ASSUME CountsInv, TypeOK', NEW b \in Backups, \E x : SessionBecomes(b, x), pc' = pc,
         UNCHANGED <<index, gen, snaps, lock, view, viewGen, targets, left>>, SessionLocal(b)',
         pc[b] \notin {"putIndex", "putSnapshot"} \/ ws'[b].refs = ws[b].refs
  PROVE  CountsInv'
<1>1. b \in Procs /\ b \notin Maints
  BY Zenon, KindOf
<1>2. pc' = [pc EXCEPT ![b] = pc[b]] /\ pc[b] \in PhasesOf(b)
  BY ZenonT(30), <1>1 DEF CountsInv, TypeOK, PhaseInv
<1>3. HolderMoves(b, pc[b])
  BY ZenonT(30), <1>1, KindOf DEF HolderMoves, CountsInv, PhaseInv
<1>4. OthersKeep(b)
  BY Zenon DEF OthersKeep, SessionBecomes, CountsInv, TypeOK
<1>5. GenLocal(b)' /\ CommitLocal(b)'
  BY Zenon DEF CountsInv, GenLocal, CommitLocal
<1> QED BY Zenon, <1>1, <1>2, <1>3, <1>4, <1>5, QuietStep

LEMMA StoreCounts ==
  ASSUME CountsInv, NEW b \in Backups, NEW c \in Chunks, StoreChunk(b, c)
  PROVE  CountsInv'
<1>1. TypeOK /\ SessionLocal(b) /\ ws[b] \in WriteSessions /\ view[b] \in Indices
  BY Zenon, KindOf DEF CountsInv, TypeOK
<1>2. TypeOK'
  BY Zenon, <1>1, UploadTypes
<1>3. /\ pc' = pc /\ pc[b] = "upload"
      /\ UNCHANGED <<index, gen, snaps, lock, view, viewGen, targets, left>>
  BY Zenon DEF StoreChunk, indexVars, lockVars, viewVars, maintVars
<1>4. PICK x : /\ SessionBecomes(b, x)
               /\ x.refs = [ws[b].refs EXCEPT ![c] = @ + 1]
               /\ x.inflight = ws[b].inflight /\ x.failed = ws[b].failed
               /\ \/ /\ c \in Known(b) /\ x.bumps = [ws[b].bumps EXCEPT ![c] = @ + 1]
                     /\ x.new = ws[b].new /\ x.writer = ws[b].writer
                     /\ x.recovered = ws[b].recovered
                  \/ /\ c \notin Known(b) /\ ws[b].recovered[c] # {}
                     /\ x.new = [ws[b].new EXCEPT ![c] =
                                   [pack |-> ws[b].recovered[c], refs |-> 1]]
                     /\ x.recovered = [ws[b].recovered EXCEPT ![c] = {}]
                     /\ x.bumps = ws[b].bumps /\ x.writer = ws[b].writer
                  \/ /\ c \notin Known(b) /\ ws[b].recovered[c] = {}
                     /\ x.writer = [ws[b].writer EXCEPT ![c] = @ + 1]
                     /\ x.new = ws[b].new /\ x.bumps = ws[b].bumps
                     /\ x.recovered = ws[b].recovered
  BY Zenon, <1>1, StoreEffect
<1>5. ws'[b] = x
  BY Zenon, <1>1, <1>4 DEF SessionBecomes, TypeOK
<1> DEFINE w == ws[b]
           Entry(d) ==
             /\ x.refs[d] = x.new[d].refs + x.bumps[d] + x.writer[d]
             /\ x.new[d].refs > 0 => view[b][d].refs = 0
             /\ x.bumps[d] > 0 => view[b][d].refs > 0 \/ x.new[d].refs > 0
             /\ x.writer[d] > 0 =>
                  view[b][d].refs = 0 /\ x.new[d].refs = 0 /\ x.recovered[d] = {}
<1>6. ASSUME NEW d \in Chunks PROVE Entry(d)
  <2>1. /\ w.refs[d] = w.new[d].refs + w.bumps[d] + w.writer[d]
        /\ w.new[d].refs > 0 => view[b][d].refs = 0
        /\ w.bumps[d] > 0 => view[b][d].refs > 0 \/ w.new[d].refs > 0
        /\ w.writer[d] > 0 =>
             view[b][d].refs = 0 /\ w.new[d].refs = 0 /\ w.recovered[d] = {}
    BY Zenon, <1>1, <1>3 DEF SessionLocal, Uploading
  <2>2. /\ w.new[d].refs \in Nat /\ w.bumps[d] \in Nat /\ w.writer[d] \in Nat
        /\ w.refs[d] \in Nat /\ view[b][d].refs \in Nat
        /\ DOMAIN w.bumps = Chunks /\ DOMAIN w.writer = Chunks /\ DOMAIN w.refs = Chunks
        /\ DOMAIN w.new = Chunks /\ DOMAIN w.recovered = Chunks
    BY Zenon, <1>1, SessionCounts, IndexEntries
  <2>3. x.refs[d] = IF d = c THEN w.refs[d] + 1 ELSE w.refs[d]
    BY ZenonT(30), <1>4, <2>2
  <2>4. c \in Known(b) <=> view[b][c].refs > 0 \/ w.new[c].refs > 0
    BY Zenon DEF Known, Indexed
  <2>5. CASE c \in Known(b) /\ x.bumps = [w.bumps EXCEPT ![c] = @ + 1]
             /\ x.new = w.new /\ x.writer = w.writer /\ x.recovered = w.recovered
    <3>1. x.bumps[d] = IF d = c THEN w.bumps[d] + 1 ELSE w.bumps[d]
      BY Zenon, <2>2, <2>5
    <3>2. /\ x.new[d].refs = w.new[d].refs /\ x.writer[d] = w.writer[d]
          /\ x.recovered[d] = w.recovered[d]
          /\ d = c => view[b][d].refs > 0 \/ w.new[d].refs > 0
      BY ZenonT(30), <2>4, <2>5
    <3> QED BY <2>1, <2>2, <2>3, <3>1, <3>2
  <2>6. CASE c \notin Known(b)
             /\ x.new = [w.new EXCEPT ![c] = [pack |-> w.recovered[c], refs |-> 1]]
             /\ x.bumps = w.bumps /\ x.writer = w.writer /\ w.recovered[c] # {}
             /\ x.recovered = [w.recovered EXCEPT ![c] = {}]
    <3>1. x.new[d].refs = IF d = c THEN 1 ELSE w.new[d].refs
      <4>1. x.new[d] = IF d = c THEN [pack |-> w.recovered[c], refs |-> 1] ELSE w.new[d]
        BY Zenon, <2>2, <2>6
      <4> QED BY <4>1
    <3>2. d = c => ~ (w.new[d].refs > 0) /\ ~ (view[b][d].refs > 0)
      BY Zenon, <2>4, <2>6
    <3>3. d = c => ~ (w.writer[d] > 0)
      BY Zenon, <2>1, <2>6
    <3>4. /\ x.recovered[d] = IF d = c THEN {} ELSE w.recovered[d]
          /\ x.bumps[d] = w.bumps[d] /\ x.writer[d] = w.writer[d]
      BY ZenonT(30), <2>2, <2>6
    <3> QED BY <2>1, <2>2, <2>3, <3>1, <3>2, <3>3, <3>4
  <2>7. CASE c \notin Known(b) /\ x.writer = [w.writer EXCEPT ![c] = @ + 1]
             /\ x.new = w.new /\ x.bumps = w.bumps /\ x.recovered = w.recovered
             /\ w.recovered[c] = {}
    BY <2>1, <2>2, <2>3, <2>4, <2>7
  <2> QED BY ZenonT(30), <1>4, <2>5, <2>6, <2>7
<1>7. SessionLocal(b)'
  BY Zenon, <1>3, <1>5, <1>6 DEF SessionLocal, Uploading, Flushed
<1> QED BY Zenon, <1>2, <1>3, <1>4, <1>7, SessionStep

LEMMA SealCounts ==
  ASSUME CountsInv, NEW b \in Backups, Seal(b)
  PROVE  CountsInv'
<1> DEFINE w == ws[b]
           pack == PackOf(Counted(ws[b].writer), b)
<1>1. TypeOK /\ SessionLocal(b) /\ w \in WriteSessions /\ view[b] \in Indices
  BY Zenon, KindOf DEF CountsInv, TypeOK
<1>2. TypeOK'
  BY Zenon, <1>1, UploadTypes
<1>3. /\ pc' = pc /\ pc[b] \in {"upload", "flush"}
      /\ UNCHANGED <<index, gen, snaps, lock, view, viewGen, targets, left>>
  BY Zenon DEF Seal, indexVars, lockVars, viewVars, maintVars
<1>4. PICK x : /\ SessionBecomes(b, x)
               /\ x.new = [c \in Chunks |-> IF w.writer[c] > 0
                             THEN [pack |-> pack, refs |-> w.writer[c]] ELSE w.new[c]]
               /\ x.bumps = w.bumps /\ x.writer = NoCounts /\ x.refs = w.refs
               /\ x.recovered = w.recovered /\ x.failed = w.failed
               /\ x.inflight = w.inflight \cup {pack}
  BY ZenonT(30), <1>1, SealEffect
<1>5. ws'[b] = x
  BY ZenonT(30), <1>1, <1>4 DEF SessionBecomes, TypeOK
<1> HIDE DEF pack
<1>6. ASSUME NEW d \in Chunks
      PROVE  /\ x.refs[d] = x.new[d].refs + x.bumps[d] + x.writer[d]
             /\ x.new[d].refs > 0 => view[b][d].refs = 0
             /\ x.bumps[d] > 0 => view[b][d].refs > 0 \/ x.new[d].refs > 0
             /\ x.writer[d] = 0
  <2>1. /\ w.refs[d] = w.new[d].refs + w.bumps[d] + w.writer[d]
        /\ w.new[d].refs > 0 => view[b][d].refs = 0
        /\ w.bumps[d] > 0 => view[b][d].refs > 0 \/ w.new[d].refs > 0
        /\ w.writer[d] > 0 => view[b][d].refs = 0 /\ w.new[d].refs = 0
    BY ZenonT(30), <1>1, <1>3 DEF SessionLocal, Uploading
  <2>2. /\ w.new[d].refs \in Nat /\ w.bumps[d] \in Nat /\ w.writer[d] \in Nat
        /\ w.refs[d] \in Nat /\ view[b][d].refs \in Nat
    BY Zenon, <1>1, SessionCounts, IndexEntries
  <2>3. x.new[d].refs = IF w.writer[d] > 0 THEN w.writer[d] ELSE w.new[d].refs
    BY <1>4
  <2>4. x.writer[d] = 0 /\ x.bumps[d] = w.bumps[d] /\ x.refs[d] = w.refs[d]
    BY Zenon, <1>4 DEF NoCounts
  <2> QED BY <2>1, <2>2, <2>3, <2>4
<1>7. SessionLocal(b)'
  BY <1>3, <1>5, <1>6 DEF SessionLocal, Uploading, Flushed
<1> QED BY Zenon, <1>2, <1>3, <1>4, <1>7, SessionStep

LEMMA UploadCounts ==
  ASSUME CountsInv, NEW b \in Backups,
         \/ Recover(b) \/ EndUpload(b)
         \/ \E p \in ws[b].inflight : Upload(b, p)
         \/ CommitLock(b) \/ CleanupRecovered(b) \/ ClearJournal(b) \/ FlushOnAbort(b)
  PROVE  CountsInv'
<1> USE DEF Goto, packVars, indexVars, lockVars, viewVars, maintVars, auxVars
<1>0. /\ TypeOK /\ PhaseInv /\ TypeOK' /\ b \in Procs /\ b \notin Maints /\ b \notin Readers
      /\ DOMAIN pc = Procs /\ DOMAIN ws = Backups /\ PhasesOf(b) = BackupAt
      /\ lock = b => pc[b] \in HolderAt
      /\ SessionLocal(b) /\ GenLocal(b) /\ CommitLocal(b)
  BY UploadTypes, KindOf DEF CountsInv, PhaseInv, TypeOK
<1>1. CASE Recover(b)
  <2>1. /\ pc[b] = "recover" /\ pc' = [pc EXCEPT ![b] = "upload"]
        /\ UNCHANGED <<index, gen, snaps, lock, view, viewGen, targets, left>>
    BY <1>1, Zenon DEF Recover
  <2>2. PICK x : SessionBecomes(b, x) /\ SameDelta(x, ws[b])
    BY Zenon, <1>0, <1>1, RecoverEffect
  <2>3. ws'[b] = x /\ pc'[b] = "upload" /\ lock # b
    BY Zenon, <1>0, <2>1, <2>2 DEF SessionBecomes, HolderAt
  <2>4. OthersKeep(b) /\ HolderMoves(b, "upload") /\ "upload" \in PhasesOf(b)
    BY ZenonT(30), <1>0, <2>1, <2>2, <2>3 DEF OthersKeep, HolderMoves, SessionBecomes, BackupAt
  <2>5. /\ x.new = EmptyIndex /\ x.bumps = NoCounts /\ x.writer = NoCounts /\ x.refs = NoCounts
    BY Zenon, <1>0, <2>1, <2>2 DEF SessionLocal, SameDelta
  <2>6. \A c \in Chunks : x.new[c].refs = 0 /\ x.bumps[c] = 0 /\ x.writer[c] = 0 /\ x.refs[c] = 0
    <3>1. \A c \in Chunks : EmptyIndex[c].refs = 0 /\ NoCounts[c] = 0
      BY Zenon DEF EmptyIndex, NoCounts, Absent
    <3> QED BY Zenon, <2>5, <3>1
  <2>7. SessionLocal(b)'
    BY <2>3, <2>6 DEF SessionLocal, Uploading, Flushed
  <2>8. GenLocal(b)' /\ CommitLocal(b)'
    BY Zenon, <1>0, <2>1, <2>3 DEF GenLocal, CommitLocal, Uploading
  <2> QED BY Zenon, <1>0, <2>1, <2>4, <2>7, <2>8, QuietStep
<1>2. CASE EndUpload(b)
  <2>1. PICK l \in {"lock", "abort"} : /\ pc[b] = "upload" /\ pc' = [pc EXCEPT ![b] = l]
        /\ UNCHANGED <<index, gen, snaps, lock, view, viewGen, ws, targets, left>>
    BY <1>2, Zenon DEF EndUpload
  <2>2. pc'[b] = l /\ lock # b
    BY Zenon, <1>0, <2>1 DEF HolderAt
  <2>3. OthersKeep(b) /\ HolderMoves(b, l) /\ l \in PhasesOf(b)
    BY ZenonT(30), <1>0, <2>1, <2>2 DEF OthersKeep, HolderMoves, BackupAt
  <2>4. SessionLocal(b)' /\ GenLocal(b)' /\ CommitLocal(b)'
    BY ZenonT(30), <1>0, <2>1, <2>2 DEF SessionLocal, GenLocal, CommitLocal, Uploading, Flushed
  <2> QED BY ZenonT(30), <1>0, <2>1, <2>3, <2>4, QuietStep
<1>3. ASSUME NEW p \in ws[b].inflight, Upload(b, p) PROVE CountsInv'
  <2>1. pc' = pc /\ UNCHANGED <<index, gen, snaps, lock, view, viewGen, targets, left>>
    BY <1>3, Zenon DEF Upload
  <2>2. PICK x : SessionBecomes(b, x) /\ SameDelta(x, ws[b]) /\ x.recovered = ws[b].recovered
    BY Zenon, <1>0, <1>3, UploadEffect
  <2>3. ws'[b] = x
    BY Zenon, <1>0, <2>2 DEF SessionBecomes
  <2>4. SessionLocal(b)'
    BY Zenon, <1>0, <2>1, <2>2, <2>3 DEF SessionLocal, SameDelta
  <2> QED BY Zenon, <1>0, <2>1, <2>2, <2>3, <2>4, SessionStep DEF SameDelta
<1>4. CASE CommitLock(b)
  <2>1. /\ pc[b] = "lock"
        /\ UNCHANGED <<index, gen, snaps, view, viewGen, ws, targets, left>>
    BY <1>4, Zenon DEF CommitLock
  <2>2. CASE lock = None /\ lock' = b /\ pc' = [pc EXCEPT ![b] = "flush"]
    <3>1. pc'[b] = "flush"
      BY Zenon, <1>0, <2>2
    <3>2. OthersKeep(b) /\ HolderMoves(b, "flush") /\ "flush" \in PhasesOf(b)
      BY Zenon, <1>0, <2>1, <2>2 DEF OthersKeep, HolderMoves, BackupAt, HolderAt
    <3>3. SessionLocal(b)' /\ GenLocal(b)' /\ CommitLocal(b)'
      BY Zenon, <1>0, <2>1, <3>1 DEF SessionLocal, GenLocal, CommitLocal, Uploading, Flushed
    <3> QED BY ZenonT(30), <1>0, <2>1, <2>2, <3>2, <3>3, QuietStep
  <2>3. CASE lock' = lock /\ pc' = [pc EXCEPT ![b] = "abort"]
    <3>1. lock # b
      BY Zenon, <1>0, <2>1 DEF HolderAt
    <3>2. OthersKeep(b) /\ HolderMoves(b, "abort") /\ "abort" \in Free \cap PhasesOf(b)
      BY Zenon, <1>0, <2>1, <2>3, <3>1 DEF OthersKeep, HolderMoves, BackupAt, Free
    <3> QED BY Zenon, <1>0, <2>1, <2>3, <3>2, FreeStep
  <2> QED BY Zenon, <1>4, <2>2, <2>3 DEF CommitLock
<1>5. CASE CleanupRecovered(b)
  <2>1. /\ pc' = [pc EXCEPT ![b] = "deregHeld"]
        /\ UNCHANGED <<index, gen, snaps, lock, view, viewGen, targets, left>>
    BY <1>5, Zenon DEF CleanupRecovered
  <2>2. \E x : SessionBecomes(b, x)
    BY ZenonT(30), <1>0, <1>5, CleanupEffect
  <2>3. OthersKeep(b) /\ HolderMoves(b, "deregHeld") /\ "deregHeld" \in Free \cap PhasesOf(b)
    BY Zenon, <1>0, <2>1, <2>2 DEF OthersKeep, HolderMoves, BackupAt, Free, HolderAt, SessionBecomes
  <2> QED BY ZenonT(30), <1>0, <2>1, <2>3, FreeStep
<1>6. CASE ClearJournal(b)
  <2>1. /\ pc[b] = "clear" /\ pc' = [pc EXCEPT ![b] = "done"]
        /\ UNCHANGED <<index, gen, snaps, lock, view, viewGen, ws, targets, left>>
    BY <1>6, Zenon DEF ClearJournal
  <2>2. lock # b
    BY ZenonT(30), <1>0, <2>1 DEF HolderAt
  <2>3. OthersKeep(b) /\ HolderMoves(b, "done") /\ "done" \in Free \cap PhasesOf(b)
    BY Zenon, <1>0, <2>1, <2>2 DEF OthersKeep, HolderMoves, BackupAt, Free
  <2> QED BY Zenon, <1>0, <2>1, <2>3, FreeStep
<1>7. CASE FlushOnAbort(b)
  <2>1. /\ pc[b] = "abort" /\ pc' = [pc EXCEPT ![b] = "dereg"]
        /\ UNCHANGED <<index, gen, snaps, lock, view, viewGen, targets, left>>
    BY <1>7, Zenon DEF FlushOnAbort
  <2>2. lock # b
    BY Zenon, <1>0, <2>1 DEF HolderAt
  <2>3. \E x : SessionBecomes(b, x)
    BY ZenonT(30), <1>0, <1>7, AbortEffect
  <2>4. OthersKeep(b) /\ HolderMoves(b, "dereg") /\ "dereg" \in Free \cap PhasesOf(b)
    BY Zenon, <1>0, <2>1, <2>2, <2>3 DEF OthersKeep, HolderMoves, BackupAt, Free, SessionBecomes
  <2> QED BY ZenonT(30), <1>0, <2>1, <2>4, FreeStep
<1> QED
  BY ZenonT(30), <1>1, <1>2, <1>3, <1>4, <1>5, <1>6, <1>7

\* A step of the holder that writes the index or a snapshot.
LEMMA WritingStep ==
  ASSUME CountsInv, TypeOK', NEW p \in Procs, NEW l \in PhasesOf(p),
         pc' = [pc EXCEPT ![p] = l], l \in HolderAt, lock = p, lock' = lock, OthersKeep(p),
         Undisturbed, Quiet, gen' = gen + 1 \/ UNCHANGED <<index, gen>>, CoversInv',
         p \in Backups => (SessionLocal(p) /\ GenLocal(p) /\ CommitLocal(p))',
         p \in Maints => MaintLocal(p)'
  PROVE  CountsInv'
<1>1. TypeOK /\ PhaseInv /\ CoversInv /\ Locals
  BY Zenon, CountsParts
<1>2. HolderMoves(p, l)
  BY Zenon DEF HolderMoves
<1>3. PhaseInv'
  BY Zenon, <1>1, <1>2, PhaseKept
<1>4. OthersLocal(p)'
  BY Zenon, <1>1, OthersOutdated
<1>5. Locals'
  BY Zenon, <1>4, OthersAndOwn
<1> QED BY Zenon, <1>3, <1>5 DEF CountsInv, CoversInv, Locals

LEMMA FlushCounts ==
  ASSUME CountingLaws, CountsInv, NEW b \in Backups, FlushPacks(b) \/ RefreshNames(b)
  PROVE  CountsInv'
<1> USE DEF Goto, Fail, packVars, indexVars, lockVars, viewVars, maintVars, auxVars
<1>0. /\ TypeOK /\ TypeOK' /\ b \in Procs /\ b \notin Maints /\ DOMAIN pc = Procs
      /\ PhasesOf(b) = BackupAt /\ ws[b] \in WriteSessions
      /\ SessionLocal(b) /\ GenLocal(b) /\ CommitLocal(b)
  BY Zenon, CommitTypes, KindOf DEF CountsInv, TypeOK
<1>1. CASE FlushPacks(b)
  <2>1. /\ pc[b] = "flush"
        /\ UNCHANGED <<index, gen, snaps, lock, view, viewGen, ws, targets, left>>
    BY <1>1, Zenon DEF FlushPacks
  <2>2. PICK l \in {"deregHeld", "names"} :
          /\ pc' = [pc EXCEPT ![b] = l]
          /\ l = "names" => ~ws[b].failed
    BY <1>1, Zenon DEF FlushPacks
  <2>3. OthersKeep(b) /\ HolderMoves(b, l) /\ l \in PhasesOf(b) /\ pc'[b] = l
    BY Zenon, <1>0, <2>1, <2>2 DEF OthersKeep, HolderMoves, BackupAt, HolderAt
  <2>4. CASE l = "deregHeld"
    BY Zenon, <1>0, <2>1, <2>2, <2>3, <2>4, FreeStep DEF Free
  <2>5. CASE l = "names"
    <3>1. Counted(ws[b].writer) = {}
      BY Zenon, <1>1, <2>2, <2>5 DEF FlushPacks
    <3>2. \A c \in Chunks : ws[b].writer[c] \in Nat
      BY Zenon, <1>0, SessionCounts
    <3>3. ASSUME NEW c \in Chunks PROVE ws[b].writer[c] = 0
      <4>1. ~(ws[b].writer[c] > 0)
        BY Zenon, <3>1 DEF Counted
      <4>2. ws[b].writer[c] \in Nat
        BY Zenon, <3>2
      <4> QED BY <4>1, <4>2
    <3>4. ws[b].writer = NoCounts
      <4>1. ws[b].writer \in [Chunks -> Nat]
        BY Zenon, <1>0 DEF WriteSessions, Counts
      <4> QED BY Zenon, <3>3, <4>1 DEF NoCounts
    <3>5. SessionLocal(b)'
      BY Zenon, <1>0, <2>1, <2>3, <2>5, <3>4 DEF SessionLocal, Uploading, Flushed
    <3>6. GenLocal(b)' /\ CommitLocal(b)'
      BY Zenon, <1>0, <2>1, <2>3, <2>5 DEF GenLocal, CommitLocal, Uploading
    <3> QED BY Zenon, <1>0, <2>1, <2>2, <2>3, <3>5, <3>6, QuietStep
  <2> QED BY Zenon, <2>4, <2>5
<1>2. CASE RefreshNames(b)
  <2>1. /\ pc[b] = "names"
        /\ UNCHANGED <<index, gen, snaps, lock, view, viewGen, ws, targets, left>>
    BY <1>2, Zenon DEF RefreshNames
  <2>2. PICK l \in {"deregHeld", "fetch", "putSnapshot"} :
          /\ pc' = [pc EXCEPT ![b] = l]
          /\ l = "putSnapshot" => DeltaEmpty(ws[b].new, ws[b].bumps)
    BY <1>2, Zenon DEF RefreshNames
  <2>3. OthersKeep(b) /\ HolderMoves(b, l) /\ l \in PhasesOf(b) /\ pc'[b] = l
    BY Zenon, <1>0, <2>1, <2>2 DEF OthersKeep, HolderMoves, BackupAt, HolderAt
  <2>4. CASE l = "deregHeld"
    BY Zenon, <1>0, <2>1, <2>2, <2>3, <2>4, FreeStep DEF Free
  <2>5. CASE l = "fetch"
    <3>1. SessionLocal(b)'
      BY Zenon, <1>0, <2>1, <2>3, <2>5 DEF SessionLocal, Uploading, Flushed
    <3>2. GenLocal(b)' /\ CommitLocal(b)'
      BY Zenon, <1>0, <2>1, <2>3, <2>5 DEF GenLocal, CommitLocal, Uploading
    <3> QED BY ZenonT(30), <1>0, <2>1, <2>2, <2>3, <3>1, <3>2, QuietStep
  <2>6. CASE l = "putSnapshot"
    <3>1. SessionLocal(b)'
      BY Zenon, <1>0, <2>1, <2>3, <2>6 DEF SessionLocal, Uploading, Flushed
    <3>2. ASSUME NEW c \in Chunks PROVE ws[b].refs[c] = 0
      <4>1. /\ ws[b].refs[c] = ws[b].new[c].refs + ws[b].bumps[c] + ws[b].writer[c]
            /\ ws[b].writer = NoCounts
        BY ZenonT(30), <1>0, <2>1 DEF SessionLocal, Flushed
      <4>2. ws[b].new[c].refs \in Nat /\ ws[b].bumps[c] \in Nat /\ ws[b].writer[c] = 0
        BY ZenonT(30), <1>0, <4>1, SessionCounts DEF NoCounts
      <4>3. ~(ws[b].new[c].refs > 0) /\ ~(ws[b].bumps[c] > 0)
        BY Zenon, <2>2, <2>6 DEF DeltaEmpty, Indexed, Counted
      <4> QED BY <4>1, <4>2, <4>3
    <3>3. ASSUME NEW c \in Chunks PROVE index[c].refs >= RefsTo(snaps, c) + ws[b].refs[c]
      <4>1. RefsTo(snaps, c) \in Nat /\ index[c].refs \in Nat /\ index[c].refs >= RefsTo(snaps, c)
        BY Zenon, SnapsCount
      <4>2. ws[b].refs[c] = 0
        BY Zenon, <3>2
      <4> QED BY <4>1, <4>2
    <3>4. GenLocal(b)' /\ CommitLocal(b)'
      BY Zenon, <1>0, <2>1, <2>3, <2>6, <3>3 DEF GenLocal, CommitLocal, Uploading
    <3> QED BY Zenon, <1>0, <2>1, <2>2, <2>3, <3>1, <3>4, QuietStep
  <2> QED BY Zenon, <2>2, <2>4, <2>5, <2>6
<1> QED BY Zenon, <1>1, <1>2

LEMMA FetchCounts ==
  ASSUME CountsInv, NEW b \in Backups, FetchIndex(b)
  PROVE  CountsInv'
<1> USE DEF Goto, Fail, packVars, indexVars, lockVars, viewVars, maintVars, auxVars
<1> DEFINE w == ws[b]
<1>0. /\ TypeOK /\ TypeOK' /\ b \in Procs /\ b \notin Maints
      /\ DOMAIN pc = Procs /\ DOMAIN view = Procs
      /\ PhasesOf(b) = BackupAt /\ w \in WriteSessions /\ index \in Indices
      /\ SessionLocal(b) /\ GenLocal(b) /\ CommitLocal(b)
  BY Zenon, CommitTypes, KindOf DEF CountsInv, TypeOK
<1>1. /\ pc[b] = "fetch"
      /\ UNCHANGED <<index, gen, snaps, lock, viewGen, ws, targets, left>>
  BY Zenon DEF FetchIndex
<1>2. \/ pc' = [pc EXCEPT ![b] = "deregHeld"] /\ UNCHANGED view
      \/ /\ gen = viewGen[b]
         /\ view' = [view EXCEPT ![b] = MergedCache(w.new, w.bumps, view[b])]
         /\ pc' = [pc EXCEPT ![b] = "putIndex"]
      \/ /\ StaleChunks(w.new, w.bumps, index) = {}
         /\ view' = [view EXCEPT ![b] = Reconciled(w.new, w.bumps, index)]
         /\ pc' = [pc EXCEPT ![b] = "putIndex"]
  BY Zenon DEF FetchIndex
<1>3. CASE pc' = [pc EXCEPT ![b] = "deregHeld"] /\ UNCHANGED view
  <2>1. OthersKeep(b) /\ HolderMoves(b, "deregHeld") /\ "deregHeld" \in Free \cap PhasesOf(b)
    BY Zenon, <1>0, <1>1, <1>3 DEF OthersKeep, HolderMoves, BackupAt, HolderAt, Free
  <2> QED BY Zenon, <1>0, <1>1, <1>3, <2>1, FreeStep
<1>4. CASE ~(pc' = [pc EXCEPT ![b] = "deregHeld"] /\ UNCHANGED view)
  <2>1. /\ StaleChunks(w.new, w.bumps, index) = {}
        /\ view' = [view EXCEPT ![b] = Reconciled(w.new, w.bumps, index)]
        /\ pc' = [pc EXCEPT ![b] = "putIndex"]
    BY ZenonT(30), <1>1, <1>2, <1>4, FastPathSafe
  <2>2. OthersKeep(b) /\ HolderMoves(b, "putIndex") /\ "putIndex" \in PhasesOf(b)
    BY Zenon, <1>0, <1>1, <2>1 DEF OthersKeep, HolderMoves, BackupAt, HolderAt
  <2>3. pc'[b] = "putIndex" /\ view'[b] = Reconciled(w.new, w.bumps, index)
    BY Zenon, <1>0, <2>1
  <2>4. IsIndex(w.new) /\ IsIndex(index) /\ w.bumps \in Counts
    BY ZenonT(30), <1>0, IndexEntries DEF WriteSessions
  <2>5. ASSUME NEW c \in Chunks PROVE view'[b][c].refs = index[c].refs + w.refs[c]
    <3>1. view'[b][c].refs = index[c].refs + w.new[c].refs + w.bumps[c]
      BY <2>1, <2>3, <2>4, ReconcileCountsAll
    <3>2. w.refs[c] = w.new[c].refs + w.bumps[c] + w.writer[c] /\ w.writer = NoCounts
      BY Zenon, <1>0, <1>1 DEF SessionLocal, Flushed
    <3>3. /\ w.new[c].refs \in Nat /\ w.bumps[c] \in Nat /\ w.writer[c] = 0
          /\ index[c].refs \in Nat
      BY Zenon, <1>0, <3>2, SessionCounts, IndexEntries DEF NoCounts
    <3> QED BY <3>1, <3>2, <3>3
  <2>6. SessionLocal(b)'
    BY Zenon, <1>0, <1>1, <2>3 DEF SessionLocal, Uploading, Flushed
  <2>7. GenLocal(b)' /\ CommitLocal(b)'
    BY Zenon, <1>1, <2>3, <2>5 DEF GenLocal, CommitLocal, Uploading
  <2> QED BY Zenon, <1>0, <1>1, <2>1, <2>2, <2>6, <2>7, QuietStep
<1> QED BY Zenon, <1>3, <1>4

LEMMA PutIndexCounts ==
  ASSUME CountingLaws, CountsInv, Undisturbed, NEW b \in Backups, PutIndex(b)
  PROVE  CountsInv'
<1> USE DEF Goto, Fail, packVars, indexVars, lockVars, viewVars, maintVars, auxVars
<1>0. /\ TypeOK /\ TypeOK' /\ b \in Procs /\ b \notin Maints /\ DOMAIN pc = Procs
      /\ PhasesOf(b) = BackupAt /\ ws[b] \in WriteSessions
      /\ SessionLocal(b) /\ GenLocal(b) /\ CommitLocal(b)
  BY Zenon, CommitTypes, KindOf DEF CountsInv, TypeOK
<1>1. /\ pc[b] = "putIndex" /\ Quiet
      /\ UNCHANGED <<snaps, lock, view, viewGen, ws, targets, left>>
  BY Zenon DEF PutIndex
<1>2. CASE lock = b /\ index' = view[b] /\ gen' = gen + 1
  <2>1. PICK l \in {"putSnapshot", "deregHeld"} : pc' = [pc EXCEPT ![b] = l]
    BY <1>1, Zenon DEF PutIndex
  <2>2. OthersKeep(b) /\ l \in PhasesOf(b) /\ l \in HolderAt /\ pc'[b] = l
    BY ZenonT(30), <1>0, <1>1, <2>1 DEF OthersKeep, BackupAt, HolderAt
  <2>3. ASSUME NEW c \in Chunks
        PROVE  /\ index'[c].refs >= RefsTo(snaps, c) + ws[b].refs[c]
               /\ index'[c].refs >= RefsTo(snaps, c)
    <3>1. index'[c].refs = index[c].refs + ws[b].refs[c]
      BY Zenon, <1>0, <1>1, <1>2 DEF CommitLocal
    <3>2. RefsTo(snaps, c) \in Nat /\ index[c].refs \in Nat /\ index[c].refs >= RefsTo(snaps, c)
      BY Zenon, SnapsCount
    <3>3. ws[b].refs[c] \in Nat
      BY Zenon, <1>0, SessionCounts
    <3> QED BY <3>1, <3>2, <3>3
  <2>4. CoversInv'
    BY Zenon, <1>1, <2>3 DEF CoversInv, RefcountsCover, CountsInv
  <2>5. SessionLocal(b)'
    BY ZenonT(30), <1>0, <1>1, <2>2 DEF SessionLocal, Uploading, Flushed
  <2>6. GenLocal(b)' /\ CommitLocal(b)'
    BY Zenon, <1>1, <2>2, <2>3 DEF GenLocal, CommitLocal, Uploading
  <2> QED BY Zenon, <1>0, <1>1, <1>2, <2>1, <2>2, <2>4, <2>5, <2>6, WritingStep
<1>3. CASE pc' = [pc EXCEPT ![b] = "deregHeld"] /\ UNCHANGED <<index, gen>>
  <2>1. OthersKeep(b) /\ HolderMoves(b, "deregHeld") /\ "deregHeld" \in Free \cap PhasesOf(b)
    BY Zenon, <1>0, <1>1, <1>3 DEF OthersKeep, HolderMoves, BackupAt, HolderAt, Free
  <2> QED BY Zenon, <1>0, <1>1, <1>3, <2>1, FreeStep
<1> QED BY <1>2, <1>3, Zenon DEF PutIndex

LEMMA PutSnapshotCounts ==
  ASSUME CountingLaws, CountsInv, Undisturbed, NEW b \in Backups, PutSnapshot(b)
  PROVE  CountsInv'
<1> USE DEF Goto, Fail, packVars, indexVars, lockVars, viewVars, maintVars, auxVars
<1> DEFINE s == [id |-> b, name |-> scenario.names[b], refs |-> ws[b].refs]
<1>0. /\ TypeOK /\ TypeOK' /\ b \in Procs /\ b \notin Maints /\ DOMAIN pc = Procs
      /\ PhasesOf(b) = BackupAt /\ ws[b] \in WriteSessions
      /\ SessionLocal(b) /\ GenLocal(b) /\ CommitLocal(b)
  BY Zenon, CommitTypes, KindOf DEF CountsInv, TypeOK
<1>1. /\ pc[b] = "putSnapshot" /\ Quiet
      /\ UNCHANGED <<index, gen, lock, view, viewGen, ws, targets, left>>
  BY Zenon DEF PutSnapshot
<1>2. CASE lock = b /\ snaps' = snaps \cup {s}
  <2>1. PICK l \in {"cleanup", "deregHeld"} : pc' = [pc EXCEPT ![b] = l]
    BY <1>1, Zenon DEF PutSnapshot
  <2>2. OthersKeep(b) /\ l \in PhasesOf(b) /\ l \in HolderAt /\ pc'[b] = l /\ l \in Free
    BY Zenon, <1>0, <1>1, <2>1 DEF OthersKeep, BackupAt, HolderAt, Free
  <2>3. ASSUME NEW c \in Chunks PROVE index[c].refs >= RefsTo(snaps', c)
    <3>1. index[c].refs >= RefsTo(snaps, c) + ws[b].refs[c]
      BY Zenon, <1>0, <1>1, <1>2 DEF CommitLocal
    <3>2. RefsTo(snaps, c) \in Nat /\ index[c].refs \in Nat /\ Counting(snaps, c)
      BY Zenon, SnapsCount
    <3>3. ws[b].refs[c] \in Nat
      BY Zenon, <1>0, SessionCounts
    <3>4. RefsTo({s}, c) = ws[b].refs[c] /\ Counting({s}, c)
      <4>1. s.refs = ws[b].refs
        BY Zenon
      <4> HIDE DEF s
      <4> QED BY Zenon, <3>3, <4>1, RefsToOne
    <3> HIDE DEF s
    <3>5. RefsTo(snaps \cup {s}, c) <= RefsTo(snaps, c) + RefsTo({s}, c)
      BY Zenon, <3>2, <3>4, RefsToUnion
    <3>6. RefsTo(snaps \cup {s}, c) \in Nat
      BY Zenon, <3>2, <3>4, RefsToUnion, RefsToType
    <3> QED BY <1>2, <3>1, <3>2, <3>3, <3>4, <3>5, <3>6
  <2>4. IsFiniteSet(snaps')
    BY Zenon, <1>2, FiniteSetLaws DEF CountsInv
  <2>5. CoversInv'
    BY Zenon, <1>1, <2>3, <2>4 DEF CoversInv, RefcountsCover
  <2>6. SessionLocal(b)' /\ GenLocal(b)' /\ CommitLocal(b)'
    BY Zenon, <2>2, FreeLocal
  <2> QED BY Zenon, <1>0, <1>1, <1>2, <2>1, <2>2, <2>5, <2>6, WritingStep
<1>3. CASE pc' = [pc EXCEPT ![b] = "deregHeld"] /\ UNCHANGED snaps
  <2>1. OthersKeep(b) /\ HolderMoves(b, "deregHeld") /\ "deregHeld" \in Free \cap PhasesOf(b)
    BY Zenon, <1>0, <1>1, <1>3 DEF OthersKeep, HolderMoves, BackupAt, HolderAt, Free
  <2> QED BY Zenon, <1>0, <1>1, <1>3, <2>1, FreeStep
<1> QED BY <1>2, <1>3, Zenon DEF PutSnapshot

--------------------------------------------------------------------------------
\* Maintenance

LEMMA HolderKeepsMoving ==
  ASSUME NEW m \in Maints, NEW l \in HolderAt, lock' = lock
  PROVE  HolderMoves(m, l)
BY Zenon DEF HolderMoves

LEMMA LockCounts ==
  ASSUME CountingLaws, CountsInv, NEW m \in Maints, MaintenanceLock(m) \/ MaintenanceRefused(m)
  PROVE  CountsInv'
<1> USE DEF Goto, packVars, indexVars, lockVars, viewVars, maintVars, auxVars
<1>0. /\ TypeOK /\ m \in Procs /\ m \notin Backups /\ m \notin Readers /\ DOMAIN pc = Procs
      /\ MaintLocal(m) /\ (lock = m => pc[m] \in HolderAt)
      /\ {"work", "done"} \subseteq PhasesOf(m)
  BY ZenonT(30), KindOf DEF CountsInv, TypeOK, PhaseInv, PhasesOf, CompactAt, RemoverAt
<1>1. pc[m] = "lock" /\ UNCHANGED <<index, gen, snaps, view, viewGen, ws, targets, left>>
  BY Zenon DEF MaintenanceLock, MaintenanceRefused
<1>2. TypeOK' /\ lock # m
  BY Zenon, <1>0, <1>1, MaintenanceTypes DEF MaintenanceStep, HolderAt
<1>3. CASE lock' = m /\ pc' = [pc EXCEPT ![m] = "work"]
  <2>1. OthersKeep(m) /\ HolderMoves(m, "work") /\ pc'[m] = "work"
    BY ZenonT(30), <1>0, <1>1, <1>3 DEF OthersKeep, HolderMoves, HolderAt
  <2>2. MaintLocal(m)'
    BY Zenon, <1>0, <1>1, <2>1 DEF MaintLocal
  <2> QED BY Zenon, <1>0, <1>1, <1>2, <1>3, <2>1, <2>2, QuietStep
<1>4. CASE lock' = lock /\ pc' = [pc EXCEPT ![m] = "done"]
  <2>1. OthersKeep(m) /\ HolderMoves(m, "done") /\ "done" \in Free
    BY Zenon, <1>0, <1>1, <1>2, <1>4 DEF OthersKeep, HolderMoves, Free
  <2> QED BY Zenon, <1>0, <1>1, <1>2, <1>4, <2>1, FreeStep
<1> QED BY <1>3, <1>4, Zenon DEF MaintenanceLock, MaintenanceRefused

LEMMA RemovalCounts ==
  ASSUME CountingLaws, CountsInv, Undisturbed, NEW m \in Maints,
         ChooseTargets(m) \/ DeleteSnapshot(m) \/ SaveDecremented(m)
  PROVE  CountsInv'
<1> USE DEF Goto, packVars, indexVars, lockVars, viewVars, maintVars, auxVars
<1>0. /\ TypeOK /\ m \in Procs /\ m \notin Backups /\ DOMAIN pc = Procs
      /\ DOMAIN targets = Maints /\ DOMAIN left = Maints
      /\ MaintLocal(m) /\ TypeOK'
  <2>1. TypeOK /\ MaintLocal(m)
    BY Zenon DEF CountsInv
  <2>2. pc[m] = "save" /\ lock = m => IsFiniteSet(targets[m])
    BY Zenon, <2>1 DEF MaintLocal
  <2> QED BY Zenon, <2>1, <2>2, MaintenanceTypes, KindOf DEF MaintenanceStep, TypeOK
<1>1. pc[m] \in {"work", "delete", "save"} /\ UNCHANGED <<lock, view, viewGen, ws>>
  BY Zenon DEF ChooseTargets, DeleteSnapshot, SaveDecremented
<1>2. m \in Compacts => pc[m] \notin {"delete", "save"}
  BY Zenon, KindOf DEF CountsInv, PhaseInv, CompactAt
<1>3. m \in Deletes \cup Prunes
  BY <1>2, Zenon DEF ChooseTargets, DeleteSnapshot, SaveDecremented, Maints
<1>4. PhasesOf(m) = RemoverAt
  BY Zenon, <1>3, KindOf
<1>5. CASE ChooseTargets(m)
  <2>1. pc[m] = "work" /\ UNCHANGED <<index, gen, snaps>>
    BY <1>5, Zenon DEF ChooseTargets
  <2>2. CASE pc' = [pc EXCEPT ![m] = "release"] /\ UNCHANGED <<targets, left>>
    <3>1. OthersKeep(m) /\ HolderMoves(m, "release") /\ "release" \in Free \cap PhasesOf(m)
      BY Zenon, <1>0, <1>1, <1>4, <2>2 DEF OthersKeep, HolderMoves, HolderAt, Free, RemoverAt
    <3> QED BY Zenon, <1>0, <2>1, <2>2, <3>1, FreeStep
  <2>3. ASSUME NEW T \in SUBSET listed[m], T \subseteq snaps,
               targets' = [targets EXCEPT ![m] = T], left' = [left EXCEPT ![m] = T],
               pc' = [pc EXCEPT ![m] = "delete"]
        PROVE  CountsInv'
    <3>1. OthersKeep(m) /\ HolderMoves(m, "delete") /\ "delete" \in PhasesOf(m) /\ pc'[m] = "delete"
      BY Zenon, <1>0, <1>1, <1>4, <2>3 DEF OthersKeep, HolderMoves, HolderAt, RemoverAt
    <3>2. targets'[m] = T /\ left'[m] = T /\ snaps \cup T = snaps
      BY Zenon, <1>0, <2>3
    <3>3. IsFiniteSet(T)
      BY Zenon, <2>3, FiniteSetLaws DEF CountsInv
    <3>4. \A c \in Chunks : index[c].refs >= RefsTo(snaps, c)
      BY Zenon DEF CountsInv, RefcountsCover
    <3>5. lock = m => view[m] = index
      BY Zenon, <1>0, <2>1 DEF MaintLocal
    <3>6. MaintLocal(m)'
      BY Zenon, <1>1, <2>1, <3>1, <3>2, <3>3, <3>4, <3>5 DEF MaintLocal
    <3> QED BY Zenon, <1>0, <1>1, <2>1, <2>3, <3>1, <3>6, QuietStep
  <2> QED BY <1>5, <2>2, <2>3, Zenon DEF ChooseTargets
<1>6. CASE DeleteSnapshot(m)
  <2>1. pc[m] = "delete" /\ Quiet /\ UNCHANGED <<index, gen, targets>>
    BY <1>6, Zenon DEF DeleteSnapshot
  <2>2. CASE pc' = [pc EXCEPT ![m] = "release"] /\ UNCHANGED <<snaps, left>>
    <3>1. OthersKeep(m) /\ HolderMoves(m, "release") /\ "release" \in Free \cap PhasesOf(m)
      BY Zenon, <1>0, <1>1, <1>4, <2>1, <2>2 DEF OthersKeep, HolderMoves, HolderAt, Free, RemoverAt
    <3> QED BY Zenon, <1>0, <2>1, <2>2, <3>1, FreeStep
  <2>3. ASSUME lock = m, NEW s \in left[m], snaps' = snaps \ {s},
               left' = [left EXCEPT ![m] = @ \ {s}],
               NEW l \in {"save", "delete", "release"}, pc' = [pc EXCEPT ![m] = l],
               l = "save" => left[m] = {s}
        PROVE  CountsInv'
    <3>1. OthersKeep(m) /\ l \in HolderAt /\ l \in PhasesOf(m) /\ pc'[m] = l
      BY Zenon, <1>0, <1>1, <1>4, <2>1, <2>3 DEF OthersKeep, HolderAt, RemoverAt
    <3>2. /\ targets[m] \cap snaps \subseteq left[m] /\ IsFiniteSet(targets[m])
          /\ \A c \in Chunks : index[c].refs >= RefsTo(snaps \cup targets[m], c)
          /\ view[m] = index
      BY Zenon, <1>0, <2>1, <2>3 DEF MaintLocal
    <3>3. targets'[m] = targets[m] /\ left'[m] = left[m] \ {s}
      BY Zenon, <1>0, <2>1, <2>3
    <3>4. ASSUME NEW c \in Chunks
          PROVE  /\ index[c].refs >= RefsTo(snaps' \cup targets[m], c)
                 /\ index[c].refs >= RefsTo(snaps', c)
      <4>1. Counting(snaps, c) /\ index[c].refs \in Nat /\ index[c].refs >= RefsTo(snaps, c)
            /\ RefsTo(snaps, c) \in Nat
        BY Zenon, SnapsCount
      <4>2. Counting(targets[m], c)
        BY <1>0, <3>2 DEF Counting, TypeOK, Snapshots, Counts
      <4>3. Counting(snaps \cup targets[m], c)
        BY Zenon, <4>1, <4>2, RefsToUnion
      <4>4. RefsTo(snaps', c) <= RefsTo(snaps, c) /\ Counting(snaps', c)
        BY Zenon, <2>3, <4>1, RefsToMonotone
      <4>5. /\ RefsTo(snaps' \cup targets[m], c) <= RefsTo(snaps \cup targets[m], c)
            /\ Counting(snaps' \cup targets[m], c)
        BY Zenon, <2>3, <4>3, RefsToMonotone
      <4>6. /\ RefsTo(snaps', c) \in Nat /\ RefsTo(snaps' \cup targets[m], c) \in Nat
            /\ RefsTo(snaps \cup targets[m], c) \in Nat
        BY Zenon, <4>3, <4>4, <4>5, RefsToType
      <4>7. index[c].refs >= RefsTo(snaps \cup targets[m], c)
        BY Zenon, <3>2
      <4> QED BY <4>1, <4>4, <4>5, <4>6, <4>7
    <3>5. IsFiniteSet(snaps')
      BY Zenon, <2>3, FiniteSetLaws DEF CountsInv
    <3>6. CoversInv'
      BY Zenon, <2>1, <3>4, <3>5 DEF CoversInv, RefcountsCover
    <3>7. MaintLocal(m)'
      BY Zenon, <1>1, <2>1, <2>3, <3>1, <3>2, <3>3, <3>4 DEF MaintLocal
    <3> QED BY Zenon, <1>0, <1>1, <2>1, <2>3, <3>1, <3>6, <3>7, WritingStep
  <2> QED BY <1>6, <2>2, <2>3, Zenon DEF DeleteSnapshot
<1>7. CASE SaveDecremented(m)
  <2>1. /\ pc[m] = "save" /\ Quiet /\ UNCHANGED <<snaps, targets, left>>
        /\ pc' = [pc EXCEPT ![m] = "release"]
    BY <1>7, Zenon DEF SaveDecremented
  <2>2. /\ OthersKeep(m) /\ HolderMoves(m, "release") /\ "release" \in Free \cap PhasesOf(m)
        /\ "release" \in HolderAt /\ pc'[m] = "release"
    BY Zenon, <1>0, <1>1, <1>4, <2>1 DEF OthersKeep, HolderMoves, HolderAt, Free, RemoverAt
  <2>3. CASE UNCHANGED <<index, gen>>
    BY Zenon, <1>0, <2>1, <2>2, <2>3, FreeStep
  <2>4. CASE lock = m /\ index' = DecrementTargets(m) /\ gen' = gen + 1
    <3>1. /\ targets[m] \cap snaps = {} /\ IsFiniteSet(targets[m])
          /\ \A c \in Chunks : index[c].refs >= RefsTo(snaps \cup targets[m], c)
          /\ view[m] = index
      BY Zenon, <1>0, <2>1, <2>4 DEF MaintLocal
    <3> DEFINE n == [c \in Chunks |-> RefsTo(targets[m], c)]
    <3>2. ASSUME NEW c \in Chunks
          PROVE  /\ RefsTo(targets[m], c) \in Nat /\ RefsTo(snaps, c) \in Nat
                 /\ index[c].refs \in Nat
                 /\ index[c].refs >= RefsTo(snaps, c) + RefsTo(targets[m], c)
      <4>1. Counting(snaps, c) /\ index[c].refs \in Nat /\ RefsTo(snaps, c) \in Nat
        BY Zenon, SnapsCount
      <4>2. Counting(targets[m], c)
        BY <1>0, <3>1 DEF Counting, TypeOK, Snapshots, Counts
      <4>3. RefsTo(snaps \cup targets[m], c) = RefsTo(snaps, c) + RefsTo(targets[m], c)
        BY <3>1, <4>1, <4>2, RefsToUnion
      <4> QED BY Zenon, <3>1, <4>1, <4>2, <4>3, RefsToType
    <3>3. n \in Counts
      BY Zenon, <3>2 DEF Counts
    <3>4. index \in Indices /\ index' = Decremented(index, n)
      BY Zenon, <1>0, <2>4, <3>1 DEF TypeOK, DecrementTargets
    <3>5. ASSUME NEW c \in Chunks PROVE index'[c].refs >= RefsTo(snaps, c)
      <4>1. n[c] = RefsTo(targets[m], c)
        BY Zenon
      <4> HIDE DEF n
      <4>2. index'[c].refs = IF index[c].refs <= n[c] THEN 0 ELSE index[c].refs - n[c]
        BY Zenon, <3>3, <3>4, DecrementedIsIndex
      <4> QED BY <3>2, <4>1, <4>2
    <3>6. CoversInv'
      BY Zenon, <2>1, <3>5 DEF CoversInv, RefcountsCover, CountsInv
    <3>7. MaintLocal(m)'
      BY Zenon, <2>2, FreeLocal
    <3> QED BY Zenon, <1>0, <1>1, <2>1, <2>2, <2>4, <3>6, <3>7, WritingStep
  <2> QED BY <1>7, <2>3, <2>4, Zenon DEF SaveDecremented
<1> QED BY Zenon, <1>5, <1>6, <1>7

LEMMA CompactCounts ==
  ASSUME CountingLaws, CountsInv, Undisturbed, NEW m \in Maints,
         \/ Analyse(m) \/ DeleteOrphan(m) \/ WriteRepacked(m) \/ SaveRelocated(m)
         \/ DeleteOld(m) \/ EndCompact(m)
  PROVE  CountsInv'
<1> USE DEF Goto, packVars, indexVars, lockVars, viewVars, maintVars, auxVars
<1>0. /\ TypeOK /\ m \in Procs /\ m \notin Backups
      /\ DOMAIN pc = Procs /\ DOMAIN view = Procs
      /\ m \in Compacts /\ PhasesOf(m) = CompactAt /\ MaintLocal(m)
      /\ UNCHANGED <<lock, viewGen, ws, targets, left, snaps>>
  BY KindOf, Zenon DEF CountsInv, TypeOK, Analyse, DeleteOrphan, WriteRepacked, SaveRelocated,
        DeleteOld, EndCompact
<1>1. TypeOK'
  <2>1. pc[m] # "save"
    BY Zenon, <1>0 DEF CountsInv, PhaseInv, CompactAt
  <2> QED BY ZenonT(30), <1>0, <2>1, MaintenanceTypes DEF MaintenanceStep
<1>2. ASSUME UNCHANGED <<index, gen, view>>, pc' = [pc EXCEPT ![m] = "release"]
      PROVE  CountsInv'
  <2>1. OthersKeep(m) /\ HolderMoves(m, "release") /\ "release" \in Free \cap PhasesOf(m)
    BY Zenon, <1>0, <1>2 DEF OthersKeep, HolderMoves, HolderAt, Free, CompactAt
  <2> QED BY Zenon, <1>0, <1>1, <1>2, <2>1, FreeStep
<1>3. CASE Analyse(m)
  <2>1. PICK l \in {"repack", "release"} : pc' = [pc EXCEPT ![m] = l]
    BY <1>3, Zenon DEF Analyse
  <2>2. pc[m] = "work" /\ UNCHANGED <<index, gen, view>>
    BY <1>3, Zenon DEF Analyse
  <2>3. OthersKeep(m) /\ HolderMoves(m, l) /\ l \in PhasesOf(m) /\ pc'[m] = l
    BY Zenon, <1>0, <2>1, <2>2 DEF OthersKeep, HolderMoves, HolderAt, CompactAt
  <2>4. MaintLocal(m)'
    BY Zenon, <1>0, <2>1, <2>2, <2>3 DEF MaintLocal
  <2> QED BY Zenon, <1>0, <1>1, <2>1, <2>2, <2>3, <2>4, QuietStep
<1>4. CASE DeleteOrphan(m)
  <2>1. pc[m] = "repack" /\ UNCHANGED <<index, gen, view, pc>>
    BY <1>4, Zenon DEF DeleteOrphan
  <2>2. pc' = [pc EXCEPT ![m] = "repack"] /\ pc'[m] = "repack"
    BY Zenon, <1>0, <2>1 DEF TypeOK
  <2>3. OthersKeep(m) /\ HolderMoves(m, "repack") /\ "repack" \in PhasesOf(m)
    BY ZenonT(30), <1>0, <2>1 DEF OthersKeep, HolderMoves, HolderAt, CompactAt
  <2>4. MaintLocal(m)'
    BY ZenonT(30), <1>0, <2>1, <2>2 DEF MaintLocal
  <2> QED BY Zenon, <1>0, <1>1, <2>1, <2>2, <2>3, <2>4, QuietStep
<1>5. CASE WriteRepacked(m)
  <2>1. pc[m] = "repack" /\ UNCHANGED <<index, gen>>
    BY <1>5, Zenon DEF WriteRepacked
  <2>2. PICK a \in todo[m] :
          LET pack == {blob \in a.pack : blob[1] \in a.live}
          IN  IF a.pack \in packs
              THEN /\ packs' = packs \cup {pack}
                   /\ view' = [view EXCEPT ![m] = Relocated(@, a.live, pack)]
                   /\ work' = [work EXCEPT ![m] = a.pack]
                   /\ todo' = [todo EXCEPT ![m] = @ \ {a}]
                   /\ Goto(m, "saveIndex") \/ (Flaky /\ Goto(m, "release"))
              ELSE UNCHANGED <<packs, view, work, todo>> /\ Goto(m, "release")
    BY <1>5, Zenon DEF WriteRepacked
  <2> DEFINE pack == {blob \in a.pack : blob[1] \in a.live}
  <2>3. CASE a.pack \in packs
    <3>1. PICK l \in {"saveIndex", "release"} : pc' = [pc EXCEPT ![m] = l]
      BY Zenon, <2>2, <2>3
    <3>2. view' = [view EXCEPT ![m] = Relocated(view[m], a.live, pack)]
      BY Zenon, <2>2, <2>3
    <3>3. pack \in SUBSET Blobs /\ view[m] \in Indices
      BY <1>0 DEF TypeOK
    <3> HIDE DEF pack
    <3>4. OthersKeep(m) /\ HolderMoves(m, l) /\ l \in PhasesOf(m) /\ pc'[m] = l
      BY ZenonT(30), <1>0, <2>1, <3>1, <3>2 DEF OthersKeep, HolderMoves, HolderAt, CompactAt
    <3>5. view'[m] = Relocated(view[m], a.live, pack)
      BY ZenonT(30), <1>0, <3>2
    <3>6. \A c \in Chunks : view'[m][c].refs = view[m][c].refs
      BY <3>3, <3>5, RelocatedIsIndex
    <3>7. lock = m => view[m] = index
      BY ZenonT(30), <1>0, <2>1 DEF MaintLocal
    <3>8. MaintLocal(m)'
      BY Zenon, <1>0, <2>1, <3>1, <3>4, <3>6, <3>7 DEF MaintLocal
    <3> QED BY Zenon, <1>0, <1>1, <2>1, <3>1, <3>4, <3>8, QuietStep
  <2>4. CASE a.pack \notin packs
    BY Zenon, <1>2, <2>1, <2>2, <2>4
  <2> QED BY Zenon, <2>3, <2>4
<1>6. CASE SaveRelocated(m)
  <2>1. pc[m] = "saveIndex" /\ Quiet /\ UNCHANGED view
    BY <1>6, Zenon DEF SaveRelocated
  <2>2. CASE lock = m /\ index' = view[m] /\ gen' = gen + 1
    <3>1. PICK l \in {"deleteOld", "release"} : pc' = [pc EXCEPT ![m] = l]
      BY <1>6, Zenon DEF SaveRelocated
    <3>2. OthersKeep(m) /\ l \in HolderAt /\ l \in PhasesOf(m) /\ pc'[m] = l
      BY Zenon, <1>0, <2>1, <3>1 DEF OthersKeep, HolderAt, CompactAt
    <3>3. \A c \in Chunks : index'[c].refs = index[c].refs
      BY ZenonT(30), <1>0, <2>1, <2>2 DEF MaintLocal
    <3>4. CoversInv'
      BY ZenonT(30), <1>0, <3>3 DEF CoversInv, RefcountsCover, CountsInv
    <3>5. MaintLocal(m)'
      BY Zenon, <1>0, <2>1, <2>2, <3>1, <3>2 DEF MaintLocal
    <3> QED BY ZenonT(30), <1>0, <1>1, <2>1, <2>2, <3>1, <3>2, <3>4, <3>5, WritingStep
  <2>3. CASE UNCHANGED <<index, gen>> /\ pc' = [pc EXCEPT ![m] = "release"]
    BY Zenon, <1>2, <2>1, <2>3
  <2> QED BY <1>6, <2>2, <2>3, Zenon DEF SaveRelocated
<1>7. CASE DeleteOld(m)
  <2>1. pc[m] = "deleteOld" /\ UNCHANGED <<index, gen, view>>
    BY <1>7, Zenon DEF DeleteOld
  <2>2. PICK l \in {"repack", "release"} : pc' = [pc EXCEPT ![m] = l]
    BY <1>7, Zenon DEF DeleteOld
  <2>3. OthersKeep(m) /\ HolderMoves(m, l) /\ l \in PhasesOf(m) /\ pc'[m] = l
    BY Zenon, <1>0, <2>1, <2>2 DEF OthersKeep, HolderMoves, HolderAt, CompactAt
  <2>4. MaintLocal(m)'
    BY Zenon, <1>0, <2>1, <2>2, <2>3 DEF MaintLocal
  <2> QED BY Zenon, <1>0, <1>1, <2>1, <2>2, <2>3, <2>4, QuietStep
<1>8. CASE EndCompact(m)
  BY Zenon, <1>2, <1>8 DEF EndCompact
<1> QED BY Zenon, <1>3, <1>4, <1>5, <1>6, <1>7, <1>8

\* A step that moves nobody and writes nothing but markers or the lock.
LEMMA IdleCounts ==
  ASSUME CountsInv, TypeOK', lock' \in {lock, None},
         UNCHANGED <<index, gen, snaps, pc, view, viewGen, ws, targets, left>>
  PROVE  CountsInv'
<1>1. PhaseInv'
  BY Zenon, PhaseStays DEF CountsInv
<1>2. CoversInv'
  BY Zenon, CoversKept DEF CountsInv, CoversInv
<1>3. ASSUME NEW b \in Backups PROVE (SessionLocal(b) /\ GenLocal(b) /\ CommitLocal(b))'
  <2>1. lock' = b => lock = b
    BY Zenon, KindOf
  <2>2. SessionLocal(b)'
    BY ZenonT(30) DEF CountsInv, SessionLocal
  <2>3. GenLocal(b)'
    BY ZenonT(30) DEF CountsInv, GenLocal
  <2>4. CommitLocal(b)'
    BY ZenonT(30), <2>1 DEF CountsInv, CommitLocal
  <2> QED BY Zenon, <2>2, <2>3, <2>4
<1>4. ASSUME NEW m \in Maints PROVE MaintLocal(m)'
  <2>1. lock' = m => lock = m
    BY Zenon, KindOf
  <2> QED BY Zenon, <2>1 DEF CountsInv, MaintLocal
<1> QED BY Zenon, <1>1, <1>2, <1>3, <1>4 DEF CountsInv, CoversInv

LEMMA CountsPreserved ==
  ASSUME CountingLaws, Undisturbed, CountsInv, [Next]_vars
  PROVE  CountsInv'
<1> USE DEF packVars, indexVars, lockVars, viewVars, maintVars, auxVars
<1>1. ASSUME NEW p \in Procs, ListSnapshots(p) \/ LoadIndex(p) \/ Release(p) \/ Crash(p)
      PROVE  CountsInv'
  BY Zenon, <1>1, CommonCounts
<1>2. ASSUME NEW s \in Sessions, Register(s) \/ Deregister(s) PROVE CountsInv'
  BY Zenon, <1>2, CommonCounts DEF Procs
<1>3. ASSUME NEW b \in Backups, BackupStep(b) PROVE CountsInv'
  BY <1>3, UploadCounts, SealCounts, StoreCounts, FlushCounts, FetchCounts, PutIndexCounts,
     PutSnapshotCounts, Zenon DEF BackupStep
<1>4. ASSUME NEW r \in Readers, RefreshMarker(r) PROVE CountsInv'
  <2>1. TypeOK'
    BY Zenon, <1>4, KindOf, CommonTypes DEF CountsInv
  <2> QED BY Zenon, <1>4, <2>1, IdleCounts DEF RefreshMarker
<1>5. ASSUME NEW r \in Readers, EndRead(r) PROVE CountsInv'
  BY Zenon, <1>5, KindOf, CommonCounts
<1>6. ASSUME NEW m \in Maints, MaintenanceStep(m) PROVE CountsInv'
  BY <1>6, LockCounts, RemovalCounts, CompactCounts, Zenon DEF MaintenanceStep
<1>7. CASE LoseLock
  <2>1. TypeOK'
    BY <1>7 DEF LoseLock, TypeOK, CountsInv
  <2> QED BY ZenonT(30), <1>7, <2>1, IdleCounts DEF LoseLock
<1>8. CASE Terminated \/ UNCHANGED vars
  <2>1. UNCHANGED vars
    BY Zenon, <1>8 DEF Terminated
  <2>2. TypeOK'
    BY Zenon, <2>1 DEF vars, TypeOK, CountsInv
  <2> QED BY Zenon, <2>1, <2>2, IdleCounts DEF vars
<1> QED
  BY Zenon, <1>1, <1>2, <1>3, <1>4, <1>5, <1>6, <1>7, <1>8 DEF Next

LEMMA CountsImplySound == CountsInv => IndexSound
<1> SUFFICES ASSUME CountsInv PROVE IndexSound
  BY Zenon
<1>1. FastPathAgrees
  BY Zenon, FastPathSafe DEF FastPathAgrees
<1> QED BY Zenon, <1>1 DEF IndexSound, CountsInv
================================================================================
