--------------------------- MODULE Repository_proofs ---------------------------
(***************************************************************************)
(* Theorems about Repository, last part: the laws of counting references,  *)
(* the repacking of compact, and the theorems that follow from the two     *)
(* invariants, for any number of backups, readers and maintenance          *)
(* commands, any set of chunks and any scenario.                           *)
(***************************************************************************)
EXTENDS RepositoryCounts_proofs, RepositoryPacks_proofs, FiniteSetTheorems

--------------------------------------------------------------------------------
\* References(S, c) has one element for every reference that S has to c, so that counting
\* references is counting the elements of a finite set.

LEMMA Column ==
  ASSUME NEW s, NEW n \in Nat
  PROVE  IsFiniteSet({s} \X (1..n)) /\ Cardinality({s} \X (1..n)) = n
<1>1. IsFiniteSet({s}) /\ Cardinality({s}) = 1
  BY Zenon, FS_Singleton
<1>2. IsFiniteSet(1..n)
  BY FS_Interval
<1>3. Cardinality(1..n) = n
  BY FS_Interval
<1>4. /\ IsFiniteSet({s} \X (1..n))
      /\ Cardinality({s} \X (1..n)) = Cardinality({s}) * Cardinality(1..n)
  BY <1>1, <1>2, FS_Product, Zenon
<1> QED BY <1>1, <1>3, <1>4

LEMMA ReferencesFinite ==
  ASSUME NEW S, NEW c, Counting(S, c)
  PROVE  IsFiniteSet(References(S, c))
<1> DEFINE f == [s \in S |-> {s} \X (1..s.refs[c])]
           T == {{s} \X (1..s.refs[c]) : s \in S}
<1>1. f \in Surjection(S, T)
  BY Zenon DEF Surjection
<1>2. IsFiniteSet(T)
  BY Zenon, <1>1, FS_Surjection DEF Counting
<1>3. ASSUME NEW s \in S PROVE IsFiniteSet({s} \X (1..s.refs[c]))
  BY Zenon, Column DEF Counting
<1>4. \A U \in T : IsFiniteSet(U)
  BY Zenon, <1>3
<1> QED
  BY Zenon, <1>2, <1>4, FS_UNION DEF References

LEMMA RefsToIsNat ==
  ASSUME NEW S, NEW c, Counting(S, c)
  PROVE  RefsTo(S, c) \in Nat
BY Zenon, ReferencesFinite, FS_CardinalityType DEF RefsTo

LEMMA RefsToGrows ==
  ASSUME NEW S, NEW T, NEW c, T \subseteq S, Counting(S, c)
  PROVE  RefsTo(T, c) <= RefsTo(S, c) /\ Counting(T, c)
<1>1. Counting(T, c)
  BY Zenon, FS_Subset DEF Counting
<1>2. References(T, c) \in SUBSET References(S, c)
  BY Zenon DEF References
<1>3. RefsTo(T, c) <= RefsTo(S, c)
  BY Zenon, <1>2, ReferencesFinite, FS_Subset DEF RefsTo
<1> QED BY Zenon, <1>1, <1>3

LEMMA RefsToSingle ==
  ASSUME NEW s, NEW c, s.refs[c] \in Nat
  PROVE  RefsTo({s}, c) = s.refs[c] /\ Counting({s}, c)
<1>1. References({s}, c) = {s} \X (1..s.refs[c])
  BY Zenon DEF References
<1>2. IsFiniteSet({s})
  BY Zenon, FS_Singleton
<1> QED BY Zenon, <1>1, <1>2, Column DEF RefsTo, Counting

LEMMA RefsToAdds ==
  ASSUME NEW S, NEW T, NEW c, Counting(S, c), Counting(T, c)
  PROVE  /\ Counting(S \cup T, c)
         /\ RefsTo(S \cup T, c) <= RefsTo(S, c) + RefsTo(T, c)
         /\ S \cap T = {} => RefsTo(S \cup T, c) = RefsTo(S, c) + RefsTo(T, c)
<1> DEFINE A == References(S, c)
           B == References(T, c)
<1>1. Counting(S \cup T, c)
  BY Zenon, FS_Union DEF Counting
<1>2. References(S \cup T, c) = A \cup B
  BY Zenon DEF References
<1>3. IsFiniteSet(A) /\ IsFiniteSet(B)
  BY Zenon, ReferencesFinite
<1>4. Cardinality(A \cup B) = Cardinality(A) + Cardinality(B) - Cardinality(A \cap B)
  BY Zenon, <1>3, FS_Union
<1>5. Cardinality(A) \in Nat /\ Cardinality(B) \in Nat /\ Cardinality(A \cap B) \in Nat
  BY Zenon, <1>3, FS_CardinalityType, FS_Intersection
<1>6. S \cap T = {} => A \cap B = {}
  BY DEF References
<1>7. S \cap T = {} => Cardinality(A \cap B) = 0
  BY Zenon, <1>6, FS_EmptySet
<1>8. /\ RefsTo(S \cup T, c) = Cardinality(A \cup B)
      /\ RefsTo(S, c) = Cardinality(A) /\ RefsTo(T, c) = Cardinality(B)
  BY Zenon, <1>2 DEF RefsTo
<1> HIDE DEF A, B
<1>9. RefsTo(S \cup T, c) = RefsTo(S, c) + RefsTo(T, c) - Cardinality(A \cap B)
  BY Zenon, <1>4, <1>8
<1>10. RefsTo(S, c) \in Nat /\ RefsTo(T, c) \in Nat
  BY Zenon, <1>5, <1>8
<1>11. ASSUME NEW x \in Nat, NEW y \in Nat, NEW n \in Nat
       PROVE  x + y - n <= x + y /\ (n = 0 => x + y - n = x + y)
  OBVIOUS
<1>12. RefsTo(S, c) + RefsTo(T, c) - Cardinality(A \cap B) <= RefsTo(S, c) + RefsTo(T, c)
  BY ZenonT(30), <1>5, <1>10, <1>11
<1>13. Cardinality(A \cap B) = 0 => RefsTo(S \cup T, c) = RefsTo(S, c) + RefsTo(T, c)
  BY ZenonT(30), <1>5, <1>9, <1>10, <1>11
<1> QED BY ZenonT(30), <1>1, <1>7, <1>9, <1>12, <1>13

LEMMA CountingHolds == CountingLaws
<1>1. IsFiniteSet({}) /\ \A c : RefsTo({}, c) = 0
  <2>1. \A c : References({}, c) = {}
    BY Zenon DEF References
  <2> QED BY <2>1, FS_EmptySet, Zenon DEF RefsTo
<1>2. \A S : IsFiniteSet(S) => \A T \in SUBSET S : IsFiniteSet(T)
  BY FS_Subset, Zenon
<1>3. \A S, x : IsFiniteSet(S) => IsFiniteSet(S \cup {x})
  BY FS_AddElement, Zenon
<1>4. ASSUME NEW S, NEW c, Counting(S, c)
      PROVE  /\ RefsTo(S, c) \in Nat
             /\ \A T \in SUBSET S : RefsTo(T, c) <= RefsTo(S, c) /\ Counting(T, c)
  <2>1. RefsTo(S, c) \in Nat
    BY <1>4, RefsToIsNat, Zenon
  <2>2. ASSUME NEW T \in SUBSET S PROVE RefsTo(T, c) <= RefsTo(S, c) /\ Counting(T, c)
    <3>1. T \subseteq S
      BY Zenon
    <3> QED BY <1>4, <3>1, RefsToGrows, Zenon
  <2> QED BY <2>1, <2>2, Zenon
<1>5. \A s, c : s.refs[c] \in Nat => RefsTo({s}, c) = s.refs[c] /\ Counting({s}, c)
  BY RefsToSingle, Zenon
<1>6. ASSUME NEW S, NEW T, NEW c, Counting(S, c), Counting(T, c)
      PROVE  /\ Counting(S \cup T, c)
             /\ RefsTo(S \cup T, c) <= RefsTo(S, c) + RefsTo(T, c)
             /\ S \cap T = {} => RefsTo(S \cup T, c) = RefsTo(S, c) + RefsTo(T, c)
  <2>1. Counting(S \cup T, c)
    BY <1>6, RefsToAdds, Zenon
  <2>2. RefsTo(S \cup T, c) <= RefsTo(S, c) + RefsTo(T, c)
    BY Zenon, <1>6, RefsToAdds
  <2>3. S \cap T = {} => RefsTo(S \cup T, c) = RefsTo(S, c) + RefsTo(T, c)
    BY <1>6, RefsToAdds
  <2> QED BY Zenon, <2>1, <2>2, <2>3
<1>7. \A S, c : Counting(S, c) =>
         /\ RefsTo(S, c) \in Nat
         /\ \A T \in SUBSET S : RefsTo(T, c) <= RefsTo(S, c) /\ Counting(T, c)
  BY <1>4, Zenon
<1>8. \A S, T, c : Counting(S, c) /\ Counting(T, c) =>
         /\ Counting(S \cup T, c)
         /\ RefsTo(S \cup T, c) <= RefsTo(S, c) + RefsTo(T, c)
         /\ S \cap T = {} => RefsTo(S \cup T, c) = RefsTo(S, c) + RefsTo(T, c)
  BY <1>6
<1> QED BY <1>1, <1>2, <1>3, <1>5, <1>7, <1>8, ZenonT(30) DEF CountingLaws

--------------------------------------------------------------------------------
\* The live blobs of a pack are moved to a pack that only they are in.
Repacked(a) == {blob \in a.pack : blob[1] \in a.live}
Moved(m, a) == Relocated(view[m], a.live, Repacked(a))

LEMMA Relocation ==
  ASSUME PacksInv, NEW m \in Compacts, pc[m] = "repack", NEW a \in todo[m], a.live # {}
  PROVE  /\ Indexed(Moved(m, a)) = Indexed(index) /\ LiveIn(Moved(m, a), a.pack) = {}
         /\ \A c \in Indexed(index) :
              IF c \in a.live THEN Moved(m, a)[c].pack = Repacked(a) /\ c \in ChunksOf(Repacked(a))
                              ELSE Moved(m, a)[c] = index[c]
         /\ \A x \in todo[m] \ {a} : LiveIn(Moved(m, a), x.pack) = LiveIn(index, x.pack)
<1> DEFINE pack == Repacked(a)
           v == Moved(m, a)
<1>0. /\ TypeOK /\ IndexResolves /\ m \in Maints /\ CompactLocal(m) /\ view[m] = index
  BY Zenon, CompactFacts
<1>1. /\ \A x \in todo[m] : x.live = LiveIn(index, x.pack) /\ ChunksOf(x.pack) # x.live
      /\ Disjoint({x.pack : x \in todo[m]})
  BY Zenon, <1>0 DEF CompactLocal
<1>2. \A c \in Chunks : index[c] = [pack |-> index[c].pack, refs |-> index[c].refs]
  <2>1. index \in Indices
    BY Zenon, <1>0 DEF TypeOK
  <2> QED BY Zenon, <2>1, IndexEntries
<1>3. a.live \subseteq Indexed(index) /\ Indexed(index) \subseteq Chunks
  BY Zenon, <1>1 DEF LiveIn, Indexed
<1>4. \A c \in Chunks : v[c] = IF c \in a.live THEN [index[c] EXCEPT !.pack = pack] ELSE index[c]
  BY Zenon, <1>0, <1>3 DEF Moved, Relocated
<1>5. pack \subseteq a.pack /\ \A blob \in a.pack : blob \in pack <=> blob[1] \in a.live
  BY Zenon DEF Repacked
<1> HIDE DEF pack, v
<1>6. \A c \in Chunks : /\ v[c].refs = index[c].refs
                        /\ v[c].pack = IF c \in a.live THEN pack ELSE index[c].pack
  BY Zenon, <1>2, <1>4
<1>7. Indexed(v) = Indexed(index)
  BY Zenon, <1>6 DEF Indexed
<1>8. \A c \in a.live : c \in ChunksOf(pack)
  <2> SUFFICES ASSUME NEW c \in a.live PROVE c \in ChunksOf(pack)
    BY Zenon
  <2>1. c \in Indexed(index) /\ index[c].pack = a.pack
    BY Zenon, <1>1 DEF LiveIn
  <2>2. c \in ChunksOf(a.pack)
    BY Zenon, <1>0, <2>1 DEF IndexResolves, Resolves
  <2>3. PICK blob \in a.pack : blob[1] = c
    BY Zenon, <2>2 DEF ChunksOf
  <2> QED BY Zenon, <1>5, <2>3 DEF ChunksOf
<1>9. ChunksOf(pack) = a.live
  BY Zenon, <1>5, <1>8 DEF ChunksOf
<1>10. pack # a.pack /\ pack # {} /\ pack \subseteq a.pack
  <2>1. pack # a.pack
    BY Zenon, <1>1, <1>9
  <2>2. pack # {}
    BY Zenon, <1>9 DEF ChunksOf
  <2> QED BY Zenon, <1>5, <2>1, <2>2
<1>11. LiveIn(v, a.pack) = {}
  <2> SUFFICES ASSUME NEW c \in LiveIn(v, a.pack) PROVE FALSE
    BY Zenon
  <2>1. c \in Indexed(index) /\ c \in Chunks /\ v[c].pack = a.pack
    BY Zenon, <1>3, <1>7 DEF LiveIn
  <2>2. c \notin a.live
    BY Zenon, <1>6, <1>10, <2>1
  <2>3. index[c].pack = a.pack
    BY Zenon, <1>6, <2>1, <2>2
  <2> QED BY Zenon, <1>1, <2>1, <2>2, <2>3 DEF LiveIn
<1>12. ASSUME NEW x \in todo[m] \ {a} PROVE LiveIn(v, x.pack) = LiveIn(index, x.pack)
  <2>1. todo[m] \subseteq [pack : SUBSET Blobs, live : SUBSET Chunks]
    BY Zenon, <1>0 DEF TypeOK
  <2>2. x.pack # a.pack
    <3>1. x = [pack |-> x.pack, live |-> x.live] /\ a = [pack |-> a.pack, live |-> a.live]
      BY Zenon, <2>1
    <3> QED BY Zenon, <1>1, <3>1
  <2>3. x.pack \cap a.pack = {}
    BY <1>1, <2>2 DEF Disjoint
  <2>4. x.pack # pack
    BY Zenon, <1>10, <2>3
  <2>5. \A c \in Indexed(index) : v[c].pack = x.pack <=> index[c].pack = x.pack
    <3> SUFFICES ASSUME NEW c \in Indexed(index) PROVE v[c].pack = x.pack <=> index[c].pack = x.pack
      BY Zenon
    <3>1. c \in a.live => index[c].pack = a.pack
      BY Zenon, <1>1 DEF LiveIn
    <3> QED BY ZenonT(30), <1>3, <1>6, <2>2, <2>4, <3>1
  <2> QED BY Zenon, <1>7, <2>5 DEF LiveIn
<1>13. \A c \in Indexed(index) : IF c \in a.live THEN v[c].pack = pack /\ c \in ChunksOf(pack)
                                                 ELSE v[c] = index[c]
  BY ZenonT(30), <1>3, <1>4, <1>6, <1>8
<1> QED BY Zenon, <1>7, <1>11, <1>12, <1>13 DEF pack, v

LEMMA RepackPacks ==
  ASSUME PacksInv, CountsInv', NEW m \in Maints, WriteRepacked(m) \/ SaveRelocated(m)
  PROVE  PacksInv'
<1> USE DEF Goto, packVars, indexVars, lockVars, viewVars, maintVars, auxVars
<1>0. m \in Compacts /\ pc[m] \in {"repack", "saveIndex"}
  BY Zenon DEF WriteRepacked, SaveRelocated
<1>1. /\ TypeOK /\ IndexResolves /\ m \in Procs /\ DOMAIN pc = Procs /\ DOMAIN view = Procs
      /\ DOMAIN todo = Maints /\ DOMAIN work = Maints /\ lock = m /\ CompactLocal(m)
      /\ pc[m] = "repack" => view[m] = index
  BY Zenon, <1>0, CompactFacts
<1>2. CASE WriteRepacked(m)
  <2>1. PICK a \in todo[m] :
          /\ a.live # {}
          /\ LET pack == {blob \in a.pack : blob[1] \in a.live}
             IN  IF a.pack \in packs
                 THEN /\ packs' = packs \cup {pack}
                      /\ view' = [view EXCEPT ![m] = Relocated(@, a.live, pack)]
                      /\ work' = [work EXCEPT ![m] = a.pack]
                      /\ todo' = [todo EXCEPT ![m] = @ \ {a}]
                      /\ pc' = [pc EXCEPT ![m] = "saveIndex"]
                           \/ (Flaky /\ pc' = [pc EXCEPT ![m] = "release"])
                 ELSE UNCHANGED <<packs, view, work, todo>> /\ pc' = [pc EXCEPT ![m] = "release"]
    BY <1>2, Zenon DEF WriteRepacked
  <2>2. /\ pc[m] = "repack"
        /\ UNCHANGED <<scenario, index, snaps, lock, reaped, listed, ws>>
    BY <1>2, Zenon DEF WriteRepacked
  <2>3. packs \subseteq packs'
    BY Zenon, <2>1
  <2>4. IndexResolves'
    BY Zenon, <1>1, <2>2, <2>3, IndexStillResolves
  <2>5. PICK l \in {"saveIndex", "release"} : pc' = [pc EXCEPT ![m] = l]
    BY Zenon, <2>1
  <2>6. pc'[m] \in {"saveIndex", "release"}
    BY Zenon, <1>1, <2>5
  <2>7. CASE a.pack \notin packs
    <3>1. UNCHANGED <<packs, view, work, todo>> /\ pc'[m] = "release"
      BY Zenon, <1>1, <2>1, <2>7
    <3>2. CompactLocal(m)'
      BY Zenon, <3>1 DEF CompactLocal
    <3> QED BY ZenonT(30), <1>0, <1>1, <2>2, <2>4, <2>5, <3>1, <3>2, CompactStep
  <2>8. CASE a.pack \in packs
    <3> DEFINE pack == Repacked(a)
               v == Moved(m, a)
    <3>1. /\ packs' = packs \cup {pack} /\ view' = [view EXCEPT ![m] = v]
          /\ work' = [work EXCEPT ![m] = a.pack] /\ todo' = [todo EXCEPT ![m] = todo[m] \ {a}]
      BY Zenon, <2>1, <2>8 DEF Repacked, Moved
    <3>2. /\ Indexed(v) = Indexed(index) /\ LiveIn(v, a.pack) = {}
          /\ \A c \in Indexed(index) : IF c \in a.live THEN v[c].pack = pack /\ c \in ChunksOf(pack)
                                                       ELSE v[c] = index[c]
          /\ \A x \in todo[m] \ {a} : LiveIn(v, x.pack) = LiveIn(index, x.pack)
      <4>1. a.live # {}
        BY Zenon, <2>1
      <4> QED BY Zenon, <1>0, <2>2, <4>1, Relocation
    <3>3. /\ \A x \in todo[m] : x.live = LiveIn(index, x.pack) /\ ChunksOf(x.pack) # x.live
          /\ Disjoint({x.pack : x \in todo[m]})
      BY Zenon, <1>1, <2>2 DEF CompactLocal
    <3> HIDE DEF pack, v
    <3>4. /\ view'[m] = v /\ work'[m] = a.pack /\ todo'[m] = todo[m] \ {a} /\ pack \in packs'
          /\ \A q \in Procs \ {m} : view'[q] = view[q]
          /\ \A q \in Maints \ {m} : todo'[q] = todo[q] /\ work'[q] = work[q]
      BY ZenonT(30), <1>1, <3>1
    <3>5. \A x \in todo'[m] : x.live = LiveIn(view[m], x.pack)' /\ ChunksOf(x.pack) # x.live
      BY <3>2, <3>3, <3>4 DEF LiveIn, Indexed
    <3>6. Disjoint({x.pack : x \in todo[m]})'
      BY <3>3, <3>4 DEF Disjoint
    <3>7. AllResolve(view[m])'
      <4> SUFFICES ASSUME NEW c \in Indexed(v)
                   PROVE  v[c].pack \in packs' /\ c \in ChunksOf(v[c].pack)
        BY Zenon, <3>4 DEF AllResolve, Resolves, Indexed
      <4>1. c \in Indexed(index) /\ Resolves(index, c)
        BY Zenon, <1>1, <3>2 DEF IndexResolves
      <4>2. CASE c \in a.live
        BY ZenonT(30), <3>2, <3>4, <4>1, <4>2
      <4>3. CASE c \notin a.live
        BY ZenonT(30), <2>3, <3>2, <4>1, <4>3 DEF Resolves
      <4> QED BY Zenon, <4>2, <4>3
    <3>8. (LiveIn(view[m], work[m]))' = {}
      BY <3>2, <3>4 DEF LiveIn, Indexed
    <3>9. CompactLocal(m)'
      BY ZenonT(30), <2>6, <3>5, <3>6, <3>7, <3>8 DEF CompactLocal
    <3> QED BY ZenonT(30), <1>0, <1>1, <2>2, <2>4, <2>5, <3>4, <3>9, CompactStep
  <2> QED BY Zenon, <2>7, <2>8
<1>3. CASE SaveRelocated(m)
  <2>1. /\ pc[m] = "saveIndex"
        /\ UNCHANGED <<scenario, packs, snaps, lock, reaped, listed, view, ws, todo, work>>
    BY <1>3, Zenon DEF SaveRelocated
  <2>2. \/ /\ index' = view[m]
           /\ pc' = [pc EXCEPT ![m] = "deleteOld"] \/ pc' = [pc EXCEPT ![m] = "release"]
        \/ index' = index /\ pc' = [pc EXCEPT ![m] = "release"]
    BY <1>3, Zenon DEF SaveRelocated
  <2>3. PICK l \in {"deleteOld", "release"} : pc' = [pc EXCEPT ![m] = l]
    BY Zenon, <2>2
  <2>4. /\ \A x \in todo[m] : x.live = LiveIn(view[m], x.pack) /\ ChunksOf(x.pack) # x.live
        /\ Disjoint({x.pack : x \in todo[m]})
        /\ AllResolve(view[m]) /\ LiveIn(view[m], work[m]) = {}
    BY Zenon, <1>1, <2>1 DEF CompactLocal
  <2>5. todo'[m] = todo[m] /\ view'[m] = view[m] /\ work'[m] = work[m]
    BY Zenon, <2>1
  <2>6. IndexResolves'
    <3>1. CASE index' = index
      BY ZenonT(30), <1>1, <2>1, <3>1, IndexStillResolves
    <3>2. CASE index' = view[m]
      BY Zenon, <2>1, <2>4, <3>2 DEF IndexResolves, AllResolve, Resolves
    <3> QED BY Zenon, <2>2, <3>1, <3>2
  <2>7. CompactLocal(m)'
    <3>1. Disjoint({x.pack : x \in todo[m]})'
      BY Zenon, <2>4, <2>5
    <3>2. \A x \in todo'[m] : x.live = LiveIn(view[m], x.pack)' /\ ChunksOf(x.pack) # x.live
      BY <2>4, <2>5 DEF LiveIn, Indexed
    <3>3. pc'[m] \in {"deleteOld", "release"} /\ (pc'[m] = "deleteOld" => index' = view[m])
      BY Zenon, <1>1, <2>2, <2>3
    <3>4. pc'[m] = "deleteOld" => (LiveIn(index, work[m]))' = {}
      BY Zenon, <2>4, <2>5, <3>3 DEF LiveIn, Indexed
    <3> QED BY Zenon, <3>1, <3>2, <3>3, <3>4 DEF CompactLocal
  <2> QED BY ZenonT(30), <1>0, <1>1, <2>1, <2>3, <2>6, <2>7, CompactStep
<1> QED BY Zenon, <1>2, <1>3

LEMMA PacksPreserved ==
  ASSUME CountingLaws, OneCompact, PacksInv, CountsInv', [Next]_vars
  PROVE  PacksInv'
<1>1. ASSUME NEW p \in Procs, ListSnapshots(p) \/ LoadIndex(p) \/ Release(p) \/ Crash(p)
      PROVE  PacksInv'
  BY <1>1, CommonPacks, Zenon
<1>2. ASSUME NEW s \in Sessions, Register(s) \/ Deregister(s) PROVE PacksInv'
  <2>1. s \in Procs
    BY Zenon DEF Procs
  <2> QED BY <1>2, <2>1, CommonPacks, Zenon
<1>3. ASSUME NEW b \in Backups, BackupStep(b) PROVE PacksInv'
  BY <1>3, RecoverPacks, StorePacks, SealPacks, PutPacks, WaitPacks, FetchPacks, PutIndexPacks,
     PutSnapshotPacks, EndPacks, Zenon DEF BackupStep
<1>4. ASSUME NEW r \in Readers, RefreshMarker(r) PROVE PacksInv'
  BY <1>4, RefreshPacks, Zenon
<1>5. ASSUME NEW r \in Readers, EndRead(r) PROVE PacksInv'
  <2>1. r \in Procs
    BY KindOf, Zenon
  <2> QED BY <1>5, <2>1, CommonPacks, Zenon
<1>6. ASSUME NEW m \in Maints, MaintenanceStep(m) PROVE PacksInv'
  BY <1>6, LockPacks, RemovalPacks, AnalysePacks, DeletePacks, RepackPacks, ZenonT(30)
     DEF MaintenanceStep
<1>7. CASE LoseLock
  BY <1>7, LosePacks, Zenon
<1>8. CASE Terminated \/ UNCHANGED vars
  <2>1. UNCHANGED vars
    BY Zenon, <1>8 DEF Terminated
  <2>2. /\ pc' = pc /\ packs' = packs /\ index' = index /\ snaps' = snaps /\ lock' = lock
        /\ markers' = markers /\ reaped' = reaped /\ listed' = listed /\ view' = view /\ ws' = ws
        /\ todo' = todo /\ work' = work /\ scenario' = scenario
    BY <2>1, Zenon DEF vars, packVars, indexVars, lockVars, viewVars, maintVars, auxVars
  <2>3. (PartInv /\ IndexResolves /\ BlobsInv)'
    BY ZenonT(30), <2>2 DEF PacksInv, PartInv, IndexResolves, Resolves, BlobsInv, Compacted, AllPacks
  <2>4. \A m \in Compacts : CompactHolds(m)' /\ CompactLocal(m)'
    BY <2>2 DEF PacksInv, CompactHolds, CompactLocal, LiveIn, AllResolve, Resolves
  <2>5. \A s \in Sessions : MarkerLocal(s)'
    BY Zenon, <2>2 DEF PacksInv, MarkerLocal
  <2>6. \A b \in Backups : PackLocal(b)' /\ BackupLocal(b)'
    BY ZenonT(30), <2>2 DEF PacksInv, PackLocal, BackupLocal, AllResolve, Resolves
  <2>7. \A r \in Readers : ReaderLocal(r)'
    BY Zenon, <2>2 DEF PacksInv, ReaderLocal, Readable, Resolves
  <2> QED BY ZenonT(30), <2>3, <2>4, <2>5, <2>6, <2>7 DEF PacksInv
<1> QED BY <1>1, <1>2, <1>3, <1>4, <1>5, <1>6, <1>7, <1>8, ZenonT(30) DEF Next

LEMMA PacksImplyResolve ==
  ASSUME CountingLaws, PacksInv
  PROVE  SnapshotsResolve /\ IndexResolves /\ ReaderResolves /\ ActiveBackupsKeepPacks
<1>1. SnapshotsResolve
  BY Zenon, SnapshotsStillResolve DEF PacksInv
<1>2. ReaderResolves
  BY Zenon DEF ReaderResolves, PacksInv, ReaderLocal
<1>3. ActiveBackupsKeepPacks
  BY Zenon DEF ActiveBackupsKeepPacks, PacksInv, BackupLocal, Uploading, IndexResolves
<1> QED BY Zenon, <1>1, <1>2, <1>3 DEF PacksInv

--------------------------------------------------------------------------------

(***************************************************************************)
(* The index object, for any number of commands and chunks and every       *)
(* scenario, with crashes, failing requests, lost locks and sessions taken *)
(* for dead: it is well-formed, it counts at least the references of the   *)
(* snapshots, and a commit by the fast path writes the index that the slow *)
(* path would have written (commit_concurrent_session, IndexDelta,         *)
(* save_state of delete, prune and compact).  The hypothesis: nothing is   *)
(* committed between the opening of a repository by maintenance and its    *)
(* lock.                                                                   *)
(***************************************************************************)
THEOREM IndexIsSound ==
  ASSUME Undisturbed
  PROVE  Spec => []IndexSound
<1>1. Init => CountsInv
  BY Zenon, CountingHolds, CountsInitial
<1>2. CountsInv /\ [Next]_vars => CountsInv'
  BY Zenon, CountingHolds, CountsPreserved
<1>3. CountsInv => IndexSound
  BY Zenon, CountsImplySound
<1> QED
  BY <1>1, <1>2, <1>3, PTL DEF Spec

\* Both invariants hold in every reachable state.
LEMMA PacksAlways ==
  ASSUME Undisturbed, OneCompact
  PROVE  Spec => []PacksInv
<1>1. Init => PacksInv
  BY Zenon, CountingHolds, CountsInitial, PacksInitial
<1>2. PacksInv /\ [Next]_vars => PacksInv'
  BY Zenon, CountingHolds, CountsPreserved, PacksPreserved DEF PacksInv
<1> QED
  BY <1>1, <1>2, PTL DEF Spec

LEMMA AllResolved == PacksInv => /\ SnapshotsResolve /\ IndexResolves
                                 /\ ReaderResolves /\ ActiveBackupsKeepPacks
BY Zenon, CountingHolds, PacksImplyResolve

(***************************************************************************)
(* Every chunk of every snapshot can be read: its index entry points to a  *)
(* pack that is stored and has the chunk, whatever backups, deletes,       *)
(* prunes and a compact do together, wherever they crash, whichever        *)
(* requests fail, and although a live session may be taken for dead.  The  *)
(* hypotheses: nothing is committed between the opening of a repository by *)
(* maintenance and its lock, and a repository is compacted by one process  *)
(* that is not suspended until its lock is stale.                          *)
(***************************************************************************)
THEOREM SnapshotsStayReadable ==
  ASSUME Undisturbed, OneCompact
  PROVE  Spec => []SnapshotsResolve
<1>1. PacksInv => SnapshotsResolve
  BY Zenon, AllResolved
<1> QED BY <1>1, PacksAlways, PTL

\* Compact never leaves an index entry that points to a pack it has deleted: it saves
\* the index that points to the new pack before it deletes the old one (compact::run).
THEOREM IndexStaysReadable ==
  ASSUME Undisturbed, OneCompact
  PROVE  Spec => []IndexResolves
<1>1. PacksInv => IndexResolves
  BY Zenon, AllResolved
<1> QED BY <1>1, PacksAlways, PTL

\* A restore or check that has not been taken for dead finds every chunk of the
\* snapshots it has listed in the index it has loaded, as long as it reads: its session
\* marker keeps maintenance out (register_session, acquire_maintenance_lock).
THEOREM ReadersFindEverything ==
  ASSUME Undisturbed, OneCompact
  PROVE  Spec => []ReaderResolves
<1>1. PacksInv => ReaderResolves
  BY Zenon, AllResolved
<1> QED BY <1>1, PacksAlways, PTL

\* A backup that has not been taken for dead keeps the packs of its new entries and the
\* chunks that it has deduplicated against, until it commits: neither compact nor the
\* clean-up of another backup deletes them.
THEOREM BackupsKeepPacks ==
  ASSUME Undisturbed, OneCompact
  PROVE  Spec => []ActiveBackupsKeepPacks
<1>1. PacksInv => ActiveBackupsKeepPacks
  BY Zenon, AllResolved
<1> QED BY <1>1, PacksAlways, PTL

================================================================================
