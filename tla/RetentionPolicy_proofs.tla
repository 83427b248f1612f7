------------------------ MODULE RetentionPolicy_proofs ------------------------
(***************************************************************************)
(* Retention never loses what the rules ask for, for all policies,         *)
(* calendars and sequences of backups and prunes. The argument: what a     *)
(* rule keeps of a set of snapshots, it also keeps of every smaller set in *)
(* which that snapshot still is, since fewer snapshots and fewer buckets   *)
(* are newer.                                                              *)
(***************************************************************************)
EXTENDS RetentionPolicy, Functions, FiniteSetTheorems, TLAPS

\* What keep_last keeps of a set, it keeps of a part of the set.
LEMMA LastShrinks ==
  ASSUME NEW S, NEW T, T \subseteq S, IsFiniteSet(S), NEW p \in Policies,
         NEW a \in T, a \in LastKeeps(S, p)
  PROVE  a \in LastKeeps(T, p)
<1>1. Newer(T, a) \subseteq Newer(S, a)
  BY DEF Newer
<1>2. IsFiniteSet(Newer(S, a))
  BY FS_Subset DEF Newer
<1>3. /\ IsFiniteSet(Newer(T, a))
      /\ Cardinality(Newer(T, a)) <= Cardinality(Newer(S, a))
  BY <1>1, <1>2, FS_Subset
<1>4. Cardinality(Newer(T, a)) \in Nat /\ Cardinality(Newer(S, a)) \in Nat
  BY <1>2, <1>3, FS_CardinalityType
<1>5. Cardinality(Newer(S, a)) < p.last /\ p.last \in Int
  BY DEF LastKeeps, Policies
<1>6. Cardinality(Newer(T, a)) < p.last
  BY <1>3, <1>4, <1>5
<1> QED
  BY <1>6 DEF LastKeeps

\* What a bucket rule keeps of a set, it keeps of a part of the set.
LEMMA RuleShrinks ==
  ASSUME NEW S, NEW T, T \subseteq S, IsFiniteSet(S), NEW p \in Policies, NEW r \in Rules,
         NEW a \in T, a \in RuleKeeps(S, p, r)
  PROVE  a \in RuleKeeps(T, p, r)
<1> DEFINE B(U) == {Bucket(r, b.t) : b \in Newer(U, a)}
<1>1. Newer(T, a) \subseteq Newer(S, a)
  BY DEF Newer
<1>2. IsFiniteSet(Newer(S, a))
  BY FS_Subset DEF Newer
<1>3. IsFiniteSet(B(S))
  <2> DEFINE f == [b \in Newer(S, a) |-> Bucket(r, b.t)]
  <2>1. f \in Surjection(Newer(S, a), B(S))
    BY DEF Surjection
  <2> HIDE DEF f, B
  <2> QED BY <1>2, <2>1, FS_Surjection
<1>4. B(T) \subseteq B(S)
  BY <1>1
<1>5. IsFiniteSet(B(T)) /\ Cardinality(B(T)) <= Cardinality(B(S))
  BY <1>3, <1>4, FS_Subset
<1>6. Cardinality(B(T)) \in Nat /\ Cardinality(B(S)) \in Nat
  BY <1>3, <1>5, FS_CardinalityType
<1>7. Cardinality(B(S)) < p.keep[r] /\ p.keep[r] \in Int
  BY DEF RuleKeeps, Policies
<1>8. Cardinality(B(T)) < p.keep[r]
  <2> HIDE DEF B
  <2> QED BY <1>5, <1>6, <1>7
<1>9. \A b \in Newer(T, a) : Bucket(r, b.t) # Bucket(r, a.t)
  BY <1>1 DEF RuleKeeps
<1> QED
  BY <1>8, <1>9 DEF RuleKeeps

\* A policy never keeps what is not there, and keeps all that each rule keeps.
LEMMA KeepsBounds ==
  ASSUME NEW S, NEW p, NEW at
  PROVE  /\ Keeps(S, p, at) \subseteq S
         /\ LastKeeps(S, p) \subseteq Keeps(S, p, at)
         /\ WithinKeeps(S, p, at) \subseteq Keeps(S, p, at)
         /\ \A r \in Rules : RuleKeeps(S, p, r) \subseteq Keeps(S, p, at)
  BY DEF Keeps, LastKeeps, WithinKeeps, RuleKeeps

(* Pruning twice at the same time is pruning once: of what a policy keeps, *)
(* the policy removes nothing (apply_policy on its own result).            *)
THEOREM RetentionStable ==
  ASSUME NEW S, IsFiniteSet(S), NEW p \in Policies, NEW at
  PROVE  Keeps(Keeps(S, p, at), p, at) = Keeps(S, p, at)
<1> DEFINE T == Keeps(S, p, at)
<1>1. T \subseteq S /\ Keeps(T, p, at) \subseteq T
  BY KeepsBounds
<1>2. CASE ~HasRule(p)
  BY <1>2 DEF Keeps
<1>3. CASE HasRule(p)
  <2>1. SUFFICES ASSUME NEW a \in T PROVE a \in Keeps(T, p, at)
    BY <1>1
  <2>2. CASE a \in WithinKeeps(S, p, at)
    <3>1. a \in WithinKeeps(T, p, at)
      BY <2>2 DEF WithinKeeps
    <3> QED BY <3>1, KeepsBounds
  <2>3. CASE a \in LastKeeps(S, p)
    <3>1. a \in LastKeeps(T, p)
      BY <1>1, <2>3, LastShrinks
    <3> QED BY <3>1, KeepsBounds
  <2>4. CASE \E r \in Rules : a \in RuleKeeps(S, p, r)
    <3>1. PICK r \in Rules : a \in RuleKeeps(S, p, r)
      BY <2>4
    <3>2. a \in RuleKeeps(T, p, r)
      BY <1>1, <3>1, RuleShrinks
    <3> QED BY <3>2, KeepsBounds
  <2> QED
    BY <1>3, <2>1, <2>2, <2>3, <2>4 DEF Keeps
<1> QED
  BY <1>2, <1>3

-----------------------------------------------------------------------------
\* What backups and prunes preserve.
RetentionInv ==
  /\ retScene \in RetScenes
  /\ IsFiniteSet(taken)
  /\ here \subseteq taken
  /\ \A a \in taken : a.label \in Labels
  /\ HistoryCovered
  /\ NeverEmptied

LEMMA RetentionInitial == PolicyInit => RetentionInv
<1> SUFFICES ASSUME PolicyInit PROVE RetentionInv
  OBVIOUS
<1>1. IsFiniteSet(taken)
  BY FS_EmptySet DEF PolicyInit
<1>2. HistoryCovered
  BY DEF PolicyInit, HistoryCovered, LastKeeps, RuleKeeps, OfLabel
<1> QED
  BY <1>1, <1>2 DEF PolicyInit, RetentionInv, NeverEmptied, OfLabel

\* The snapshots of a label are finitely many, and policies are policies.
LEMMA RetentionTypes ==
  ASSUME RetentionInv, NEW l \in Labels
  PROVE  /\ IsFiniteSet(OfLabel(taken, l))
         /\ Policy(l) \in Policies
         /\ OfLabel(here, l) \subseteq OfLabel(taken, l)
<1>1. OfLabel(taken, l) \subseteq taken
  BY DEF OfLabel
<1>2. IsFiniteSet(OfLabel(taken, l))
  BY <1>1, FS_Subset DEF RetentionInv
<1>3. Policy(l) \in Policies
  BY SceneAssumption DEF RetentionInv, Policy
<1> QED
  BY <1>2, <1>3 DEF RetentionInv, OfLabel

LEMMA TakeSnapshotPreserves == RetentionInv /\ TakeSnapshot => RetentionInv'
<1> SUFFICES ASSUME RetentionInv, TakeSnapshot PROVE RetentionInv'
  OBVIOUS
<1>1. PICK m \in Labels, d \in retScene.steps :
        /\ taken' = taken \cup {[label |-> m, t |-> now']}
        /\ here' = here \cup {[label |-> m, t |-> now']}
        /\ retScene' = retScene
  BY DEF TakeSnapshot
<1> DEFINE new == [label |-> m, t |-> now']
<1>2. IsFiniteSet(taken')
  BY <1>1, FS_AddElement DEF RetentionInv
<1>3. ASSUME NEW l \in Labels
      PROVE  /\ Policy(l)' = Policy(l)
             /\ Policy(l) \in Policies
             /\ OfLabel(taken, l) \subseteq OfLabel(taken', l)
             /\ IsFiniteSet(OfLabel(taken', l))
             /\ \A a \in OfLabel(taken', l) : a \in OfLabel(taken, l) \/ a = new
  <2>1. OfLabel(taken', l) \subseteq taken'
    BY DEF OfLabel
  <2>2. IsFiniteSet(OfLabel(taken', l))
    BY <1>2, <2>1, FS_Subset
  <2> QED
    BY <1>1, <2>2, RetentionTypes DEF OfLabel, Policy
<1>4. HistoryCovered'
  <2>1. ASSUME NEW l \in Labels, NEW a \in LastKeeps(OfLabel(taken', l), Policy(l))
        PROVE  a \in here'
    <3>1. CASE a = new
      BY <1>1, <3>1
    <3>2. CASE a \in OfLabel(taken, l)
      <4>1. a \in LastKeeps(OfLabel(taken, l), Policy(l))
        BY <1>3, <2>1, <3>2, LastShrinks
      <4> QED BY <1>1, <4>1 DEF RetentionInv, HistoryCovered
    <3> QED BY <1>3, <2>1, <3>1, <3>2 DEF LastKeeps
  <2>2. ASSUME NEW l \in Labels, NEW r \in Rules, NEW a \in RuleKeeps(OfLabel(taken', l), Policy(l), r)
        PROVE  a \in here'
    <3>1. CASE a = new
      BY <1>1, <3>1
    <3>2. CASE a \in OfLabel(taken, l)
      <4>1. a \in RuleKeeps(OfLabel(taken, l), Policy(l), r)
        BY <1>3, <2>2, <3>2, RuleShrinks
      <4> QED BY <1>1, <4>1 DEF RetentionInv, HistoryCovered
    <3> QED BY <1>3, <2>2, <3>1, <3>2 DEF RuleKeeps
  <2>3. ASSUME NEW l \in Labels
        PROVE  /\ LastKeeps(OfLabel(taken', l), Policy(l)') \subseteq here'
               /\ \A r \in Rules : RuleKeeps(OfLabel(taken', l), Policy(l)', r) \subseteq here'
    BY <1>3, <2>1, <2>2
  <2> QED
    BY <2>3 DEF HistoryCovered, LastKeeps, RuleKeeps, OfLabel, Newer
<1>5. NeverEmptied'
  BY <1>1 DEF RetentionInv, NeverEmptied, OfLabel
<1> QED
  BY <1>1, <1>2, <1>4, <1>5 DEF RetentionInv

LEMMA PruneAllPreserves == RetentionInv /\ PruneAll => RetentionInv'
<1> SUFFICES ASSUME RetentionInv, PruneAll PROVE RetentionInv'
  OBVIOUS
<1>1. ASSUME NEW l \in Labels
      PROVE  KeptOf(l) \subseteq OfLabel(here, l) /\ KeptOf(l) \subseteq here'
  BY KeepsBounds DEF KeptOf, PruneAll
<1>2. here' \subseteq here
  BY <1>1 DEF PruneAll, OfLabel
<1>3. ASSUME NEW l \in Labels, NEW a \in LastKeeps(OfLabel(taken, l), Policy(l))
      PROVE  a \in here'
  <2>1. a \in OfLabel(here, l)
    BY <1>3 DEF RetentionInv, HistoryCovered, LastKeeps, OfLabel
  <2>2. a \in LastKeeps(OfLabel(here, l), Policy(l))
    BY <1>3, <2>1, RetentionTypes, LastShrinks
  <2> QED BY <1>1, <2>2, KeepsBounds DEF KeptOf
<1>4. ASSUME NEW l \in Labels, NEW r \in Rules, NEW a \in RuleKeeps(OfLabel(taken, l), Policy(l), r)
      PROVE  a \in here'
  <2>1. a \in OfLabel(here, l)
    BY <1>4 DEF RetentionInv, HistoryCovered, RuleKeeps, OfLabel
  <2>2. a \in RuleKeeps(OfLabel(here, l), Policy(l), r)
    BY <1>4, <2>1, RetentionTypes, RuleShrinks
  <2> QED BY <1>1, <2>2, KeepsBounds DEF KeptOf
<1>5. HistoryCovered'
  <2>1. taken' = taken /\ retScene' = retScene
    BY DEF PruneAll
  <2> QED
    BY <1>3, <1>4, <2>1 DEF HistoryCovered, LastKeeps, RuleKeeps, OfLabel, Newer, Policy
<1>6. NeverEmptied'
  <2>1. SUFFICES ASSUME NEW l \in Labels, OfLabel(taken, l) # {} PROVE OfLabel(here', l) # {}
    BY DEF PruneAll, NeverEmptied, OfLabel
  <2>2. KeptOf(l) # {}
    BY <2>1 DEF RetentionInv, NeverEmptied, PruneAll
  <2> QED
    BY <1>1, <2>2 DEF OfLabel
<1> QED
  BY <1>2, <1>5, <1>6 DEF RetentionInv, PruneAll

LEMMA RetentionInductive == PolicySpec => []RetentionInv
<1>1. RetentionInv /\ [PolicyNext]_policyVars => RetentionInv'
  <2> SUFFICES ASSUME RetentionInv, [PolicyNext]_policyVars PROVE RetentionInv'
    OBVIOUS
  <2>1. CASE TakeSnapshot
    BY <2>1, TakeSnapshotPreserves
  <2>2. CASE PruneAll
    BY <2>2, PruneAllPreserves
  <2>3. CASE UNCHANGED policyVars
    BY <2>3 DEF policyVars, RetentionInv, HistoryCovered, NeverEmptied, LastKeeps, RuleKeeps,
                OfLabel, Newer, Policy
  <2> QED
    BY <2>1, <2>2, <2>3 DEF PolicyNext
<1> QED
  BY <1>1, RetentionInitial, PTL DEF PolicySpec

(* For all policies and calendars, and after any number of backups and     *)
(* prunes: the newest snapshots that keep_last asks for, and the newest of *)
(* each of the newest hours, days, weeks, months and years that the other  *)
(* rules ask for, of all snapshots ever taken, are still there.            *)
THEOREM RetentionLosesNothing == PolicySpec => []HistoryCovered
<1>1. RetentionInv => HistoryCovered
  BY DEF RetentionInv
<1> QED
  BY <1>1, RetentionInductive, PTL

(* For all policies, also those that expire everything, a label that ever  *)
(* had a snapshot has one.                                                 *)
THEOREM RetentionNeverEmpties == PolicySpec => []NeverEmptied
<1>1. RetentionInv => NeverEmptied
  BY DEF RetentionInv
<1> QED
  BY <1>1, RetentionInductive, PTL
=============================================================================
