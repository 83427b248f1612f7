---------------------------- MODULE RetentionPolicy ----------------------------
(***************************************************************************)
(* What pruning promises: snapshots are taken over time, and every prune   *)
(* keeps what the rules of the policy of their label keep, each rule on    *)
(* its own, or removes nothing at all.                                     *)
(***************************************************************************)
EXTENDS Integers, FiniteSets

CONSTANTS
  RetScenes,      \* policies by label, and the time up to which snapshots are taken
  Labels,         \* source labels
  Bucket(_, _)    \* the hour, day, week, month or year of a time

Rules == {"hourly", "daily", "weekly", "monthly", "yearly"}
None == -1
Policies == [within : Int, last : Int, keep : [Rules -> Int]]

ASSUME SceneAssumption ==
  \A s \in RetScenes : s.policy \in [Labels -> Policies] /\ s.horizon \in Nat /\ s.steps \subseteq Nat \ {0}

VARIABLES
  retScene,   \* the member of RetScenes played; never changes
  now,      \* the time
  taken,    \* every snapshot ever taken
  here      \* those in the repository

policyVars == <<retScene, now, taken, here>>

Policy(l) == retScene.policy[l]
OfLabel(S, l) == {a \in S : a.label = l}
Newer(S, a) == {b \in S : b.t > a.t}

WithinKeeps(S, p, at) == {a \in S : p.within # None /\ a.t >= at - p.within}
LastKeeps(S, p) == {a \in S : Cardinality(Newer(S, a)) < p.last}

\* The newest snapshot of each of the newest buckets.
RuleKeeps(S, p, r) ==
  {a \in S : /\ \A b \in Newer(S, a) : Bucket(r, b.t) # Bucket(r, a.t)
             /\ Cardinality({Bucket(r, b.t) : b \in Newer(S, a)}) < p.keep[r]}

\* has_any_rule
HasRule(p) == p.within # None \/ p.last # None \/ \E r \in Rules : p.keep[r] # None

Keeps(S, p, at) ==
  IF HasRule(p)
  THEN WithinKeeps(S, p, at) \cup LastKeeps(S, p) \cup UNION {RuleKeeps(S, p, r) : r \in Rules}
  ELSE S

KeptOf(l) == Keeps(OfLabel(here, l), Policy(l), now)

PolicyInit ==
  /\ retScene \in RetScenes
  /\ now = 0 /\ taken = {} /\ here = {}

\* A backup, later than all before it.
TakeSnapshot ==
  \E l \in Labels, d \in retScene.steps :
    /\ now + d <= retScene.horizon
    /\ now' = now + d
    /\ taken' = taken \cup {[label |-> l, t |-> now']}
    /\ here' = here \cup {[label |-> l, t |-> now']}
    /\ UNCHANGED retScene

\* A prune that would leave some label without snapshots is refused as a whole.
PruneAll ==
  /\ \A l \in Labels : OfLabel(here, l) # {} => KeptOf(l) # {}
  /\ here' = UNION {KeptOf(l) : l \in Labels}
  /\ UNCHANGED <<retScene, now, taken>>

PolicyNext == TakeSnapshot \/ PruneAll

\* What Retention implements (apply_policy_by_label): every step of the
\* algorithm takes a snapshot, prunes all labels at once as the rules say, or
\* changes nothing.
PolicySpec == PolicyInit /\ [][PolicyNext]_policyVars

-----------------------------------------------------------------------------
(* Over any number of backups and prunes, nothing that the rules ask for   *)
(* is lost: of all snapshots ever taken of a label, the newest ones that   *)
(* keep_last asks for, and the newest one of each of the newest hours,     *)
(* days, weeks, months and years that the other rules ask for, are there.  *)
HistoryCovered ==
  \A l \in Labels :
    /\ LastKeeps(OfLabel(taken, l), Policy(l)) \subseteq here
    /\ \A r \in Rules : RuleKeeps(OfLabel(taken, l), Policy(l), r) \subseteq here

(* Pruning never removes the last snapshot of a label, whatever the policy *)
(* says and however old the snapshot is.                                   *)
NeverEmptied == \A l \in Labels : OfLabel(taken, l) # {} => OfLabel(here, l) # {}
=============================================================================
