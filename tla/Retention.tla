------------------------------- MODULE Retention -------------------------------
(***************************************************************************)
(* The retention algorithm of prune: groups by label, then the rules one   *)
(* after the other over the snapshots from the newest to the oldest.       *)
(* It implements RetentionPolicy: a prune is a sequence of steps of which  *)
(* the last one removes what no rule has kept.                             *)
(***************************************************************************)
EXTENDS RetentionPolicy, Sequences

VARIABLES prn   \* the prune in progress

retVars == <<retScene, now, taken, here, prn>>

RuleOrder == <<"hourly", "daily", "weekly", "monthly", "yearly">>
NoPrune == [at |-> "idle", groups |-> {}, label |-> "", order |-> <<>>, kept |-> {}, survivors |-> {},
            rule |-> 0, pos |-> 0, seen |-> {}, count |-> 0]
Pruned(p) == prn' = p /\ UNCHANGED policyVars

Invalid == -2

\* parse_timespan, in hours; no unit means days.
Timespan(n, unit) ==
  CASE unit = "h" -> n
    [] unit \in {"", "d"} -> n * 24
    [] unit = "w" -> n * 24 * 7
    [] unit = "m" -> n * 24 * 30
    [] unit = "y" -> n * 24 * 365
    [] OTHER -> Invalid

RetInit == PolicyInit /\ prn = NoPrune

\* Snapshots are taken between prunes: a prune holds the repository lock.
Backup == prn.at = "idle" /\ TakeSnapshot /\ UNCHANGED prn

StartPrune ==
  /\ prn.at = "idle" /\ here # {}
  /\ Pruned([NoPrune EXCEPT !.at = "group", !.groups = {a.label : a \in here}])

\* Newest first.
SortedNewest(S) ==
  [i \in 1..Cardinality(S) |-> CHOOSE a \in S : Cardinality(Newer(S, a)) = i - 1]

\* A group without rules is kept as it is.
NextGroup ==
  /\ prn.at = "group" /\ prn.groups # {}
  /\ LET l == CHOOSE g \in prn.groups : TRUE
         group == OfLabel(here, l)
     IN Pruned(IF HasRule(Policy(l))
               THEN [prn EXCEPT !.at = "within", !.groups = @ \ {l}, !.label = l,
                                !.order = SortedNewest(group), !.kept = {}]
               ELSE [prn EXCEPT !.groups = @ \ {l}, !.survivors = @ \cup group])

Listed == {prn.order[i] : i \in 1..Len(prn.order)}

\* A span that cannot be parsed fails the whole prune.
KeepWithin ==
  /\ prn.at = "within"
  /\ LET span == Policy(prn.label).within
     IN Pruned(IF span = Invalid THEN NoPrune
               ELSE [prn EXCEPT !.at = "last",
                                !.kept = IF span = None THEN @
                                         ELSE {a \in Listed : a.t >= now - span}])

KeepLast ==
  /\ prn.at = "last"
  /\ Pruned([prn EXCEPT !.at = "rule", !.rule = 1, !.pos = 1, !.seen = {}, !.count = 0,
                        !.kept = @ \cup {prn.order[i] : i \in {j \in 1..Len(prn.order) :
                                                                j <= Policy(prn.label).last}}])

NextRule(p) == [p EXCEPT !.rule = @ + 1, !.pos = 1, !.seen = {}, !.count = 0]

\* The rule that the comment of apply_bucket_rule describes.
BucketStepFreeSlots ==
  /\ prn.at = "rule" /\ prn.rule <= Len(RuleOrder)
  /\ LET r == RuleOrder[prn.rule]
         max == Policy(prn.label).keep[r]
         a == prn.order[prn.pos]
         b == Bucket(r, a.t)
         new == a \notin prn.kept /\ prn.count < max
         p == IF b \in prn.seen THEN prn
              ELSE [prn EXCEPT !.seen = @ \cup {b}, !.count = @ + (IF new THEN 1 ELSE 0),
                               !.kept = IF new THEN @ \cup {a} ELSE @]
     IN Pruned(IF max = None THEN NextRule(prn)
               ELSE IF p.count >= max \/ prn.pos = Len(prn.order) THEN NextRule(p)
               ELSE [p EXCEPT !.pos = @ + 1])

\* One snapshot of the loop of apply_bucket_rule.
BucketStep ==
  /\ prn.at = "rule" /\ prn.rule <= Len(RuleOrder)
  /\ LET r == RuleOrder[prn.rule]
         max == Policy(prn.label).keep[r]
         a == prn.order[prn.pos]
         b == Bucket(r, a.t)
         p == IF b \in prn.seen THEN prn
              ELSE IF a \in prn.kept THEN [prn EXCEPT !.seen = @ \cup {b}, !.count = @ + 1]
              ELSE IF prn.count < max
              THEN [prn EXCEPT !.seen = @ \cup {b}, !.count = @ + 1, !.kept = @ \cup {a}]
              ELSE [prn EXCEPT !.seen = @ \cup {b}]
     IN Pruned(IF max = None THEN NextRule(prn)
               ELSE IF b \notin prn.seen /\ p.count >= max THEN NextRule(p)
               ELSE IF prn.pos = Len(prn.order) THEN NextRule(p)
               ELSE [p EXCEPT !.pos = @ + 1])

\* A policy that would remove all of a group fails the whole prune.
EndGroup ==
  /\ prn.at = "rule" /\ prn.rule > Len(RuleOrder)
  /\ Pruned(IF prn.kept = {} THEN NoPrune
            ELSE [prn EXCEPT !.at = "group", !.survivors = @ \cup prn.kept])

RemovePruned ==
  /\ prn.at = "group" /\ prn.groups = {}
  /\ here' = here \cap prn.survivors
  /\ prn' = NoPrune
  /\ UNCHANGED <<retScene, now, taken>>

RetNext == Backup \/ StartPrune \/ NextGroup \/ KeepWithin \/ KeepLast \/ BucketStep \/ EndGroup \/ RemovePruned
RetSpec == RetInit /\ [][RetNext]_retVars
=============================================================================
