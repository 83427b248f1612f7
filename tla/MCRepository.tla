------------------------------ MODULE MCRepository -----------------------------
(***************************************************************************)
(* Instances of Repository for TLC.                                        *)
(***************************************************************************)
EXTENDS Repository, TLC

CONSTANTS b1, b2, r1, m1, m2, m3, c1, c2, n1, n2, n3

\* Backups are interchangeable.
Symmetry == Permutations({b1, b2})

\* The first snapshot is called n1; the backups are given the names x and y.
Named(x, y) == (Founder :> n1) @@ (b1 :> x) @@ (b2 :> y)

\* One snapshot of the chunks F in a pack that also has the chunks D; processes P of
\* which S may be suspended until their lock is stale.
Scenario(P, F, D, refs, names, S, flaky, stalling) ==
    [procs |-> P, founded |-> F, dead |-> D, refs |-> refs, names |-> names,
     losses |-> IF S = {} THEN 0 ELSE 1, suspendable |-> S,
     flaky |-> flaky, stalling |-> stalling]

\* Two backups at a time, with names of their own or the same new name; a backup
\* next to a delete and a prune, with a new name or one that is taken.
Writers ==
    {Scenario({b1, b2}, {c1}, {}, 2, Named(n2, n3), {b1, b2}, TRUE, FALSE),
     Scenario({b1, b2}, {c1}, {}, 1, Named(n2, n2), {b1, b2}, FALSE, FALSE),
     Scenario({b1, m1, m2}, {c1}, {}, 1, Named(n2, n2), {b1, m1, m2}, TRUE, TRUE),
     Scenario({b1, m1, m2}, {c1}, {}, 1, Named(n1, n1), {b1}, FALSE, FALSE)}

\* A backup and a reader next to a compact; two backups of an empty repository, one of
\* which may recover the other's packs, next to a compact.
Compaction ==
    {Scenario({b1, r1, m3}, {c1}, {c2}, 2, Named(n2, n2), {b1}, TRUE, TRUE),
     Scenario({b1, b2, m3}, {}, {}, 1, Named(n1, n2), {}, FALSE, TRUE)}

\* A backup next to a compact that opened the repository before it.
StaleOpen == {Scenario({b1, m3}, {c1}, {}, 2, Named(n2, n2), {}, FALSE, FALSE)}

\* Two compacts, one after the other or at the same time.
TwoCompacts == {Scenario({m1, m2}, {c1}, {c2}, 2, Named(n2, n2), {}, FALSE, FALSE)}
================================================================================
