--------------------------- MODULE MCCheckRepair ----------------------------
(* What is stored, damaged, run and failing in the runs of CheckRepair.      *)
EXTENDS CheckRepair, TLC

Small == [ptrs |-> {"i1"}, files |-> {"f1"}]
Large == [ptrs |-> {"i2"}, files |-> {"f1", "f2"}]
Later == [ptrs |-> {"i3"}, files |-> {"f1", "f3"}]
Empty == [ptrs |-> {}, files |-> {}]

PackFile(size) == [there |-> TRUE, header |-> TRUE, bad |-> {}, size |-> size]
Entry(p, n) == [pack |-> p, refs |-> n]

\* Two snapshots share a file; one pack has a single chunk.
Sound ==
  [mode |-> "check", percent |-> 100, full |-> "due", verify |-> TRUE,
   backend |-> "local", server |-> FALSE, appendOnly |-> FALSE,
   faults |-> {}, arriving |-> {}, arrivingPack |-> "N", cached |-> {"s1"},
   snaps |-> "s1" :> "ok" @@ "s2" :> "ok",
   content |-> "s1" :> Small @@ "s2" :> Large @@ "s3" :> Later @@ "j" :> Empty,
   index |-> "i1" :> Entry("P", 1) @@ "f1" :> Entry("P", 2)
               @@ "i2" :> Entry("Q", 1) @@ "f2" :> Entry("Q", 1),
   packs |-> "P" :> PackFile(3) @@ "Q" :> PackFile(3) @@ "N" :> PackFile(3)]

\* A file in a pack of its own.
Spread == [Sound EXCEPT !.index["f2"] = Entry("N", 1)]

NoCheck == [Sound EXCEPT !.mode = "none"]

Damages(s) ==
  {[s EXCEPT !.packs["Q"].there = FALSE],
   [s EXCEPT !.packs["Q"].header = FALSE],
   [s EXCEPT !.packs["Q"].bad = {"f2"}, !.packs["N"].bad = {"f2"}],
   [s EXCEPT !.packs["Q"].bad = {"i2"}],
   [s EXCEPT !.snaps["s1"] = "corrupt"],
   [s EXCEPT !.snaps["s2"] = "corrupt"],
   [s EXCEPT !.snaps["s2"] = "garbled"],
   [s EXCEPT !.snaps = @ @@ "j" :> "junk"],
   [s EXCEPT !.snaps = @ @@ "s3" :> "ok"]}

\* Sound repositories next to a backup, in full, sampled or left out.
SoundChecks ==
  {[Sound EXCEPT !.arriving = {"s3"}, !.server = b, !.mode = m] :
     b \in BOOLEAN, m \in {"check", "plan"}}
    \union {[Sound EXCEPT !.percent = n, !.full = "not due", !.server = TRUE] :
              n \in {0, 50}}

\* Damage, with and without the server; its files are larger than the live
\* chunks in them.
DamagedChecks ==
  {[s EXCEPT !.server = b, !.packs["P"].size = n, !.packs["Q"].size = n,
             !.verify = v] :
     s \in Damages(Sound), b \in BOOLEAN, n \in {3, 5, 9}, v \in BOOLEAN}

FailingChecks ==
  {[s EXCEPT !.server = TRUE, !.faults = {f}, !.packs["Q"].size = 5] :
     s \in Damages(Sound) \union {Sound},
     f \in {"list", "server", "meta", "items", "exists", "read"}}

Repairs ==
  {[s EXCEPT !.mode = "repair", !.verify = v, !.appendOnly = a] :
     s \in Damages(Sound) \union Damages(Spread), v \in BOOLEAN,
     a \in BOOLEAN}

\* One request fails, or the process dies; the failures of reads are those
\* of a local file system, in packs that are read as a whole.
FailingRepairs ==
  {[s EXCEPT !.mode = "repair", !.faults = {f, "death"}] :
     s \in Damages(Sound),
     f \in {"list", "meta", "items", "exists", "read", "delete", "save"}}

MCChecks == SoundChecks \union DamagedChecks \union FailingChecks
              \union Repairs \union FailingRepairs

\* A request for a snapshot fails once on a remote backend.
RemoteFailure ==
  {[Sound EXCEPT !.mode = "repair", !.backend = "rest",
                 !.faults = {"meta", "items"}]}
=============================================================================
