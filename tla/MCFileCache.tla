---------------------------- MODULE MCFileCache -----------------------------
(* Small instances of FileCache.                                           *)
EXTENDS FileCache

MCSizeOf(data) == IF data = 3 THEN 2 ELSE 1

LOCAL Src(raw, root) == [raw |-> raw, base |-> raw, root |-> root]
LOCAL Data == Src("data", <<"data">>)
LOCAL Sub == Src("sub", <<"data", "sub">>)
LOCAL LinkA == Src("link", <<"data">>)
LOCAL LinkB == Src("link", <<"data", "sub">>)

LOCAL Run(name, sources) == [name |-> name, sources |-> sources, trust |-> FALSE]
LOCAL Trusting(r) == [r EXCEPT !.trust = TRUE]

LOCAL FileOf(n, data) ==
  [inode |-> n, mtime |-> n, ctime |-> n, size |-> MCSizeOf(data), data |-> data]
LOCAL OneFile == (<<"data", "sub", "f">> :> FileOf(1, 1))
LOCAL TwoFiles == OneFile @@ (<<"data", "g">> :> FileOf(2, 2))

LOCAL Legacy(ctime) ==
  [name |-> "old", raws |-> {"data"}, roots |-> {<<"data">>}, time |-> 1, ok |-> TRUE,
   items |-> {[path |-> <<"sub", "f">>, file |-> <<"data", "sub", "f">>, mtime |-> 1,
               ctime |-> ctime, size |-> 1, data |-> 2]}]

LOCAL FScene(backups, files, n) ==
  [backups |-> backups, tree |-> files, clock |-> 2, edits |-> n, data |-> {1, 2, 3},
   snapshots |-> <<>>, pin |-> NoPin, side |-> FALSE, flaky |-> FALSE, mayDie |-> FALSE,
   deletes |-> FALSE, lossy |-> FALSE, recreate |-> FALSE]

NoBackups == FScene(<<>>, OneFile, 0)

\* Roots come and go; a retargeted link; the cache is lost and the parent
\* is used, or an old snapshot without change times; snapshots are deleted;
\* backups side by side; requests fail; names collide; a new repository.
MCFiles ==
  {FScene(<<Run("a", <<Data, Sub>>), Run("b", <<Data>>), Run("c", <<Sub, Data>>)>>, TwoFiles, 0),
   FScene(<<Run("a", <<Data>>), Run("b", <<Data>>)>>, OneFile, 2),
   FScene(<<Run("a", <<LinkA>>), Run("b", <<LinkB>>)>>, TwoFiles, 1),
   [FScene(<<Run("a", <<Data, Sub>>), Run("b", <<Sub, Data>>)>>, TwoFiles, 1) EXCEPT !.lossy = TRUE],
   [FScene(<<Run("b", <<Data>>)>>, OneFile, 1) EXCEPT !.snapshots = (1 :> Legacy(0))],
   [FScene(<<Run("a", <<Data>>), Run("b", <<Data>>), Run("c", <<Data>>)>>, OneFile, 1)
      EXCEPT !.deletes = TRUE],
   [FScene(<<Run("a", <<Data>>), Run("b", <<Sub>>)>>, OneFile, 1)
      EXCEPT !.side = TRUE, !.deletes = TRUE, !.mayDie = TRUE],
   [FScene(<<Run("a", <<Data>>), Run("a", <<Data>>)>>, OneFile, 1)
      EXCEPT !.flaky = TRUE, !.snapshots = (1 :> [Legacy(1) EXCEPT !.ok = FALSE])],
   [FScene(<<Run("a", <<Data>>), Run("b", <<Data>>), Trusting(Run("c", <<Data>>))>>, OneFile, 0)
      EXCEPT !.recreate = TRUE],
   [FScene(<<Run("a", <<Data>>), Trusting(Run("b", <<Data>>))>>, OneFile, 0)
      EXCEPT !.pin = CorruptPin]}
=============================================================================
