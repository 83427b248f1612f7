--------------------------- MODULE MCLocalCaches ----------------------------
(* Small instances of LocalCaches.                                         *)
EXTENDS LocalCaches

LOCAL Proc(job, host, chunks) == [job |-> job, host |-> host, chunks |-> chunks]
LOCAL Backup(host, chunks) == Proc("backup", host, chunks)
LOCAL Removal(host, chunks) == Proc("remove", host, chunks)
LOCAL Reader(host) == Proc("read", host, <<>>)

LOCAL Has(S) ==
  [c \in CacheChunks |-> IF c \in S THEN [pack |-> {0}, refs |-> 1] ELSE D!Absent]

LOCAL Play(procs, warm) ==
  [procs |-> procs, index |-> Has({1, 3}), warm |-> warm,
   mayDie |-> FALSE, maySleep |-> FALSE, flaky |-> FALSE]
LOCAL Deadly(s) == [s EXCEPT !.mayDie = TRUE]
LOCAL Sleepy(s) == [s EXCEPT !.maySleep = TRUE]
LOCAL Flaky(s) == [s EXCEPT !.flaky = TRUE]

NoCaches == Play(<<>>, <<>>)

\* Two backups of one host that may die, sleep or fail; of two hosts; a
\* backup without changes and a removal elsewhere; a reader that follows a
\* hint; a reader and a commit given up after the merge.
MCCaches ==
  {Deadly(Play(<<Backup(1, <<2, 1, 2>>), Backup(1, <<3, 4>>)>>, <<TRUE>>)),
   Sleepy(Play(<<Backup(1, <<2>>), Backup(1, <<4, 1>>)>>, <<TRUE>>)),
   Flaky(Play(<<Backup(1, <<2, 3>>), Backup(2, <<2, 2>>)>>, <<TRUE, FALSE>>)),
   Play(<<Backup(1, <<>>), Backup(1, <<1, 2>>), Removal(2, <<1>>)>>, <<TRUE, TRUE>>),
   Play(<<Removal(1, <<3>>), Backup(2, <<3>>), Reader(2)>>, <<FALSE, TRUE>>),
   Flaky(Play(<<Backup(1, <<2>>), Backup(1, <<4>>)>>, <<TRUE>>)),
   Flaky(Play(<<Backup(1, <<4>>), Reader(1)>>, <<TRUE>>))}
=============================================================================
