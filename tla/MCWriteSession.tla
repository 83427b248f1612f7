--------------------------- MODULE MCWriteSession ---------------------------
(* Small instances of WriteSession.                                        *)
EXTENDS WriteSession

LOCAL E(kind, cs, hit, failAt) ==
  [kind |-> kind, chunks |-> cs, hit |-> hit, failAt |-> failAt]
LOCAL Small(c) == E("small", <<c>>, FALSE, 0)
LOCAL Large(cs) == E("large", cs, FALSE, 0)
LOCAL Hit(cs) == E("large", cs, TRUE, 0)
LOCAL ADir == E("dir", <<>>, FALSE, 0)
LOCAL Broken(cs, n) == E("large", cs, FALSE, n)
LOCAL Gone == E("small", <<1>>, FALSE, 1)
LOCAL Other(kind) == E(kind, <<>>, FALSE, 0)
LOCAL Out(cs, ok) == [chunks |-> cs, ok |-> ok]

LOCAL W(dumps, entries) ==
  [dumps |-> dumps, entries |-> entries, committed |-> {1}, filter |-> {1, 3},
   recovered |-> (5 :> 90), tiered |-> TRUE, minPack |-> 1, maxPack |-> 2, persisted |-> 0,
   slow |-> FALSE, flakyUpload |-> FALSE, flakyJournal |-> FALSE, flakyCommit |-> FALSE,
   mayDie |-> FALSE, idle |-> FALSE]

NoWrites == [W(<<>>, <<>>) EXCEPT !.idle = TRUE]

MCWrites ==
  {W(<<>>, <<ADir, Small(2), Small(1), Hit(<<1, 5>>), Large(<<2, 3, 2>>), Small(3), ADir>>),
   [W(<<>>, <<Small(4), Large(<<2, 3, 4, 5, 2>>), Other("special"), Gone, Broken(<<2, 3, 4>>, 3)>>)
      EXCEPT !.flakyUpload = TRUE, !.tiered = FALSE],
   [W(<<>>, <<Large(<<2, 3, 4, 5, 6>>), Other("skipped")>>)
      EXCEPT !.mayDie = TRUE, !.minPack = 1, !.persisted = 2],
   [W(<<>>, <<Large(<<2, 2, 3, 6>>), Small(4), Small(2), Hit(<<2, 3>>), Large(<<4, 6, 7, 5, 5>>)>>)
      EXCEPT !.minPack = 3, !.maxPack = 4, !.flakyUpload = TRUE, !.slow = TRUE],
   [W(<<>>, <<Large(<<2, 2, 3, 4>>), Other("hard")>>) EXCEPT !.minPack = 2, !.maxPack = 3],
   [W(<<>>, <<Small(2), Large(<<3, 4, 3>>)>>)
      EXCEPT !.flakyCommit = TRUE, !.flakyJournal = TRUE, !.minPack = 2],
   [W(<<Out(<<2, 5, 1>>, TRUE), Out(<<3, 2, 4>>, FALSE)>>, <<Small(4)>>) EXCEPT !.minPack = 2],
   [W(<<Out(<<2, 5, 3>>, TRUE)>>, <<Large(<<5, 2>>), Hit(<<7>>)>>)
      EXCEPT !.slow = TRUE, !.flakyUpload = TRUE]}
=============================================================================
