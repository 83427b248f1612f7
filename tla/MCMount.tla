------------------------------ MODULE MCMount -------------------------------
(* What is mounted in the runs of Mount.                                     *)
EXTENDS Mount

LOCAL Node(k, p, cs) == [kind |-> k, path |-> p, chunks |-> cs]
LOCAL Part(c, n) == [id |-> c, size |-> n]

LOCAL Orders == {<<1, 2, 3>>, <<1, 3, 2>>, <<2, 1, 3>>, <<2, 3, 1>>,
                 <<3, 1, 2>>, <<3, 2, 1>>}

\* Three items in every order: directories after what they contain.
LOCAL Nested == <<Node("dir", <<"s", "d">>, <<>>),
                  Node("dir", <<"s", "d", "e">>, <<>>),
                  Node("file", <<"s", "d", "e", "f">>, <<>>)>>

LOCAL OneFile ==
  <<Node("file", <<"f">>,
         <<Part("a", 2), Part("b", 1), Part("c", 1), Part("a", 2)>>),
    Node("link", <<"l">>, <<>>)>>

NoMount == [items |-> <<>>, roots |-> {}, compact |-> FALSE]

MCMounts ==
  {NoMount, [NoMount EXCEPT !.items = OneFile, !.compact = TRUE]}
    \union {[NoMount EXCEPT !.items = [i \in 1..3 |-> Nested[o[i]]],
                            !.roots = {<<"s">>, <<"t">>}] : o \in Orders}

MCSeeks == {<<"start", 1>>, <<"current", -1>>, <<"end", -2>>, <<"end", 1>>}
=============================================================================
