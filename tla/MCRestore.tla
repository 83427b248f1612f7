----------------------------- MODULE MCRestore ------------------------------
(* What is stored, asked for and failing in the runs of Restore.             *)
EXTENDS Restore, TLC

Dir(p) == [kind |-> "dir", path |-> p, chunks |-> <<>>]
Link(p) == [kind |-> "link", path |-> p, chunks |-> <<>>]
File(p, cs) == [kind |-> "file", path |-> p, chunks |-> cs]
Garbled == [kind |-> "garbled", path |-> <<"g">>, chunks |-> <<>>]

Ref(c, n) == [id |-> c, size |-> n]
Blob(c, p, o, n) ==
  [chunk |-> c, pack |-> p, offset |-> o, stored |-> 2, size |-> n]
Locations(blobs) ==
  [c \in {b.chunk : b \in blobs} |->
     LET b == CHOOSE x \in blobs : x.chunk = c
     IN  [pack |-> b.pack, offset |-> b.offset, stored |-> b.stored]]

\* Chunks next to each other and across a gap, in two packs; "t" holds the
\* items. With a gap of three and reads of six, "d" is near enough to "c" and
\* makes the read too long; it is too far from "a".
Blobs == {Blob("t", 0, 0, 1), Blob("a", 1, 0, 1), Blob("b", 1, 2, 2),
          Blob("c", 1, 4, 1), Blob("d", 1, 9, 3), Blob("e", 2, 0, 1)}

\* A directory with a file of several chunks, one that shares chunks with
\* it, an empty file and a link.
Tree == <<Dir(<<"x">>),
          File(<<"x", "f">>, <<Ref("a", 1), Ref("b", 2), Ref("c", 1)>>),
          File(<<"g">>, <<Ref("e", 1), Ref("d", 3), Ref("e", 1)>>),
          File(<<"x", "h">>, <<>>),
          Link(<<"l">>)>>

Shared == <<File(<<"f">>, <<Ref("a", 1), Ref("e", 1), Ref("b", 2)>>),
            File(<<"h">>, <<Ref("e", 1), Ref("a", 1)>>)>>

Plainly == [items |-> Tree, ptrs |-> {"t"}, blobs |-> Blobs,
            index |-> Locations(Blobs), cached |-> FALSE,
            cache |-> Locations(Blobs), all |-> TRUE, selected |-> {},
            dest |-> "absent", faults |-> {}, sound |-> TRUE, none |-> FALSE]

NoRestore == [Plainly EXCEPT !.none = TRUE]

\* The cache misses the items, or places them where they were.
Caches == {[c \in {} |-> 0],
           [Locations(Blobs) EXCEPT !["t"].offset = 7]}

MCRestores ==
  {NoRestore, Plainly,
   [Plainly EXCEPT !.items = Shared, !.dest = "empty"],
   [Plainly EXCEPT !.dest = "full"],
   [Plainly EXCEPT !.items = <<File(<<"f">>, <<Ref("d", 3), Ref("a", 1)>>)>>],
   [Plainly EXCEPT !.all = FALSE, !.selected = {<<"x">>}],
   [Plainly EXCEPT !.all = FALSE, !.selected = {<<"l">>}],
   [Plainly EXCEPT !.items = Append(Tree, Garbled), !.sound = FALSE],
   [Plainly EXCEPT !.items = <<File(<<"f">>, <<Ref("a", 1), Ref("a", 2)>>)>>,
                   !.sound = FALSE],
   [Plainly EXCEPT !.items = Shared, !.sound = FALSE,
                   !.blobs = {b \in Blobs : b.pack # 2}
                               \union {Blob("e", 3, 0, 1)}],
   [Plainly EXCEPT !.items = Shared, !.sound = FALSE,
                   !.blobs = {b \in Blobs : b.chunk # "b"}
                               \union {Blob("b", 3, 2, 2)}],
   [Plainly EXCEPT !.items = Shared, !.sound = FALSE,
                   !.index = Locations({b \in Blobs : b.chunk # "e"})]}
    \union {[Plainly EXCEPT !.items = Shared, !.faults = {f}] :
              f \in {"items", "read", "open", "rename"}}
    \union {[Plainly EXCEPT !.items = Shared, !.cached = TRUE, !.cache = c,
                            !.faults = {"items"}] :
              c \in Caches \union {Locations(Blobs)}}
=============================================================================
