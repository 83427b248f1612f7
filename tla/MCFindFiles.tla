----------------------------- MODULE MCFindFiles -----------------------------
(* Searches in the runs of FindFiles.                                        *)
EXTENDS FindFiles
LOCAL INSTANCE TLC

LOCAL D == <<"d">>
LOCAL F == <<"d", "f">>
LOCAL G == <<"g">>
LOCAL File(size, chunks) == [type |-> "file", size |-> size, mtime |-> size, chunks |-> chunks]
LOCAL Dir == [type |-> "dir", size |-> 0, mtime |-> 1, chunks |-> <<>>]
LOCAL Snap(l, t, items) == [label |-> l, time |-> t, items |-> items]
LOCAL AllItems == [type |-> Unset, prefix |-> Unset, larger |-> Unset, smaller |-> Unset, since |-> Unset, names |-> Unset]

\* In the order of the list, which is not the order of time.
LOCAL Listed ==
  <<Snap("a", 4, (D :> Dir @@ F :> File(2, <<"y">>))),
    Snap("a", 1, (F :> File(1, <<"x">>) @@ G :> File(2, <<"x">>))),
    Snap("b", 2, (F :> File(1, <<"x">>) @@ D :> Dir)),
    Snap("a", 3, (G :> File(2, <<"x">>)))>>

NoFind == [snaps |-> <<>>, paths |-> {}, label |-> Unset, last |-> Unset, filter |-> AllItems,
           cache |-> {}, prunable |-> {}]
MCFinds ==
  {[snaps |-> Listed, paths |-> {D, F, G}, label |-> l, last |-> n, filter |-> f, cache |-> c, prunable |-> {1, 3}] :
     l \in {Unset, {"a"}}, n \in {Unset, {2}, {3}},
     f \in {AllItems, [AllItems EXCEPT !.prefix = {D}], [AllItems EXCEPT !.larger = {1}, !.smaller = {1}],
            [AllItems EXCEPT !.type = {"file"}, !.since = {2}], [AllItems EXCEPT !.names = {{"f"}}]},
     c \in {{}, {1, 2, 3}, {1, 2, 3, 4}}}
=============================================================================
