------------------------------- MODULE FindFiles -------------------------------
(***************************************************************************)
(* The find command: the history of every path that matches a filter, read *)
(* from the item streams of the snapshots in scope. Streams are located    *)
(* with the restore cache until it fails once, then with the full index.   *)
(* Snapshots may vanish in between, when the marker of the reader has      *)
(* been taken for stale.                                                   *)
(***************************************************************************)
EXTENDS Integers, Sequences, FiniteSets
LOCAL INSTANCE SequencesExt

CONSTANT FindScenes

VARIABLES
  findScene,  \* the member of FindScenes played; never changes
  gone,    \* snapshots deleted since the repository was opened
  fnd      \* the command

findVars == <<findScene, gone, fnd>>

\* An option of the command line: the set of at most one value.
Unset == {}
Snaps == findScene.snaps
IdsOf(s) == 1..Len(s)

FindInit ==
  /\ findScene \in FindScenes
  /\ gone = {}
  /\ fnd = [at |-> IF Snaps = <<>> THEN "done" ELSE "select", todo |-> <<>>, cache |-> findScene.cache # {},
            index |-> FALSE, stream |-> {}, hits |-> [p \in findScene.paths |-> <<>>],
            timelines |-> <<>>, end |-> ""]

FindGoes(f) == fnd' = f /\ UNCHANGED <<findScene, gone>>

InLabel(i) == \A l \in findScene.label : Snaps[i].label = l

\* In order of time.
Chronological(S) ==
  [n \in 1..Cardinality(S) |->
     CHOOSE i \in S : Cardinality({j \in S : Snaps[j].time < Snaps[i].time}) = n - 1]

SelectFirst ==
  /\ fnd.at = "select"
  /\ LET es == Chronological({i \in IdsOf(Snaps) : InLabel(i)})
     IN FindGoes([fnd EXCEPT !.at = "read",
                          !.todo = SelectSeq(es, LAMBDA i : \A n \in findScene.last :
                                     Cardinality({j \in 1..Len(es) : Snaps[es[j]].time < Snaps[i].time}) < n)])

Dropped(es) == Cardinality({k \in 1..Len(es) : \E n \in findScene.last : k <= Len(es) - n})

SelectSnapshots ==
  /\ fnd.at = "select"
  /\ LET es == Chronological({i \in IdsOf(Snaps) : InLabel(i)})
     IN FindGoes([fnd EXCEPT !.at = "read", !.todo = SubSeq(es, Dropped(es) + 1, Len(es))])

Vanish ==
  /\ fnd.at = "read" /\ gone = {}
  /\ \E i \in findScene.prunable : gone' = {i}
  /\ UNCHANGED <<findScene, fnd>>

Stream(i) == {[path |-> p, item |-> Snaps[i].items[p]] : p \in DOMAIN Snaps[i].items}

\* load_snapshot_item_stream_via_lookup: metadata, then chunks located by the cache.
ReadViaCache ==
  /\ fnd.at = "read" /\ fnd.todo # <<>> /\ fnd.cache
  /\ LET i == Head(fnd.todo)
     IN FindGoes(IF i \notin gone /\ i \in findScene.cache
              THEN [fnd EXCEPT !.at = "scan", !.stream = Stream(i)]
              ELSE [fnd EXCEPT !.at = "fallback", !.cache = FALSE])

\* The index is loaded once.
LoadFullIndex ==
  /\ \/ fnd.at = "fallback"
     \/ fnd.at = "read" /\ fnd.todo # <<>> /\ ~fnd.cache /\ ~fnd.index
  /\ \/ FindGoes([fnd EXCEPT !.at = "read", !.index = TRUE])
     \/ FindGoes([fnd EXCEPT !.at = "done", !.end = "error"])

ReadViaIndex ==
  /\ fnd.at = "read" /\ fnd.todo # <<>> /\ ~fnd.cache /\ fnd.index
  /\ LET i == Head(fnd.todo)
     IN FindGoes(IF i \in gone THEN [fnd EXCEPT !.at = "done", !.end = "error"]
              ELSE [fnd EXCEPT !.at = "scan", !.stream = Stream(i)])

\* matches_filter; the globs stand for the file names they match.
MatchesFilter(p, item) ==
  LET f == findScene.filter
  IN /\ \A t \in f.type : item.type = t
     /\ \A d \in f.prefix : IsPrefix(d, p)
     /\ \A n \in f.larger : item.size >= n
     /\ \A n \in f.smaller : item.size <= n
     /\ \A t \in f.since : item.mtime >= t
     /\ \A glob \in f.names : Last(p) \in glob

ScanItems ==
  /\ fnd.at = "scan"
  /\ LET i == Head(fnd.todo)
         found == {e \in fnd.stream : MatchesFilter(e.path, e.item)}
         hit(e) == [snapshot |-> i, size |-> e.item.size, chunks |-> e.item.chunks]
     IN FindGoes([fnd EXCEPT !.at = "read", !.todo = Tail(@), !.stream = {},
                          !.hits = [p \in findScene.paths |->
                                      @[p] \o (IF \E e \in found : e.path = p
                                               THEN <<hit(CHOOSE e \in found : e.path = p)>> ELSE <<>>)]])

SameContent(h, g) == h.chunks = g.chunks /\ h.size = g.size

\* annotate_hits
Annotated(hs) ==
  [n \in 1..Len(hs) |->
     [snapshot |-> hs[n].snapshot,
      status |-> IF n = 1 THEN "added"
                 ELSE IF SameContent(hs[n - 1], hs[n]) THEN "unchanged" ELSE "modified"]]

BuildTimelines ==
  /\ fnd.at = "read" /\ fnd.todo = <<>>
  /\ FindGoes([fnd EXCEPT !.at = "done", !.end = "ok", !.timelines = [p \in findScene.paths |-> Annotated(fnd.hits[p])]])

FindNext ==
  \/ SelectSnapshots \/ Vanish \/ ReadViaCache \/ LoadFullIndex \/ ReadViaIndex \/ ScanItems \/ BuildTimelines
FindSpec == FindInit /\ [][FindNext]_findVars

-----------------------------------------------------------------------------
LaterSnaps(i, S) == {j \in S : Snaps[j].time > Snaps[i].time}
InScope ==
  LET S == {i \in IdsOf(Snaps) : InLabel(i)}
  IN {i \in S : \A n \in findScene.last : Cardinality(LaterSnaps(i, S)) < n}
Matching(p) == {i \in InScope : p \in DOMAIN Snaps[i].items /\ MatchesFilter(p, Snaps[i].items[p])}
StatusOf(p, i) ==
  LET before == {j \in Matching(p) : Snaps[j].time < Snaps[i].time}
      previous == CHOOSE j \in before : LaterSnaps(j, before) = {}
  IN IF before = {} THEN "added"
     ELSE IF SameContent(Snaps[previous].items[p], Snaps[i].items[p]) THEN "unchanged" ELSE "modified"

(* A search that succeeds is complete and right, at whichever snapshot the *)
(* cache gives up and whatever is deleted meanwhile: every path has one    *)
(* entry for each snapshot in scope in which it matches, in order of time, *)
(* with the status that the previous match gives it.                       *)
FindExact ==
  fnd.end = "ok" =>
    \A p \in findScene.paths :
      LET line == fnd.timelines[p]
      IN /\ Len(line) = Cardinality(Matching(p))
         /\ \A n \in 1..Len(line) :
              /\ line[n].snapshot \in Matching(p)
              /\ Cardinality(LaterSnaps(line[n].snapshot, Matching(p))) = Len(line) - n
              /\ line[n].status = StatusOf(p, line[n].snapshot)
=============================================================================
