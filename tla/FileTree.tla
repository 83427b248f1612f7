------------------------------- MODULE FileTree -------------------------------
(***************************************************************************)
(* The tree of check boxes of the restore window: built from the items of  *)
(* a snapshot, expanded and checked by the user, and turned into the paths *)
(* that are restored.                                                      *)
(***************************************************************************)
EXTENDS Integers, Sequences, FiniteSets, SequencesExt, TLC

CONSTANTS TreeScenes   \* items [path, dir] of a snapshot, in some order

VARIABLES
  tscene,   \* the member of TreeScenes shown; never changes
  built,    \* items taken in, over both passes of build_from_items
  arena,    \* nodes; children and parents are indices
  roots,    \* top-level nodes
  visible   \* rows shown

treeVars == <<tscene, built, arena, roots, visible>>

Items == tscene.items
TreeNodes == 1..Len(arena)
Prefix(path, n) == SubSeq(path, 1, n)
Node(path, dir, parent) ==
  [path |-> path, dir |-> dir, parent |-> parent, children |-> <<>>, expanded |-> FALSE, check |-> "no"]
TreeDirNode(path) == {i \in TreeNodes : arena[i].dir /\ arena[i].path = path}
IdxOf(path) == IF TreeDirNode(path) = {} THEN 0 ELSE CHOOSE i \in TreeDirNode(path) : TRUE

-----------------------------------------------------------------------------
(* build_from_items                                                        *)

\* First pass: the directories of the path of one item that are not there yet.
AddDirectories ==
  /\ built < Len(Items)
  /\ LET item == Items[built + 1]
         deep == Len(item.path) - (IF item.dir THEN 0 ELSE 1)
         have == Cardinality({n \in 1..deep : TreeDirNode(Prefix(item.path, n)) # {}})
         old  == Len(arena)
         parent(n) == IF n = 1 THEN 0 ELSE IF n = have + 1 THEN IdxOf(Prefix(item.path, have)) ELSE old + n - have - 1
         new  == [k \in 1..(deep - have) |->
                    [Node(Prefix(item.path, have + k), TRUE, parent(have + k))
                       EXCEPT !.children = IF k < deep - have THEN <<old + k + 1>> ELSE <<>>]]
     IN /\ arena' = [i \in TreeNodes |-> IF deep > have /\ i = parent(have + 1)
                                        THEN [arena[i] EXCEPT !.children = Append(@, old + 1)]
                                        ELSE arena[i]] \o new
        /\ roots' = IF deep > have /\ have = 0 THEN Append(roots, old + 1) ELSE roots
  /\ built' = built + 1
  /\ UNCHANGED <<tscene, visible>>

\* Second pass: a file or link below the directory that the first pass made.
AddFile ==
  /\ built \in Len(Items)..(2 * Len(Items) - 1)
  /\ LET item == Items[built + 1 - Len(Items)]
         up   == Prefix(item.path, Len(item.path) - 1)
         dad  == IdxOf(up)
     IN IF item.dir THEN UNCHANGED <<arena, roots>>
        ELSE /\ arena' = Append([i \in TreeNodes |->
                                   IF i = dad THEN [arena[i] EXCEPT !.children = Append(@, Len(arena) + 1)]
                                   ELSE arena[i]],
                                Node(item.path, FALSE, dad))
             /\ roots' = IF dad = 0 THEN Append(roots, Len(arena) + 1) ELSE roots
  /\ built' = built + 1
  /\ UNCHANGED <<tscene, visible>>

\* Rows of the expanded part, parents before children: dfs_visible.
Visible(a, rs) ==
  LET dfs[i \in 1..Len(a)] ==
        <<i>> \o (IF a[i].dir /\ a[i].expanded
                  THEN FlattenSeq([k \in 1..Len(a[i].children) |-> dfs[a[i].children[k]]])
                  ELSE <<>>)
  IN FlattenSeq([k \in 1..Len(rs) |-> dfs[rs[k]]])

\* Directories first, then by name; names are numbers here.
Before(a, i, j) ==
  \/ a[i].dir /\ ~a[j].dir
  \/ a[i].dir = a[j].dir /\ Last(a[i].path) < Last(a[j].path)
Sorted(s) == SortSeq(s, LAMBDA i, j : Before(arena, i, j))

SortTree ==
  /\ built = 2 * Len(Items) /\ Len(Items) > 0
  /\ arena' = [i \in TreeNodes |-> [arena[i] EXCEPT !.children = Sorted(@)]]
  /\ roots' = Sorted(roots)
  /\ visible' = Visible(arena', roots')
  /\ built' = built + 1
  /\ UNCHANGED tscene

-----------------------------------------------------------------------------
(* What the user does                                                      *)

Shown == built > 2 * Len(Items)
Clicking == Shown /\ UNCHANGED <<tscene, built, roots>>

ToggleExpanded(i) ==
  /\ Clicking /\ arena[i].dir
  /\ arena' = [arena EXCEPT ![i].expanded = ~@]
  /\ visible' = Visible(arena', roots)

ExpandAll ==
  /\ Clicking
  /\ arena' = [i \in TreeNodes |-> [arena[i] EXCEPT !.expanded = arena[i].dir]]
  /\ visible' = Visible(arena', roots)

CollapseAll ==
  /\ Clicking
  /\ arena' = [i \in TreeNodes |-> [arena[i] EXCEPT !.expanded = FALSE]]
  /\ visible' = Visible(arena', roots)

\* set_check_recursive reaches a node and everything below it.
Subtree(i) ==
  LET below[j \in TreeNodes] == {j} \cup UNION {below[arena[j].children[k]] : k \in 1..Len(arena[j].children)}
  IN below[i]

ParentOnly(i) == {arena[i].parent} \ {0}

\* The parents that toggle_check walks up.
Ancestors(i) == {j \in TreeNodes : j # i /\ i \in Subtree(j)}

\* recalc_parent_check, from the states of the children
Recalculated(states) ==
  IF states = {"yes"} THEN "yes" ELSE IF states = {"no"} THEN "no" ELSE "some"

ToggleCheck(i) ==
  /\ Clicking
  /\ LET state == IF arena[i].check = "no" THEN "yes" ELSE "no"
         upper == Ancestors(i)
         inner == Subtree(i)
         check[j \in TreeNodes] ==
           IF j \in inner THEN state
           ELSE IF j \notin upper THEN arena[j].check
           ELSE Recalculated({check[arena[j].children[k]] : k \in 1..Len(arena[j].children)})
     IN arena' = [j \in TreeNodes |-> [arena[j] EXCEPT !.check = check[j]]]
  /\ UNCHANGED visible

SelectAll ==
  /\ Clicking
  /\ arena' = [j \in TreeNodes |-> [arena[j] EXCEPT !.check = "yes"]]
  /\ UNCHANGED visible

DeselectAll ==
  /\ Clicking
  /\ arena' = [j \in TreeNodes |-> [arena[j] EXCEPT !.check = "no"]]
  /\ UNCHANGED visible

-----------------------------------------------------------------------------
\* collect_checked_node: a checked directory stands for all below it.
CollectedFrom(i) ==
  LET paths[j \in TreeNodes] ==
        CASE arena[j].check = "yes" -> {arena[j].path}
          [] arena[j].check = "some" ->
               UNION {paths[arena[j].children[k]] : k \in 1..Len(arena[j].children)}
          [] arena[j].check = "no" -> {}
  IN paths[i]
CheckedPaths == UNION {CollectedFrom(roots[k]) : k \in 1..Len(roots)}

\* path_matches_selection of restore: the path or one of its ancestors.
Matches(path, paths) == \E n \in 1..Len(path) : Prefix(path, n) \in paths

TreeInit ==
  /\ tscene \in TreeScenes
  /\ built = 0 /\ arena = <<>> /\ roots = <<>> /\ visible = <<>>

TreeNext ==
  \/ AddDirectories \/ AddFile \/ SortTree
  \/ \E i \in TreeNodes : ToggleExpanded(i) \/ ToggleCheck(i)
  \/ ExpandAll \/ CollapseAll \/ SelectAll \/ DeselectAll

TreeSpec == TreeInit /\ [][TreeNext]_treeVars

-----------------------------------------------------------------------------
(* Every item of the snapshot has one node, every ancestor of an item one  *)
(* directory node, whatever the order of the items, and each node hangs    *)
(* below the node of its parent directory: nothing of the snapshot is out  *)
(* of the user's reach.                                                    *)
TreeComplete ==
  Shown =>
    /\ {<<arena[i].path, arena[i].dir>> : i \in TreeNodes}
         = UNION {{<<it.path, it.dir>>} \cup {<<Prefix(it.path, n), TRUE>> : n \in 1..(Len(it.path) - 1)} :
                    it \in ToSet(Items)}
    /\ \A i, j \in TreeNodes : arena[i].path = arena[j].path => i = j
    /\ \A i \in TreeNodes :
         \/ Len(arena[i].path) = 1 /\ \E k \in 1..Len(roots) : roots[k] = i
         \/ \E p \in TreeNodes : /\ arena[p].path = Front(arena[i].path)
                                 /\ \E k \in 1..Len(arena[p].children) : arena[p].children[k] = i

(* What is restored is what is checked: of the items, exactly those whose  *)
(* box is checked match the collected paths, after any sequence of clicks  *)
(* on files, directories and the buttons.                                  *)
SelectionExact ==
  Shown => \A i \in TreeNodes : Matches(arena[i].path, CheckedPaths) <=> arena[i].check = "yes"

(* The box of a directory tells the truth about what is below it: checked  *)
(* when all is, unchecked when nothing is, partial otherwise.              *)
BoxesTruthful ==
  Shown => \A i \in TreeNodes :
    arena[i].children # <<>> =>
      LET leaves == {j \in Subtree(i) : arena[j].children = <<>>}
      IN /\ arena[i].check = "yes" <=> \A j \in leaves : arena[j].check = "yes"
         /\ arena[i].check = "no" <=> \A j \in leaves : arena[j].check = "no"

(* The rows are the nodes below expanded directories only, each once, and  *)
(* a directory is followed by its own rows.                                *)
RowsExact ==
  Shown =>
    /\ ToSet(visible) = {i \in TreeNodes : \A j \in TreeNodes : j # i /\ i \in Subtree(j) => arena[j].expanded}
    /\ Cardinality(ToSet(visible)) = Len(visible)
    /\ \A x, y, z \in 1..Len(visible) :
         x < y /\ y < z /\ visible[z] \in Subtree(visible[x]) => visible[y] \in Subtree(visible[x])
    /\ \A x, y \in 1..Len(visible) : x < y => visible[x] \notin Subtree(visible[y]) \ {visible[y]}

(* The tree shows the snapshot and the user's choice, and the choice shown *)
(* is the one that is restored.                                            *)
TreeFaithful == TreeComplete /\ SelectionExact /\ BoxesTruthful /\ RowsExact
=============================================================================
