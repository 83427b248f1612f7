------------------------------ MODULE MCCommands ------------------------------
(* The commands and the programs that run them, for model checking: check    *)
(* and repair, restore, mount, the cycle and the daemon, the desktop         *)
(* application and its file tree, prune and find. A behaviour plays one      *)
(* scene of one of them while the others have nothing to do.                 *)
EXTENDS MCCheckRepair, MCRestore, MCMount, MCCycle, MCDesktop, FileTree, MCRetention, MCFindFiles

\* Snapshots whose tree is shown: nested directories and an empty one, and items that
\* come before their directories.
NoTrees == [items |-> <<>>]

LOCAL DirItem(p) == [path |-> p, dir |-> TRUE]
LOCAL FileItem(p) == [path |-> p, dir |-> FALSE]

LOCAL Deep == <<DirItem(<<2, 1>>), FileItem(<<2, 1, 4>>), FileItem(<<2, 1, 3>>), FileItem(<<2, 5>>), DirItem(<<2, 1, 9>>)>>
LOCAL Loose == <<FileItem(<<7, 1, 2>>), FileItem(<<3>>), DirItem(<<7>>), FileItem(<<7, 2>>)>>

MCTrees == {[items |-> Deep], [items |-> Loose]}

AnyChecks == MCChecks \union {NoCheck}
AnyRestores == MCRestores \union {NoRestore}
AnyMounts == MCMounts \union {NoMount}
AnyCycles == MCCycles \union {NoCycles}
AnyDesktops == DesktopScenes \union {NoDesktop}
AnyTrees == MCTrees \union {NoTrees}
AnyRetentions == MCRetentions \union {NoRetention}
AnyFinds == MCFinds \union {NoFind}

VARIABLE running   \* the component that plays

commandVars ==
  <<running, checkVars, restoreVars, mountVars, cycleVars, deskVars, treeVars, retVars, findVars>>

CommandInit ==
  /\ running \in {"check", "restore", "mount", "cycle", "desktop", "tree", "prune", "find"}
  /\ task \in IF running = "check" THEN MCChecks ELSE {NoCheck}
  /\ rscene \in IF running = "restore" THEN MCRestores ELSE {NoRestore}
  /\ mscene \in IF running = "mount" THEN MCMounts ELSE {NoMount}
  /\ cyscene \in IF running = "cycle" THEN MCCycles ELSE {NoCycles}
  /\ dscene \in IF running = "desktop" THEN DesktopScenes ELSE {NoDesktop}
  /\ tscene \in IF running = "tree" THEN MCTrees ELSE {NoTrees}
  /\ retScene \in IF running = "prune" THEN MCRetentions ELSE {NoRetention}
  /\ findScene \in IF running = "find" THEN MCFinds ELSE {NoFind}
  /\ CheckInit /\ RestoreInit /\ MountInit /\ CycleInit /\ DeskInit /\ TreeInit /\ RetInit /\ FindInit

\* A step of component c.
Alone(c) ==
  /\ running = c /\ UNCHANGED running
  /\ IF c = "check" THEN TRUE ELSE UNCHANGED checkVars
  /\ IF c = "restore" THEN TRUE ELSE UNCHANGED restoreVars
  /\ IF c = "mount" THEN TRUE ELSE UNCHANGED mountVars
  /\ IF c = "cycle" THEN TRUE ELSE UNCHANGED cycleVars
  /\ IF c = "desktop" THEN TRUE ELSE UNCHANGED deskVars
  /\ IF c = "tree" THEN TRUE ELSE UNCHANGED treeVars
  /\ IF c = "prune" THEN TRUE ELSE UNCHANGED retVars
  /\ IF c = "find" THEN TRUE ELSE UNCHANGED findVars

CommandNext ==
  \/ Alone("check") /\ CheckNext
  \/ Alone("restore") /\ RestoreNext
  \/ Alone("mount") /\ MountNext
  \/ Alone("cycle") /\ CycleNext
  \/ Alone("desktop") /\ DeskNext
  \/ Alone("tree") /\ TreeNext
  \/ Alone("prune") /\ RetNext
  \/ Alone("find") /\ FindNext

\* The fairness of the components. Only one of them plays, so that a condition
\* over several of them stands for one condition for each.
CommandProgress ==
  /\ WF_commandVars(\/ Alone("check") /\ CheckProgress
                    \/ Alone("restore") /\ RestoreNext
                    \/ Alone("mount") /\ BuildTree
                    \/ Alone("cycle") /\ CycleProcess
                    \/ Alone("desktop") /\ SchedulerNext)
  /\ WF_commandVars(\/ Alone("cycle") /\ HookExits
                    \/ Alone("desktop") /\ WorkerNext)
  /\ WF_commandVars(\/ Alone("cycle") /\ HookDeadline
                    \/ Alone("desktop") /\ EventLoopNext)
  /\ WF_commandVars(Alone("cycle") /\ Tick)
  /\ \A c \in MountClients : WF_commandVars(Alone("mount") /\ ReadStep(c))

CommandSpec == CommandInit /\ [][CommandNext]_commandVars /\ CommandProgress

\* Whatever fails on the way, every check, repair and restore ends and every
\* read of a mounted file returns; the daemon serves shutdowns, triggers,
\* reloads and runs that are due, the desktop application its schedule and quit.
CommandsEnd ==
  []<>(CheckEnded /\ RestoreEnded /\ ReadsEnded /\ CycleServed /\ DesktopServed)
=============================================================================
