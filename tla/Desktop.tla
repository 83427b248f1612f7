------------------------------- MODULE Desktop -------------------------------
(***************************************************************************)
(* The desktop application: the window (the thread of the event loop), the *)
(* menu of the tray, the worker that executes commands one by one, the     *)
(* thread that starts scheduled backups, and the configuration file that   *)
(* the editor of the window replaces.                                      *)
(*                                                                         *)
(* Threads talk through two unbounded queues (commands and events), one    *)
(* wake-up slot of capacity one, two atomic flags and the schedule behind  *)
(* a mutex.  Logs, texts and layout are left out.                          *)
(***************************************************************************)
EXTENDS Integers, Sequences, FiniteSets, SequencesExt, TLC

CONSTANTS DeskScenes   \* configurations, what the user does, what may fail

VARIABLES
  dscene,   \* the member of DeskScenes played; never changes
  cmds,     \* commands for the worker
  uis,      \* events for the window
  wake,     \* the slot of the notification channel
  sch,      \* the schedule and the thread that watches it
  worker,       \* the worker, with backup_running and cancel_requested
  win,      \* the windows
  conffile  \* configuration files by path, and the temporary file

deskVars == <<dscene, cmds, uis, wake, sch, worker, win, conffile>>

Cmd(c, r, x) == [c |-> c, r |-> r, x |-> x]
Ui(e, x) == [e |-> e, x |-> x]
NoTree == <<>>
Never == -1

Text(v) == dscene.texts[v]
ReposOf(v) == 1..Text(v).repos
Numbers(n) == [i \in 1..n |-> i]
Up == win.up

-----------------------------------------------------------------------------
(* The scheduler thread                                                    *)

\* compute_scheduler_delay
Rescheduled(s) ==
  IF s.occurs THEN [s EXCEPT !.wait = s.every]
  ELSE [s EXCEPT !.wait = Never, !.paused = TRUE]

\* One pass through the top of the loop, under the mutex.
SchedulerLooks ==
  /\ Up /\ sch.at = "top"
  /\ sch' = IF ~sch.enabled \/ sch.paused THEN [sch EXCEPT !.at = "block"]
            ELSE IF sch.wait = Never THEN Rescheduled(sch)
            ELSE IF sch.wait = 0 THEN [sch EXCEPT !.at = IF worker.running THEN "block" ELSE "check"]
            ELSE [sch EXCEPT !.at = "wait", !.timer = sch.wait]
  /\ UNCHANGED <<dscene, cmds, uis, wake, worker, win, conffile>>

SchedulerWakes ==
  /\ Up /\ sch.at \in {"block", "wait"} /\ wake
  /\ wake' = FALSE /\ sch' = [sch EXCEPT !.at = "top"]
  /\ UNCHANGED <<dscene, cmds, uis, worker, win, conffile>>

SchedulerTimeout ==
  /\ Up /\ sch.at = "wait" /\ sch.timer = 0
  /\ sch' = [sch EXCEPT !.at = "check"]
  /\ UNCHANGED <<dscene, cmds, uis, wake, worker, win, conffile>>

\* The state may have changed since: it is looked at again under the mutex.
SchedulerChecks ==
  /\ Up /\ sch.at = "check"
  /\ sch' = IF sch.enabled /\ ~sch.paused /\ sch.wait = 0 /\ ~worker.running
            THEN [Rescheduled(sch) EXCEPT !.at = "send"]
            ELSE [sch EXCEPT !.at = "top"]
  /\ UNCHANGED <<dscene, cmds, uis, wake, worker, win, conffile>>

SchedulerSends ==
  /\ Up /\ sch.at = "send"
  /\ cmds' = IF worker.at = "ended" THEN cmds ELSE Append(cmds, Cmd("all", 0, TRUE))
  /\ sch' = [sch EXCEPT !.at = IF worker.at = "ended" THEN "ended" ELSE "top"]
  /\ UNCHANGED <<dscene, uis, wake, worker, win, conffile>>

DeskTick ==
  /\ Up /\ sch.wait > 0 /\ sch.ticks < dscene.ticks
  /\ sch' = [sch EXCEPT !.wait = @ - 1, !.timer = IF @ > 0 THEN @ - 1 ELSE @, !.ticks = @ + 1]
  /\ UNCHANGED <<dscene, cmds, uis, wake, worker, win, conffile>>

-----------------------------------------------------------------------------
(* The worker                                                              *)

IdleWith(w) == [w EXCEPT !.at = "idle", !.job = "none", !.repo = 0, !.left = <<>>, !.any = FALSE]
DeskIdle == IdleWith(worker)
Says(events) == uis' = uis \o events
Takes(c) == Up /\ worker.at = "idle" /\ cmds # <<>> /\ Head(cmds).c = c
TheCmd == Head(cmds)
Fault == IF worker.faults < dscene.faults THEN BOOLEAN ELSE {FALSE}
Faulted(w, bad) == [w EXCEPT !.faults = @ + (IF bad /\ @ < dscene.faults THEN 1 ELSE 0)]

\* The schedule of a configuration, switched off without the scheduler lock.
Schedule(v) ==
  [sch EXCEPT !.enabled = Text(v).enabled /\ dscene.lock, !.paused = ~dscene.lock,
              !.every = Text(v).every, !.occurs = Text(v).occurs, !.wait = Text(v).every]

\* The part of run_worker before its loop.
WorkerStart ==
  /\ Up /\ worker.at = "start"
  /\ sch' = Schedule(worker.conf)
  /\ wake' = TRUE
  /\ Says(<<Ui("names", Text(worker.conf).repos), Ui("text", conffile.text[worker.shown])>>)
  /\ cmds' = Append(cmds, Cmd("fetch", 0, 0))
               \o (IF dscene.lock /\ Text(worker.conf).enabled /\ Text(worker.conf).startup
                   THEN <<Cmd("all", 0, TRUE)>> ELSE <<>>)
  /\ worker' = DeskIdle
  /\ UNCHANGED <<dscene, win, conffile>>

\* get_or_resolve_passphrase: from the cache, or from the configuration or the
\* user and then kept, right or wrong; no answer is not kept.
Passes(r) ==
  CASE Text(worker.conf).crypt = "none" -> {"unneeded"}
    [] r \in DOMAIN worker.pass -> {worker.pass[r].p}
    [] OTHER -> {"right"} \cup
                (IF worker.faults = dscene.faults THEN {}
                 ELSE IF Text(worker.conf).crypt = "ask" THEN {"wrong", "none"} ELSE {"none"})
Kept(w, r, p) ==
  LET asked == p # "unneeded" /\ r \notin DOMAIN w.pass
  IN [w EXCEPT !.pass = IF asked /\ p # "none" THEN (r :> [p |-> p, conf |-> w.conf]) @@ @ ELSE @,
               !.faults = @ + (IF asked /\ p # "right" THEN 1 ELSE 0)]
Opens(p) == p \in {"right", "unneeded"}

\* RunBackupAll, RunBackupRepo and RunBackupSource up to their loop.
BackupAll ==
  /\ Takes("all")
  /\ cmds' = Tail(cmds)
  /\ worker' = [worker EXCEPT !.at = "repo", !.job = "all", !.left = Numbers(Text(worker.conf).repos),
                      !.cancel = FALSE, !.heard = FALSE, !.running = TRUE]
  /\ Says(<<Ui("started", TRUE)>>)
  /\ UNCHANGED <<dscene, wake, sch, win, conffile>>

BackupRepo ==
  /\ Takes("repo")
  /\ cmds' = Tail(cmds)
  /\ IF TheCmd.r \notin ReposOf(worker.conf) THEN UNCHANGED <<worker, uis>>
     ELSE /\ worker' = [worker EXCEPT !.at = "repo", !.job = "repo", !.repo = TheCmd.r, !.left = <<TheCmd.r>>,
                              !.cancel = FALSE, !.heard = FALSE, !.running = TRUE]
          /\ Says(<<Ui("started", TRUE)>>)
  /\ UNCHANGED <<dscene, wake, sch, win, conffile>>

BackupSource ==
  /\ Takes("source")
  /\ cmds' = Tail(cmds)
  /\ worker' = [worker EXCEPT !.at = "repo", !.job = "source", !.cancel = FALSE, !.heard = FALSE, !.running = TRUE,
                      !.left = SelectSeq(Numbers(Text(worker.conf).repos),
                                         LAMBDA r : r \in Text(worker.conf).source)]
  /\ Says(<<Ui("started", TRUE)>>)
  /\ UNCHANGED <<dscene, wake, sch, win, conffile>>

\* One repository of a backup.  A command for one repository does not look at
\* the flag here; the backup itself does, and then creates nothing.
BackupOne ==
  /\ Up /\ worker.at = "repo" /\ worker.job \in {"all", "repo", "source"} /\ worker.left # <<>>
  /\ IF worker.cancel /\ worker.job # "repo" THEN worker' = [worker EXCEPT !.left = <<>>]
     ELSE \E p \in Passes(Head(worker.left)), bad \in Fault :
            worker' = [Faulted(Kept(worker, Head(worker.left), p), bad)
                     EXCEPT !.left = Tail(@), !.any = @ \/ (Opens(p) /\ ~bad /\ ~worker.cancel)]
  /\ UNCHANGED <<dscene, cmds, uis, wake, sch, win, conffile>>

\* Refreshes are asked for, then finish_operation begins: the flag is reset
\* before the scheduler is woken.
EndBackup ==
  /\ Up /\ worker.at = "repo" /\ worker.job \in {"all", "repo", "source"} /\ worker.left = <<>>
  /\ cmds' = cmds \o (IF ~worker.any THEN <<>>
                      ELSE (IF worker.job = "repo" THEN <<Cmd("refresh", worker.repo, 0)>> ELSE <<>>)
                             \o <<Cmd("fetch", 0, 0)>>)
  /\ Says((IF worker.any /\ worker.job # "repo" THEN <<Ui("trigger", 0)>> ELSE <<>>)
            \o <<Ui("finished", 0)>>)
  /\ worker' = [worker EXCEPT !.at = "notify", !.running = FALSE]
  /\ UNCHANGED <<dscene, wake, sch, win, conffile>>

Notify ==
  /\ Up /\ worker.at = "notify"
  /\ wake' = TRUE /\ worker' = DeskIdle
  /\ UNCHANGED <<dscene, cmds, uis, sch, win, conffile>>

\* FetchAllRepoInfo.  A repository that does not exist may be created: the
\* user confirms, a passphrase that was typed is typed twice more, and the one
\* given to init is kept; another process may create it first.
FetchInfo ==
  /\ Takes("fetch")
  /\ cmds' = Tail(cmds)
  /\ worker' = [worker EXCEPT !.at = "repo", !.job = "fetch", !.left = Numbers(Text(worker.conf).repos)]
  /\ UNCHANGED <<dscene, uis, wake, sch, win, conffile>>

FetchOne ==
  /\ Up /\ worker.at = "repo" /\ worker.job = "fetch" /\ worker.left # <<>>
  /\ LET r == Head(worker.left) IN
     \E p \in Passes(r) :
       LET w == [Kept(worker, r, p) EXCEPT !.left = Tail(@)]
           new == IF Text(worker.conf).crypt = "none" THEN w.pass
                  ELSE (r :> [p |-> "right", conf |-> w.conf]) @@ w.pass
       IN \/ /\ r \in worker.inited /\ worker' = w
          \/ /\ r \notin worker.inited
             /\ \/ worker' = w                                            \* declined, mistyped or failed
                \/ worker' = [w EXCEPT !.inited = @ \cup {r}, !.pass = new]  \* created
                \/ worker' = [w EXCEPT !.inited = @ \cup {r}]              \* created by another process
  /\ UNCHANGED <<dscene, cmds, uis, wake, sch, win, conffile>>

EndFetch ==
  /\ Up /\ worker.at = "repo" /\ worker.job = "fetch" /\ worker.left = <<>>
  /\ worker' = DeskIdle
  /\ Says(<<Ui("repos", Text(worker.conf).repos)>>)
  /\ UNCHANGED <<dscene, cmds, wake, sch, win, conffile>>

\* RefreshSnapshots: select_repos, then the snapshots of each.
Selected(r) == IF r = 0 THEN Numbers(Text(worker.conf).repos)
               ELSE IF r \in ReposOf(worker.conf) THEN <<r>> ELSE <<>>
RefreshSnapshots ==
  /\ Takes("refresh")
  /\ cmds' = Tail(cmds)
  /\ worker' = IF Selected(TheCmd.r) = <<>> THEN worker
            ELSE [worker EXCEPT !.at = "repo", !.job = "refresh", !.left = Selected(TheCmd.r)]
  /\ UNCHANGED <<dscene, uis, wake, sch, win, conffile>>

RefreshOne ==
  /\ Up /\ worker.at = "repo" /\ worker.job = "refresh" /\ worker.left # <<>>
  /\ \E p \in Passes(Head(worker.left)), bad \in Fault :
       worker' = [Faulted(Kept(worker, Head(worker.left), p), bad)
                EXCEPT !.left = Tail(@),
                       !.rows = IF Opens(p) /\ ~bad /\ Head(worker.left) \in worker.inited
                                THEN @ \cup {Head(worker.left)} ELSE @]
  /\ UNCHANGED <<dscene, cmds, uis, wake, sch, win, conffile>>

EndRefresh ==
  /\ Up /\ worker.at = "repo" /\ worker.job = "refresh" /\ worker.left = <<>>
  /\ worker' = [DeskIdle EXCEPT !.rows = {}]
  /\ Says(<<Ui("table", worker.rows)>>)
  /\ UNCHANGED <<dscene, cmds, wake, sch, win, conffile>>

\* FetchSnapshotContents: find_repo_for_snapshot and the listing, one step.
FetchContents ==
  /\ Takes("contents")
  /\ cmds' = Tail(cmds)
  /\ \/ /\ TheCmd.r \in ReposOf(worker.conf)
        /\ \E p \in Passes(TheCmd.r), bad \in Fault :
             /\ worker' = Faulted(Kept(worker, TheCmd.r, p), bad)
             /\ Says(IF Opens(p) /\ ~bad THEN <<Ui("contents", <<TheCmd.r, TheCmd.x>>)>> ELSE <<>>)
     \/ TheCmd.r \notin ReposOf(worker.conf) /\ UNCHANGED <<worker, uis>>
  /\ UNCHANGED <<dscene, wake, sch, win, conffile>>

\* RestoreSelected, DeleteSnapshot once confirmed, FindFiles.
BeginRestore ==
  /\ Takes("restore")
  /\ worker' = [worker EXCEPT !.at = "job", !.job = "restore", !.repo = TheCmd.r, !.cancel = FALSE, !.heard = FALSE]
  /\ Says(<<Ui("started", FALSE)>>)
  /\ cmds' = Tail(cmds)
  /\ UNCHANGED <<dscene, wake, sch, win, conffile>>

BeginDelete ==
  /\ Takes("delete")
  /\ cmds' = Tail(cmds)
  /\ \/ UNCHANGED <<worker, uis>>                      \* not confirmed
     \/ /\ worker' = [worker EXCEPT !.at = "job", !.job = "delete", !.repo = TheCmd.r, !.cancel = FALSE, !.heard = FALSE]
        /\ Says(<<Ui("started", FALSE)>>)
  /\ UNCHANGED <<dscene, wake, sch, win, conffile>>

BeginFind ==
  /\ Takes("find")
  /\ worker' = [worker EXCEPT !.at = "job", !.job = "find", !.repo = TheCmd.r, !.cancel = FALSE, !.heard = FALSE]
  /\ Says(<<Ui("started", FALSE)>>)
  /\ cmds' = Tail(cmds)
  /\ UNCHANGED <<dscene, wake, sch, win, conffile>>

\* How the repository and the passphrase are found, and what the work answers.
JobOutcomes ==
  IF worker.repo \notin ReposOf(worker.conf) THEN {<<worker, FALSE>>}
  ELSE {<<Faulted(Kept(worker, worker.repo, o[1]), o[2]), Opens(o[1]) /\ ~o[2]>> :
          o \in Passes(worker.repo) \X Fault}

EndRestore ==
  /\ Up /\ worker.at = "job" /\ worker.job = "restore"
  /\ \E o \in JobOutcomes :
       /\ worker' = IdleWith(o[1])
       /\ Says(<<Ui("restored", o[2]), Ui("finished", 0)>>)
  /\ UNCHANGED <<dscene, cmds, wake, sch, win, conffile>>

EndDelete ==
  /\ Up /\ worker.at = "job" /\ worker.job = "delete"
  /\ \E o \in JobOutcomes :
       /\ worker' = IdleWith(o[1])
       /\ cmds' = cmds \o (IF o[2] THEN <<Cmd("refresh", worker.repo, 0), Cmd("fetch", 0, 0)>> ELSE <<>>)
  /\ Says(<<Ui("finished", 0)>>)
  /\ UNCHANGED <<dscene, wake, sch, win, conffile>>

EndFind ==
  /\ Up /\ worker.at = "job" /\ worker.job = "find"
  /\ \E o \in JobOutcomes : worker' = IdleWith(o[1])
  /\ Says(<<Ui("finished", 0)>>)
  /\ UNCHANGED <<dscene, cmds, wake, sch, win, conffile>>

-----------------------------------------------------------------------------
(* Configuration                                                           *)

ValidDeskConfig(v) == Text(v).parses /\ Text(v).repos > 0 /\ Text(v).occurs

\* What a rejected configuration leaves as it was.
KeepConfig(rest) ==
  worker' = DeskIdle /\ cmds' = rest /\ UNCHANGED <<uis, sch, wake>>

\* apply_config
ApplyConfig(p, switch, rest) ==
  LET v == conffile.text[p] IN
  IF ~ValidDeskConfig(v) THEN KeepConfig(rest)
  ELSE /\ worker' = [DeskIdle EXCEPT !.conf = v, !.pass = <<>>, !.shown = p, !.src = IF switch THEN p ELSE @]
       /\ sch' = Schedule(v)
       /\ wake' = TRUE
       /\ Says(<<Ui("names", Text(v).repos), Ui("text", v)>>)
       /\ cmds' = Append(rest, Cmd("fetch", 0, 0))

ReloadConfig ==
  /\ Takes("reload")
  /\ ApplyConfig(worker.src, FALSE, Tail(cmds))
  /\ UNCHANGED <<dscene, win, conffile>>

SwitchConfig ==
  /\ Takes("switch")
  /\ \/ \E p \in DOMAIN conffile.text : ApplyConfig(p, TRUE, Tail(cmds))
     \/ KeepConfig(Tail(cmds))                        \* nothing picked
  /\ UNCHANGED <<dscene, win, conffile>>

\* SaveAndApplyConfig: a temporary file, its validation, the rename, and the
\* configuration read back.
SaveWrites ==
  /\ Takes("save")
  /\ \/ /\ worker' = [worker EXCEPT !.at = "validate"]
        /\ conffile' = [conffile EXCEPT !.tmp = TheCmd.x]
        /\ UNCHANGED cmds
     \/ /\ TRUE \in Fault
        /\ worker' = Faulted(worker, TRUE) /\ cmds' = Tail(cmds) /\ UNCHANGED conffile
  /\ UNCHANGED <<dscene, uis, wake, sch, win>>

SaveValidates ==
  /\ Up /\ worker.at = "validate"
  /\ IF ValidDeskConfig(conffile.tmp)
     THEN worker' = [worker EXCEPT !.at = "rename"] /\ UNCHANGED <<cmds, conffile>>
     ELSE worker' = DeskIdle /\ cmds' = Tail(cmds) /\ conffile' = [conffile EXCEPT !.tmp = 0]
  /\ UNCHANGED <<dscene, uis, wake, sch, win>>

SaveRenames ==
  /\ Up /\ worker.at = "rename"
  /\ \E bad \in Fault :
       /\ worker' = IF bad THEN IdleWith(Faulted(worker, TRUE)) ELSE [worker EXCEPT !.at = "apply"]
       /\ conffile' = [conffile EXCEPT !.text[worker.shown] = IF bad THEN @ ELSE conffile.tmp, !.tmp = 0]
       /\ cmds' = IF bad THEN Tail(cmds) ELSE cmds
  /\ UNCHANGED <<dscene, uis, wake, sch, win>>

SaveApplies ==
  /\ Up /\ worker.at = "apply"
  /\ ApplyConfig(worker.shown, FALSE, Tail(cmds))
  /\ UNCHANGED <<dscene, win, conffile>>

\* Quit: the loop ends, with what is left in the queue.
Quit ==
  /\ Takes("quit")
  /\ worker' = [worker EXCEPT !.at = "ended"]
  /\ cmds' = <<>>
  /\ Says(<<Ui("quit", 0)>>)
  /\ UNCHANGED <<dscene, wake, sch, win, conffile>>

-----------------------------------------------------------------------------
(* The event loop: one event of the worker at a time                       *)

Hears(e) == Up /\ uis # <<>> /\ Head(uis).e = e /\ uis' = Tail(uis)
Heard == Head(uis).x
Shows(w) == win' = w /\ UNCHANGED <<dscene, cmds, wake, sch, worker, conffile>>

OnStarted == Hears("started") /\ Shows([win EXCEPT !.busy = TRUE, !.cancellable = Heard])
OnFinished == Hears("finished") /\ Shows([win EXCEPT !.busy = FALSE])
OnRepoModel == Hears("repos") /\ Shows([win EXCEPT !.loading = FALSE, !.labels = Heard])
OnTable == Hears("table") /\ Shows([win EXCEPT !.rows = Heard])

\* The first repository is preselected when nothing is.
OnRepoNames ==
  /\ Hears("names")
  /\ IF win.combo = 0
     THEN win' = [win EXCEPT !.combo = 1] /\ cmds' = Append(cmds, Cmd("refresh", 1, 0))
     ELSE UNCHANGED <<win, cmds>>
  /\ UNCHANGED <<dscene, wake, sch, worker, conffile>>

OnTrigger ==
  /\ Hears("trigger")
  /\ cmds' = Append(cmds, Cmd("refresh", win.combo, 0))
  /\ UNCHANGED <<dscene, wake, sch, worker, win, conffile>>

OnContentsUnchecked == Hears("contents") /\ Shows([win EXCEPT !.tree = Heard])

\* handle_snapshot_contents: late answers for another snapshot are dropped.
OnContents ==
  /\ Hears("contents")
  /\ Shows([win EXCEPT !.tree = IF win.named = Heard THEN Heard ELSE @])

\* handle_restore_finished
OnRestored ==
  /\ Hears("restored")
  /\ Shows([win EXCEPT !.rbusy = FALSE, !.tree = IF Heard THEN NoTree ELSE @])

OnConfigText ==
  /\ Hears("text")
  /\ Shows([win EXCEPT !.base = Heard, !.draft = Heard])

OnQuit == Hears("quit") /\ Shows([win EXCEPT !.up = FALSE])

-----------------------------------------------------------------------------
(* The user: the window, the tray, and files edited by other programs      *)

Dirty == win.draft # win.base
Clicked == [win EXCEPT !.clicks = @ + 1]
Clicks(k) == Up /\ k \in dscene.user /\ win.clicks < dscene.clicks
Sends(w, c) == win' = w /\ cmds' = Append(cmds, c) /\ UNCHANGED <<dscene, uis, wake, sch, worker, conffile>>

ClickBackup == Clicks("all") /\ ~win.busy /\ Sends(Clicked, Cmd("all", 0, FALSE))
ClickRepo == Clicks("repo") /\ ~win.busy /\ \E r \in 1..win.labels : Sends(Clicked, Cmd("repo", r, 0))
ClickSource == Clicks("source") /\ ~win.busy /\ Sends(Clicked, Cmd("source", 0, 0))
ClickRefresh == Clicks("refresh") /\ ~win.busy /\ Sends(Clicked, Cmd("refresh", win.combo, 0))
ChooseRepo == Clicks("combo") /\ \E r \in 1..win.labels :
                Sends([Clicked EXCEPT !.combo = r], Cmd("refresh", r, 0))
ClickDelete == Clicks("delete") /\ ~win.busy /\ \E r \in win.rows : Sends(Clicked, Cmd("delete", r, 1))
ClickFind == Clicks("find") /\ win.combo # 0 /\ Sends(Clicked, Cmd("find", win.combo, 0))
ClickReload == Clicks("reload") /\ ~win.busy /\ ~Dirty
                 /\ Sends([Clicked EXCEPT !.loading = TRUE], Cmd("reload", 0, 0))
ClickSwitch == Clicks("switch") /\ ~win.busy /\ Sends(Clicked, Cmd("switch", 0, 0))
ClickSave == Clicks("save") /\ Dirty /\ ~win.busy /\ Sends(Clicked, Cmd("save", 0, win.draft))
TrayBackup == Clicks("tray") /\ Sends(Clicked, Cmd("all", 0, FALSE))
TrayQuit == Clicks("quit") /\ ~win.quitting /\ Sends([Clicked EXCEPT !.quitting = TRUE], Cmd("quit", 0, 0))

\* The restore window is emptied, named and shown before its contents are
\* asked for.
OpenRestore ==
  /\ Clicks("open") /\ ~win.busy
  /\ \E r \in win.rows, snap \in dscene.snaps :
       Sends([Clicked EXCEPT !.tree = NoTree, !.named = <<r, snap>>], Cmd("contents", r, snap))

\* Paths checked in the tree, for the snapshot that the window names.
ClickRestore ==
  /\ Clicks("restore") /\ win.tree # NoTree /\ ~win.rbusy
  /\ Sends([Clicked EXCEPT !.rbusy = TRUE],
           [c |-> "restore", r |-> win.named[1], x |-> win.named[2], paths |-> win.tree])

CloseRestore ==
  /\ Clicks("close") /\ win.tree # NoTree
  /\ win' = [Clicked EXCEPT !.tree = NoTree]
  /\ UNCHANGED <<dscene, cmds, uis, wake, sch, worker, conffile>>

TypeConfig ==
  /\ Clicks("type")
  /\ \E v \in DOMAIN dscene.texts : v # win.draft /\ win' = [Clicked EXCEPT !.draft = v]
  /\ UNCHANGED <<dscene, cmds, uis, wake, sch, worker, conffile>>

ClickDiscard ==
  /\ Clicks("discard") /\ Dirty
  /\ win' = [Clicked EXCEPT !.draft = win.base]
  /\ UNCHANGED <<dscene, cmds, uis, wake, sch, worker, conffile>>

Cancels(w) == /\ win' = w /\ worker' = [worker EXCEPT !.cancel = TRUE, !.heard = TRUE]
              /\ UNCHANGED <<dscene, cmds, uis, wake, sch, conffile>>

\* The button of the window follows what the window has heard; the tray looks
\* at the flag of the worker, then sets the other one.
ClickCancel == Clicks("cancel") /\ win.busy /\ win.cancellable /\ Cancels(Clicked)
TrayCancelLooks ==
  /\ Clicks("traycancel") /\ ~win.traycancel
  /\ win' = [Clicked EXCEPT !.traycancel = worker.running]
  /\ UNCHANGED <<dscene, cmds, uis, wake, sch, worker, conffile>>
TrayCancelSets == Up /\ win.traycancel /\ Cancels([win EXCEPT !.traycancel = FALSE])

EditOutside ==
  /\ Clicks("outside")
  /\ \E v \in DOMAIN dscene.texts : conffile' = [conffile EXCEPT !.text[1] = v]
  /\ win' = Clicked
  /\ UNCHANGED <<dscene, cmds, uis, wake, sch, worker>>

\* The process dies.
DeskKill ==
  /\ Clicks("kill")
  /\ win' = [win EXCEPT !.up = FALSE]
  /\ UNCHANGED <<dscene, cmds, uis, wake, sch, worker, conffile>>

-----------------------------------------------------------------------------
\* The application starts, or has started and worked off what that queued.
DeskInit ==
  /\ dscene \in DeskScenes
  /\ cmds = <<>> /\ uis = <<>> /\ wake = FALSE
  /\ LET up == dscene.phase = "settled"
         v == IF dscene.phase = "idle" THEN 0 ELSE dscene.files[1]
         n == IF up THEN Text(v).repos ELSE 0
     IN /\ sch = [enabled |-> up /\ Text(v).enabled /\ dscene.lock, paused |-> up /\ ~dscene.lock,
                  every |-> IF up THEN Text(v).every ELSE 1, occurs |-> up => Text(v).occurs,
                  wait |-> IF up THEN Text(v).every ELSE Never, at |-> "top", timer |-> 0, ticks |-> 0]
        /\ worker = [at |-> IF up THEN "idle" ELSE "start", job |-> "none", repo |-> 0, left |-> <<>>,
                 any |-> FALSE, rows |-> {}, running |-> FALSE, cancel |-> FALSE, heard |-> FALSE,
                 conf |-> v, src |-> 1, shown |-> 1, pass |-> <<>>, inited |-> dscene.inited, faults |-> 0]
        /\ win = [up |-> dscene.phase # "idle", quitting |-> FALSE, busy |-> FALSE, cancellable |-> FALSE,
                  combo |-> IF up THEN 1 ELSE 0, labels |-> n, rows |-> IF up THEN {1} ELSE {},
                  loading |-> FALSE, named |-> NoTree, tree |-> NoTree, rbusy |-> FALSE,
                  base |-> IF up THEN v ELSE 0, draft |-> IF up THEN v ELSE 0,
                  traycancel |-> FALSE, clicks |-> 0]
  /\ conffile = [text |-> dscene.files, tmp |-> 0]

SchedulerNext == SchedulerLooks \/ SchedulerWakes \/ SchedulerTimeout \/ SchedulerChecks \/ SchedulerSends

WorkerNext ==
  \/ WorkerStart \/ BackupAll \/ BackupRepo \/ BackupSource \/ BackupOne \/ EndBackup \/ Notify
  \/ FetchInfo \/ FetchOne \/ EndFetch \/ RefreshSnapshots \/ RefreshOne \/ EndRefresh
  \/ FetchContents \/ BeginRestore \/ EndRestore \/ BeginDelete \/ EndDelete \/ BeginFind \/ EndFind
  \/ ReloadConfig \/ SwitchConfig \/ SaveWrites \/ SaveValidates \/ SaveRenames \/ SaveApplies \/ Quit

EventLoopNext ==
  \/ OnStarted \/ OnFinished \/ OnRepoModel \/ OnTable \/ OnRepoNames \/ OnTrigger
  \/ OnContents \/ OnRestored \/ OnConfigText \/ OnQuit

UserNext ==
  \/ ClickBackup \/ ClickRepo \/ ClickSource \/ ClickRefresh \/ ChooseRepo \/ ClickDelete \/ ClickFind
  \/ ClickReload \/ ClickSwitch \/ ClickSave \/ TrayBackup \/ TrayQuit \/ OpenRestore \/ ClickRestore
  \/ CloseRestore \/ TypeConfig \/ ClickDiscard \/ ClickCancel \/ TrayCancelLooks \/ TrayCancelSets
  \/ EditOutside \/ DeskKill

DeskNext == SchedulerNext \/ WorkerNext \/ EventLoopNext \/ UserNext \/ DeskTick

\* Threads run; the clock and the user owe nothing.
DeskFairness == WF_deskVars(SchedulerNext) /\ WF_deskVars(WorkerNext) /\ WF_deskVars(EventLoopNext)
DeskSpec == DeskInit /\ [][DeskNext]_deskVars /\ DeskFairness

-----------------------------------------------------------------------------
DeskQuiet == Up /\ worker.at = "idle" /\ cmds = <<>> /\ uis = <<>>

(* Once every command and event is worked off, nothing looks as if it were *)
(* still going on: each way out of a command, the early ones included, has *)
(* reset the flag of the worker and the busy state of the window and of    *)
(* the restore window.                                                     *)
QuietHonest == DeskQuiet => ~worker.running /\ ~win.busy /\ ~win.rbusy

(* Without the scheduler lock (a daemon or another window holds it) no     *)
(* scheduled backup is ever started, after reloads of the configuration    *)
(* that enable the schedule too.                                           *)
OneScheduler ==
  ~dscene.lock => sch.at # "send" /\ \A i \in DOMAIN cmds : cmds[i].c = "all" => ~cmds[i].x

(* What is restored was checked in the tree of the snapshot it is restored *)
(* from, although contents arrive late and the window moves on.            *)
RestoreMatches ==
  \A i \in DOMAIN cmds : cmds[i].c = "restore" => cmds[i].paths = <<cmds[i].r, cmds[i].x>>

(* The editor never puts a configuration on disk that cannot be loaded,    *)
(* whatever is typed, fails or dies on the way.                            *)
SavedIsValid ==
  "outside" \notin dscene.user =>
    \A p \in DOMAIN conffile.text :
      conffile.text[p] # dscene.files[p] => ValidDeskConfig(conffile.text[p])

(* When all is worked off, the configuration in force, the file that a     *)
(* reload would read, the file that a save would replace and the text the  *)
(* editor compares with are one.                                           *)
ConfigAgrees ==
  DeskQuiet /\ "outside" \notin dscene.user =>
    worker.src = worker.shown /\ worker.conf = conffile.text[worker.src] /\ win.base = worker.conf

(* No passphrase outlives the configuration it was given for: a repository *)
(* of the same URL may have another one after a reload.                    *)
PassphrasesCurrent == \A r \in DOMAIN worker.pass : worker.pass[r].conf = worker.conf

(* A backup is stopped only by a cancellation requested since it began: a  *)
(* click that came too late for one operation does not hit the next one.   *)
CancelIsCurrent == worker.running /\ worker.cancel => worker.heard

(* The threads of the application agree with each other and with the files *)
(* although they only exchange messages: nobody works with a window, a     *)
(* configuration, a passphrase, a flag or a click of the past.             *)
DesktopConsistent ==
  /\ QuietHonest /\ OneScheduler /\ RestoreMatches /\ SavedIsValid
  /\ ConfigAgrees /\ PassphrasesCurrent /\ CancelIsCurrent

ScheduleDue == Up /\ sch.enabled /\ ~sch.paused /\ sch.wait = 0

(* Nothing waits for the application: a backup that was due has been       *)
(* started, although the scheduler waits for the end of a running backup,  *)
(* for a configuration or for the clock; quit has ended the application,   *)
(* after the commands already queued.                                      *)
DesktopServed == ~ScheduleDue /\ (win.quitting => ~win.up)
=============================================================================
