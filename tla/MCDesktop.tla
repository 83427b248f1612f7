------------------------------ MODULE MCDesktop ------------------------------
(* Sessions at the desktop for model checking: a start with a backup due, a  *)
(* schedule met by a click, a cron that never occurs, a second instance,     *)
(* cancelled backups, a restore, a passphrase, and edits of the              *)
(* configuration, valid and invalid.                                         *)
EXTENDS Desktop

NoDesktop == [phase |-> "idle", texts |-> <<>>, files |-> <<>>, lock |-> FALSE, ticks |-> 0, faults |-> 0,
              clicks |-> 0, user |-> {}, snaps |-> {}, inited |-> {}]

LOCAL Plain == [parses |-> TRUE, repos |-> 1, occurs |-> TRUE, enabled |-> FALSE, every |-> 1,
                startup |-> FALSE, crypt |-> "none", source |-> {}]
LOCAL Base == [NoDesktop EXCEPT !.phase = "settled", !.texts = <<Plain>>, !.files = <<1>>, !.lock = TRUE,
                                !.inited = {1, 2}]
LOCAL Timed == [Plain EXCEPT !.enabled = TRUE, !.source = {1}]

\* A backup at start and Quit; a backup from the tray when one is due.
LOCAL Started == [Base EXCEPT !.phase = "starts", !.texts = <<[Timed EXCEPT !.startup = TRUE]>>,
                              !.clicks = 1, !.user = {"quit"}]
LOCAL Scheduled == [Base EXCEPT !.texts = <<Timed>>, !.ticks = 1, !.clicks = 1, !.user = {"tray"}]
\* A schedule that never occurs again, replaced by one that does.
LOCAL Lapsed == [Base EXCEPT !.texts = <<[Timed EXCEPT !.occurs = FALSE], Timed>>, !.ticks = 1,
                             !.clicks = 2, !.user = {"outside", "reload"}]
\* No scheduler lock; the schedule is enabled by a reload.
LOCAL Unlocked == [Base EXCEPT !.phase = "starts", !.texts = <<Timed, [Timed EXCEPT !.startup = TRUE]>>, !.files = <<2>>, !.lock = FALSE,
                               !.ticks = 1, !.clicks = 1, !.user = {"reload", "find"}]
\* Cancelling one backup and starting the next.
LOCAL Cancelled == [Base EXCEPT !.texts = <<[Plain EXCEPT !.source = {1}]>>, !.clicks = 3,
                                !.user = {"source", "cancel"}]
LOCAL CancelledByTray == [Base EXCEPT !.texts = <<[Plain EXCEPT !.repos = 2]>>, !.clicks = 2,
                                      !.user = {"repo", "all", "traycancel"}]
\* Restoring from two snapshots.
LOCAL Restored == [Base EXCEPT !.clicks = 3, !.user = {"open", "restore", "close"}, !.snaps = {1, 2}, !.faults = 1]
LOCAL Listed == [Base EXCEPT !.texts = <<[Plain EXCEPT !.crypt = "ask", !.repos = 2]>>, !.inited = {1}, !.clicks = 1,
                             !.user = {"delete", "refresh", "combo", "all"}, !.faults = 1]
\* The editor, a second file, and a process that may die.
LOCAL Edited == [Base EXCEPT !.texts = <<Plain, [Plain EXCEPT !.parses = FALSE], [Plain EXCEPT !.crypt = "conf"]>>,
                             !.files = <<3, 1>>, !.clicks = 3, !.user = {"type", "save", "discard", "kill"}, !.faults = 1]
LOCAL Switched == [Edited EXCEPT !.user = {"switch", "reload"}, !.clicks = 2, !.faults = 0]

DesktopScenes == {Started, Scheduled, Lapsed, Unlocked, Cancelled, CancelledByTray, Restored, Listed, Edited, Switched}
=============================================================================
