-------------------------------- MODULE Cycle --------------------------------
(***************************************************************************)
(* One vykar process seen from above: the daemon loop with its signals and *)
(* its schedule, or a command of the command line; the cycle of a          *)
(* repository (backup, prune, compact, check); and the hooks around steps  *)
(* and sources.                                                            *)
(*                                                                         *)
(* What the process has left to do is a list of operations, the next one   *)
(* first.  An error drops the operations up to the next "close", which is  *)
(* where the hooks of a scope are wound up.  A list of hooks is named by   *)
(* level ("global", "repo", "source"), phase and key ("any" or a command). *)
(***************************************************************************)
EXTENDS Integers, Sequences, FiniteSets, SequencesExt, TLC

CONSTANTS CycleScenes   \* the configurations and what may go wrong: records

VARIABLES
  cyscene,  \* the member of CycleScenes played; never changes
  sig,      \* the flags SHUTDOWN, RELOAD and TRIGGER
  cfile,    \* version of the configuration file
  cy,       \* the process: configuration, schedule, results
  todo,     \* its operations
  hook,     \* the process of a hook
  trail     \* what happened in the present repository, in order

cycleVars == <<cyscene, sig, cfile, cy, todo, hook, trail>>

CycleSteps == <<"backup", "prune", "compact", "check">>
Done(result) == result \in {"ok", "partial"}
NoHook == [st |-> "none"]

Alive == cy.end = "no"
Turn(op) == Alive /\ hook = NoHook /\ todo # <<>> /\ Head(todo).op = op
Op(name) == [op |-> name]
Conf == cyscene.configs[cy.conf]
TheRepo == Conf.repos[cy.repo]
Happens(e) == trail' = Append(trail, e)

-----------------------------------------------------------------------------
(* Hooks                                                                   *)

ListOf(level, phase, key) ==
  LET k == <<level, phase, key>>
  IN  IF k \in DOMAIN TheRepo.hooks THEN TheRepo.hooks[k] ELSE 0

HookOp(level, phase, key, step, error) ==
  [op |-> "hook", level |-> level, phase |-> phase, key |-> key, step |-> step,
   error |-> error, left |-> ListOf(level, phase, key)]

NonEmpty(lists) == SelectSeq(lists, LAMBDA o : o.left > 0)

\* run_before: global before repository, bare before specific.
BeforeOps(step) == NonEmpty(
  <<HookOp("global", "before", "any", step, FALSE), HookOp("repo", "before", "any", step, FALSE),
    HookOp("global", "before", step, step, FALSE), HookOp("repo", "before", step, step, FALSE)>>)

Outward(phase, step, error) == NonEmpty(
  <<HookOp("repo", phase, step, step, error), HookOp("global", phase, step, step, error),
    HookOp("repo", phase, "any", step, error), HookOp("global", phase, "any", step, error)>>)

AfterOrFailedAlways(step, error) == Outward("after", step, error)

\* run_after_or_failed
AfterOrFailed(step, error) == Outward(IF error THEN "failed" ELSE "after", step, error)

\* run_finally
FinallyOps(step, error) == Outward("finally", step, error)

\* An error: on to the next scope that is closed.
Raise(rest) ==
  LET at == CHOOSE k \in DOMAIN rest :
              rest[k].op = "close" /\ \A j \in 1..(k - 1) : rest[j].op # "close"
  IN  <<[rest[at] EXCEPT !.error = TRUE]>> \o SubSeq(rest, at + 1, Len(rest))

\* run_hook_list: the next command of the list is started.  It may hang.
StartHook ==
  /\ Turn("hook")
  /\ IF Head(todo).left = 0 THEN todo' = Tail(todo) /\ UNCHANGED <<cy, hook>>
     ELSE /\ \/ hook' = [st |-> "running"] /\ UNCHANGED cy
             \/ /\ cyscene.hang /\ cy.mishaps < cyscene.mishaps
                /\ hook' = [st |-> "hanging"] /\ cy' = [cy EXCEPT !.mishaps = @ + 1]
          /\ UNCHANGED todo
  /\ UNCHANGED <<cyscene, sig, cfile, trail>>

\* The command ends by itself.
HookExits ==
  /\ Alive /\ hook.st = "running"
  /\ hook' \in {[st |-> "good"]} \cup
       (IF ~cyscene.hang /\ cy.mishaps < cyscene.mishaps THEN {[st |-> "bad"]} ELSE {})
  /\ cy' = [cy EXCEPT !.mishaps = @ + (IF hook'.st = "bad" THEN 1 ELSE 0)]
  /\ UNCHANGED <<cyscene, sig, cfile, todo, trail>>

\* run_command_status_with_timeout: the deadline finds the command running.
HookDeadline ==
  /\ Alive /\ hook.st = "hanging"
  /\ hook' = [st |-> "killed"]
  /\ UNCHANGED <<cyscene, sig, cfile, cy, todo, trail>>

\* execute_hook_command returns.  A failing "before" is fatal, any other is a
\* warning and ends its list.
EndHook ==
  LET h  == Head(todo)
      ok == hook.st = "good"
  IN  /\ Alive /\ hook.st \in {"good", "bad", "killed"}
      /\ hook' = NoHook
      /\ Happens([e |-> "hook", level |-> h.level, phase |-> h.phase, key |-> h.key,
                  step |-> h.step, error |-> h.error, ok |-> ok])
      /\ cy' = IF ok \/ h.phase = "before" THEN cy
               ELSE [cy EXCEPT !.warnings[IF h.level = "source" THEN 1 ELSE 2] = @ + 1]
      /\ todo' = IF ok THEN <<[h EXCEPT !.left = @ - 1]>> \o Tail(todo)
                 ELSE IF h.phase = "before" THEN Raise(Tail(todo))
                 ELSE Tail(todo)
      /\ UNCHANGED <<cyscene, sig, cfile>>

-----------------------------------------------------------------------------
(* Actions, steps and cycles                                               *)

CloseOp(scope, step) ==
  [op |-> "close", scope |-> scope, step |-> step, error |-> FALSE, result |-> "ok"]
ActOp(step, source) == [op |-> "act", step |-> step, source |-> source]

\* run_source_hooks around the backup of a source.
SourceOps(i) ==
  IF TheRepo.sources[i]
  THEN <<HookOp("source", "before", "any", "backup", FALSE), ActOp("backup", i), CloseOp("source", "backup")>>
  ELSE <<ActOp("backup", i)>>

\* run_backup_sources
ActionOps(step) ==
  IF step # "backup" THEN <<ActOp(step, 0)>>
  ELSE FlattenSeq([i \in DOMAIN TheRepo.sources |-> SourceOps(i)])

\* run_hooked_step, run_backup_selection and run_with_hooks.
HookedOps(step) == BeforeOps(step) \o ActionOps(step) \o <<CloseOp("step", step)>>

\* What the action of a step does: a shutdown is noticed by backup, prune
\* and compact, not by check.
StartAct ==
  LET a == Head(todo)
  IN  /\ Turn("act")
      /\ todo' = <<[op |-> "acting", step |-> a.step, source |-> a.source, stopped |-> sig.stop]>>
                   \o Tail(todo)
      /\ cy' = [cy EXCEPT !.late = @ + (IF sig.stop THEN 1 ELSE 0)]
      /\ UNCHANGED <<cyscene, sig, cfile, hook, trail>>

Results(step) ==
  CASE step = "backup" -> {"ok", "partial", "error"}
    [] step = "check" -> {"ok", "skipped", "found", "error"}
    [] OTHER -> {"ok", "error"}

EndAct ==
  LET a == Head(todo)
  IN  /\ Turn("acting")
      /\ \E r \in Results(a.step) :
           /\ a.stopped /\ a.step = "backup" => r = "error"
           /\ r = "ok" \/ cy.mishaps < cyscene.mishaps \/ (sig.stop /\ r = "error" /\ a.step # "check")
           /\ Happens([e |-> "act", step |-> a.step, source |-> a.source, result |-> r])
           /\ todo' = IF r \in {"error", "found"} THEN Raise(Tail(todo)) ELSE Tail(todo)
           /\ cy' = [cy EXCEPT !.mishaps = @ + (IF r # "ok" /\ ~(sig.stop /\ r = "error") THEN 1 ELSE 0),
                               !.soft = @ \/ r = "partial",
                               !.notdue = r = "skipped"]
      /\ UNCHANGED <<cyscene, sig, cfile, hook>>

\* After or failed, then finally; after them the warnings are reported and
\* an error goes on.
CloseScope ==
  LET c == Head(todo)
  IN  /\ Turn("close")
      /\ todo' = (IF c.scope = "source"
                  THEN <<HookOp("source", IF c.error THEN "failed" ELSE "after", "any", "backup", c.error),
                         HookOp("source", "finally", "any", "backup", c.error)>>
                  ELSE AfterOrFailed(c.step, c.error) \o FinallyOps(c.step, c.error))
                 \o <<[c EXCEPT !.op = "closed"]>> \o Tail(todo)
      /\ UNCHANGED <<cyscene, sig, cfile, cy, hook, trail>>

StepResult(c) ==
  IF c.error THEN "failed"
  ELSE IF c.step = "backup" /\ cy.soft THEN "partial"
  ELSE IF c.step = "check" /\ cy.notdue THEN "skipped" ELSE "ok"

EndScope ==
  LET c == Head(todo)
      w == IF c.scope = "source" THEN 1 ELSE 2
  IN  /\ Turn("closed")
      /\ trail' = trail \o [k \in 1..cy.warnings[w] |-> [e |-> "warned"]]
                        \o (IF c.scope = "step"
                            THEN <<[e |-> "finish", step |-> c.step, result |-> StepResult(c)]>>
                            ELSE <<>>)
      /\ cy' = [cy EXCEPT !.warnings[w] = 0,
                          !.steps = IF c.scope = "step"
                                    THEN Append(@, <<c.step, StepResult(c)>>) ELSE @]
      /\ todo' = IF c.scope = "source" /\ c.error THEN Raise(Tail(todo)) ELSE Tail(todo)
      /\ UNCHANGED <<cyscene, sig, cfile, hook>>

BackupOk == \E k \in DOMAIN cy.steps : cy.steps[k][1] = "backup" /\ Done(cy.steps[k][2])

\* emit_skipped
Skips(step) ==
  /\ cyscene.command = "cycle"
  /\ \/ step = "prune" /\ ~TheRepo.retention
     \/ step \in {"prune", "compact"} /\ ~BackupOk

\* The steps of run_full_cycle_for_repo, each behind a look at the flag.
RunStep ==
  LET s == Head(todo).step
  IN  /\ Turn("step")
      /\ IF sig.stop /\ cyscene.command = "cycle"
         THEN todo' = Tail(todo) /\ UNCHANGED <<cy, trail>>
         ELSE IF Skips(s)
         THEN /\ todo' = Tail(todo)
              /\ cy' = [cy EXCEPT !.steps = Append(@, <<s, "skipped">>)]
              /\ UNCHANGED trail
         ELSE /\ todo' = HookedOps(s) \o Tail(todo)
              /\ Happens([e |-> "start", step |-> s])
              /\ UNCHANGED cy
      /\ UNCHANGED <<cyscene, sig, cfile, hook>>

\* The next repository: run_backup_cycle, or the loop of main.  Without a
\* passphrase nothing is done.
NextRepo ==
  LET r == Head(todo).repo
      fresh == [cy EXCEPT !.repo = r, !.steps = <<>>, !.soft = FALSE, !.notdue = FALSE]
      ops == IF cyscene.command = "cycle"
             THEN [k \in 1..4 |-> [op |-> "step", step |-> CycleSteps[k]]]
             ELSE <<[op |-> "step", step |-> cyscene.command]>>
  IN  /\ Turn("repo")
      /\ trail' = <<>>
      /\ IF sig.stop
         THEN todo' = SelectSeq(Tail(todo), LAMBDA o : o.op # "repo") /\ UNCHANGED cy
         ELSE IF ~Conf.repos[r].pass
         THEN todo' = Tail(todo) /\ cy' = [fresh EXCEPT !.failed = TRUE, !.ran = (r :> <<>>) @@ @]
         ELSE todo' = ops \o <<Op("summary")>> \o Tail(todo) /\ cy' = fresh
      /\ UNCHANGED <<cyscene, sig, cfile, hook>>

SummaryLastStep ==
  LET last == IF cy.steps = <<>> THEN "ok" ELSE cy.steps[Len(cy.steps)][2]
  IN  /\ Turn("summary")
      /\ cy' = [cy EXCEPT !.failed = @ \/ last = "failed",
                          !.partial = @ \/ cy.soft, !.ran = (cy.repo :> cy.steps) @@ @]
      /\ todo' = Tail(todo)
      /\ UNCHANGED <<cyscene, sig, cfile, hook, trail>>

\* The end of run_default_actions: has_failures and had_partial.
Summary ==
  LET results == {cy.steps[k] : k \in DOMAIN cy.steps}
  IN  /\ Turn("summary")
      /\ cy' = [cy EXCEPT !.failed = @ \/ \E x \in results : x[2] = "failed",
                          !.partial = @ \/ (<<"backup", "partial">> \in results
                                            /\ \A x \in results : x[2] # "failed"),
                          !.ran = (cy.repo :> cy.steps) @@ @]
      /\ todo' = Tail(todo)
      /\ UNCHANGED <<cyscene, sig, cfile, hook, trail>>

-----------------------------------------------------------------------------
(* The command line and the daemon                                         *)

RepoOps == [r \in DOMAIN Conf.repos |-> [op |-> "repo", repo |-> r]]

\* Exit codes: interrupted before error before partial.
Exit ==
  /\ Turn("exit")
  /\ cy' = [cy EXCEPT !.end = IF sig.stop THEN "interrupted"
                              ELSE IF cy.failed THEN "error"
                              ELSE IF cy.partial THEN "partial" ELSE "ok"]
  /\ todo' = <<>>
  /\ UNCHANGED <<cyscene, sig, cfile, hook, trail>>

\* The loop of run_daemon looks at its flags one by one.
LoopTop ==
  /\ Turn("top")
  /\ IF sig.stop THEN cy' = [cy EXCEPT !.end = "stopped"] /\ todo' = <<>>
     ELSE todo' = <<Op("reload?"), Op("trigger?"), Op("due?"), Op("top")>> /\ UNCHANGED cy
  /\ trail' = <<>>
  /\ UNCHANGED <<cyscene, sig, cfile, hook>>

Reload ==
  /\ Turn("reload?")
  /\ todo' = (IF sig.reload THEN <<Op("unreload"), Op("load")>> ELSE <<>>) \o Tail(todo)
  /\ UNCHANGED <<cyscene, sig, cfile, cy, hook, trail>>

ClearReload ==
  /\ Turn("unreload")
  /\ sig' = [sig EXCEPT !.reload = FALSE] /\ todo' = Tail(todo)
  /\ UNCHANGED <<cyscene, cfile, cy, hook, trail>>

\* load_daemon_config: it parses, names repositories, is enabled, and every
\* encrypted repository has a passphrase.  That the schedule has a next time
\* (occurs) is not looked at.
ValidConfig(c) == c.parses /\ c.repos # <<>> /\ c.enabled /\ \A r \in DOMAIN c.repos : c.repos[r].pass

LoadConfig ==
  /\ Turn("load")
  /\ LET c == cyscene.configs[cfile]
     IN  cy' = IF ValidConfig(c)
               THEN [cy EXCEPT !.conf = cfile, !.read = cfile, !.wait = IF c.occurs THEN c.every ELSE @]
               ELSE [cy EXCEPT !.read = cfile]
  /\ todo' = Tail(todo)
  /\ UNCHANGED <<cyscene, sig, cfile, hook, trail>>

Trigger ==
  /\ Turn("trigger?")
  /\ todo' = (IF sig.trigger THEN <<Op("untrigger"), Op("begin")>> \o RepoOps \o <<Op("adhoc")>> ELSE <<>>)
               \o Tail(todo)
  /\ UNCHANGED <<cyscene, sig, cfile, cy, hook, trail>>

ClearTrigger ==
  /\ Turn("untrigger")
  /\ sig' = [sig EXCEPT !.trigger = FALSE] /\ todo' = Tail(todo)
  /\ UNCHANGED <<cyscene, cfile, cy, hook, trail>>

BeginCycle ==
  /\ Turn("begin")
  /\ cy' = [cy EXCEPT !.asked = FALSE, !.failed = FALSE, !.partial = FALSE, !.ran = <<>>]
  /\ todo' = Tail(todo)
  /\ UNCHANGED <<cyscene, sig, cfile, hook, trail>>

Due ==
  /\ Turn("due?")
  /\ todo' = (IF cy.wait = 0 THEN <<Op("begin")>> \o RepoOps \o <<Op("scheduled")>> ELSE <<>>)
               \o Tail(todo)
  /\ UNCHANGED <<cyscene, sig, cfile, cy, hook, trail>>

\* After a cycle: stop, leave the schedule alone, or compute the next run; a
\* schedule without a next time ends the daemon with an error.
AfterCycle(compute, next) ==
  /\ cy' = IF sig.stop THEN [cy EXCEPT !.end = "stopped"]
           ELSE IF compute /\ ~Conf.occurs THEN [cy EXCEPT !.end = "error"]
           ELSE [cy EXCEPT !.wait = IF compute THEN next ELSE @]
  /\ todo' = IF cy'.end # "no" THEN <<>> ELSE Tail(todo)
  /\ UNCHANGED <<cyscene, sig, cfile, hook, trail>>

\* A scheduled slot that was missed is not made up for; else it stays.
AfterAdhoc == Turn("adhoc") /\ AfterCycle(cy.wait = 0, Conf.every)

AfterScheduled == Turn("scheduled") /\ AfterCycle(TRUE, Conf.every)

\* Time passes, up to the next run.
Tick ==
  /\ Alive /\ cyscene.daemon /\ cy.wait > 0 /\ cyscene.ticks
  /\ cy' = [cy EXCEPT !.wait = @ - 1]
  /\ UNCHANGED <<cyscene, sig, cfile, todo, hook, trail>>

-----------------------------------------------------------------------------
(* Signals and the user                                                    *)

SendStop ==
  /\ Alive /\ "stop" \in cyscene.signals /\ ~sig.stop
  /\ sig' = [sig EXCEPT !.stop = TRUE]
  /\ UNCHANGED <<cyscene, cfile, cy, todo, hook, trail>>

\* The handler of the first signal restores the default: the second kills.
SendKill ==
  /\ Alive /\ "kill" \in cyscene.signals /\ sig.stop
  /\ cy' = [cy EXCEPT !.end = "killed"]
  /\ UNCHANGED <<cyscene, sig, cfile, todo, hook, trail>>

\* The file is edited and SIGHUP sent.
SendReload ==
  /\ Alive /\ cyscene.daemon /\ cfile < Len(cyscene.configs)
  /\ cfile' = cfile + 1
  /\ sig' = [sig EXCEPT !.reload = TRUE]
  /\ UNCHANGED <<cyscene, cy, todo, hook, trail>>

SendTrigger ==
  /\ Alive /\ "trigger" \in cyscene.signals /\ cy.asks < cyscene.asks
  /\ sig' = [sig EXCEPT !.trigger = TRUE]
  /\ cy' = [cy EXCEPT !.asked = TRUE, !.asks = @ + 1]
  /\ UNCHANGED <<cyscene, cfile, todo, hook, trail>>

-----------------------------------------------------------------------------
CycleInit ==
  /\ cyscene \in CycleScenes
  /\ sig = [stop |-> FALSE, reload |-> FALSE, trigger |-> FALSE]
  /\ cfile = 1
  /\ hook = NoHook
  /\ trail = <<>>
  /\ cy = [conf |-> 1, read |-> 1, repo |-> 1, steps |-> <<>>, soft |-> FALSE, notdue |-> FALSE,
           warnings |-> <<0, 0>>, failed |-> FALSE, partial |-> FALSE, mishaps |-> 0, late |-> 0,
           asked |-> FALSE, asks |-> 0,
           wait |-> IF cyscene.configs[1].startup THEN 0 ELSE cyscene.configs[1].every,
           ran |-> <<>>,
           end |-> IF cyscene.idle THEN "ok" ELSE "no"]
  /\ todo = IF cyscene.daemon THEN <<Op("top")>>
            ELSE [r \in DOMAIN cyscene.configs[1].repos |-> [op |-> "repo", repo |-> r]] \o <<Op("exit")>>

CycleProcess ==
  \/ StartHook \/ EndHook \/ StartAct \/ EndAct \/ CloseScope \/ EndScope
  \/ RunStep \/ NextRepo \/ Summary \/ Exit \/ LoopTop \/ Reload \/ ClearReload \/ LoadConfig
  \/ Trigger \/ ClearTrigger \/ BeginCycle \/ Due \/ AfterAdhoc \/ AfterScheduled

CycleNext ==
  \/ CycleProcess \/ HookExits \/ HookDeadline \/ Tick
  \/ SendStop \/ SendKill \/ SendReload \/ SendTrigger

\* Operations end, a hook that does not hang ends, deadlines are met and time
\* passes.
CycleProgress ==
  WF_cycleVars(CycleProcess) /\ WF_cycleVars(HookExits) /\ WF_cycleVars(HookDeadline) /\ WF_cycleVars(Tick)

CycleSpec == CycleInit /\ [][CycleNext]_cycleVars /\ CycleProgress

-----------------------------------------------------------------------------
(* Properties                                                              *)

Events(kind) == {k \in DOMAIN trail : trail[k].e = kind}
Just(kind) == trail # <<>> /\ Last(trail).e = kind
StepHooks(s) == {k \in Events("hook") : trail[k].step = s /\ trail[k].level # "source"}

\* Whatever fails in a step, its failed or after hooks ran as its result
\* says, and its finally hooks ran, all before the step is reported.
LifecycleComplete ==
  Just("finish") =>
    LET s == Last(trail).step
        phase == IF Last(trail).result = "failed" THEN "failed" ELSE "after"
    IN  /\ \A ph \in {phase, "finally"}, level \in {"global", "repo"}, key \in {"any", s} :
             ListOf(level, ph, key) > 0 =>
               \E k \in StepHooks(s) : trail[k].phase = ph /\ trail[k].level = level /\ trail[k].key = key
        /\ \A k \in StepHooks(s) : trail[k].phase \in {"before", phase, "finally"}

\* Hooks nest: the lists that run after a step run in the reverse order of
\* those that ran before it.
HooksNest ==
  Just("finish") =>
    LET hooks == StepHooks(Last(trail).step)
        at(k) == <<trail[k].level, trail[k].key>>
    IN  \A i, j \in {k \in hooks : trail[k].phase = "before"} :
          i < j /\ at(i) # at(j) =>
            \A k, l \in {m \in hooks : trail[m].phase # "before" /\ at(m) \in {at(i), at(j)}} :
              trail[k].phase = trail[l].phase /\ at(k) = at(i) /\ at(l) = at(j) => l < k

\* After a before hook has failed, of the step or of one of its sources, the
\* step does nothing more.
BeforeHookGuards ==
  Just("act") =>
    \A j \in Events("hook") :
      trail[j].phase = "before" /\ ~trail[j].ok => trail[j].step # Last(trail).step

\* In a cycle nothing is pruned or compacted unless every source has been
\* backed up before, in this very cycle.
MaintenanceAfterBackup ==
  cyscene.command = "cycle" /\ Just("act") /\ Last(trail).step \in {"prune", "compact"} =>
    \A i \in DOMAIN TheRepo.sources :
      \E j \in Events("act") : trail[j].step = "backup" /\ trail[j].source = i /\ Done(trail[j].result)

\* Every hook that failed without stopping anything is reported before its
\* step is.
WarningsTold ==
  Just("finish") =>
    Cardinality(Events("warned")) =
      Cardinality({k \in Events("hook") : trail[k].phase # "before" /\ ~trail[k].ok})

\* The exit code tells the truth about all repositories.
ExitHonest ==
  ~cyscene.daemon /\ ~cyscene.idle =>
    LET all == DOMAIN Conf.repos
        of(r) == IF r \in DOMAIN cy.ran THEN {cy.ran[r][k] : k \in DOMAIN cy.ran[r]} ELSE {}
        failed(r) == \E x \in of(r) : x[2] = "failed"
    IN  /\ cy.end = "ok" => \A r \in all : of(r) # {} /\ \A x \in of(r) : x[2] \in {"ok", "skipped"}
        /\ cy.end = "partial" => /\ \A r \in all : of(r) # {} /\ ~failed(r)
                                 /\ \E r \in all : <<"backup", "partial">> \in of(r)
        /\ cy.end = "error" => \E r \in all : failed(r) \/ of(r) = {}
        /\ cy.end = "interrupted" => sig.stop

\* What the user is told, in warnings and by the exit code, is what happened.
ReportsHonest == WarningsTold /\ ExitHonest

\* Once the shutdown flag is set, at most one more action begins.
AtMostOneLate == cy.late <= 1

\* Steps and hooks come in the order that run_full_cycle_for_repo and
\* run_with_hooks promise, whatever fails and whenever a signal arrives.
CycleOrderly ==
  /\ LifecycleComplete /\ HooksNest /\ BeforeHookGuards
  /\ MaintenanceAfterBackup /\ AtMostOneLate

\* Nothing waits for the process: a shutdown has ended it, also in the middle
\* of a hook that hangs; otherwise every trigger has got a cycle that began
\* after it, the file was read after the last signal, and the run that was
\* due has been made and the next one scheduled.
CycleServed ==
  /\ sig.stop => ~Alive
  /\ Alive => ~cy.asked /\ cfile = cy.read
  /\ Alive /\ cyscene.daemon => cy.wait > 0
=============================================================================
