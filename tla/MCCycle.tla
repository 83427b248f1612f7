------------------------------ MODULE MCCycle ------------------------------
(* Small instances of Cycle.                                               *)
EXTENDS Cycle

LOCAL AllHooks ==
  [k \in {<<"global", "before", "any">>, <<"repo", "before", "any">>, <<"repo", "before", "backup">>,
          <<"global", "before", "prune">>, <<"repo", "after", "backup">>, <<"global", "after", "any">>,
          <<"repo", "after", "any">>, <<"global", "failed", "any">>, <<"repo", "failed", "backup">>,
          <<"repo", "finally", "any">>, <<"global", "finally", "any">>, <<"global", "finally", "backup">>}
     |-> 1]
LOCAL FewHooks ==
  [k \in {<<"repo", "before", "any">>, <<"repo", "failed", "any">>, <<"repo", "finally", "any">>,
          <<"source", "before", "any">>, <<"source", "failed", "any">>, <<"source", "after", "any">>,
          <<"source", "finally", "any">>} |->
     IF k = <<"source", "after", "any">> THEN 2 ELSE 1]
LOCAL OneHook == [k \in {<<"repo", "finally", "backup">>} |-> 1]

LOCAL Repo(hooks, sources) ==
  [hooks |-> hooks, sources |-> sources, retention |-> TRUE, pass |-> TRUE]
LOCAL Plain == Repo(<<>>, <<FALSE>>)
LOCAL Config(repos) ==
  [repos |-> repos, parses |-> TRUE, enabled |-> TRUE, startup |-> FALSE, every |-> 2, occurs |-> TRUE]

LOCAL S(command, configs) ==
  [command |-> command, configs |-> configs, daemon |-> FALSE, signals |-> {}, asks |-> 0,
   ticks |-> FALSE, mishaps |-> 0, hang |-> FALSE, idle |-> FALSE]

NoCycles == [S("cycle", <<Config(<<Plain>>)>>) EXCEPT !.idle = TRUE]

MCCycles ==
  {[S("cycle", <<Config(<<Repo(AllHooks, <<FALSE>>)>>)>>) EXCEPT !.mishaps = 2],
   [S("cycle", <<Config(<<Repo(FewHooks, <<TRUE, TRUE>>)>>)>>)
      EXCEPT !.mishaps = 1, !.signals = {"stop"}, !.hang = TRUE],
   [S("backup", <<Config(<<Repo(FewHooks, <<TRUE, FALSE>>), Plain>>)>>)
      EXCEPT !.mishaps = 2, !.signals = {"stop"}],
   [S("check", <<Config(<<[Plain EXCEPT !.pass = FALSE], Repo(AllHooks, <<FALSE>>)>>)>>)
      EXCEPT !.mishaps = 2],
   [S("cycle", <<Config(<<[Plain EXCEPT !.retention = FALSE], Plain>>)>>)
      EXCEPT !.mishaps = 1, !.signals = {"stop", "kill"}],
   [S("cycle", <<[Config(<<Plain>>) EXCEPT !.startup = TRUE],
             [Config(<<Plain, Plain>>) EXCEPT !.occurs = FALSE]>>)
      EXCEPT !.daemon = TRUE, !.ticks = TRUE, !.signals = {"stop"}],
   [S("backup", <<Config(<<Plain>>), [Config(<<Plain>>) EXCEPT !.enabled = FALSE], Config(<<Plain>>)>>)
      EXCEPT !.daemon = TRUE, !.signals = {"trigger", "stop"}, !.asks = 2],
   [S("cycle", <<Config(<<Repo(OneHook, <<FALSE>>)>>)>>)
      EXCEPT !.daemon = TRUE, !.ticks = TRUE, !.signals = {"trigger"}, !.asks = 1, !.hang = TRUE, !.mishaps = 1]}
=============================================================================
