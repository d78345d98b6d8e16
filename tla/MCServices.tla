------------------------------ MODULE MCServices ------------------------------
(* Small instances of the services, each with the processes p1 and p2. *)
EXTENDS SharedServices, TLC

CONSTANTS p1, p2, clerk, tick

Procs == {p1, p2}
Symmetric == Permutations(Procs)

Risk ==
  [action |-> "strategy_switch", magnitude |-> 900, blast |-> None, reversibility |-> 200,
   confidence |-> 500, compliant |-> FALSE]
SmallRows ==
  [e1 |-> [line |-> "demo", after |-> [engagement |-> 1000, cost |-> 10], risk |-> Risk],
   e2 |-> [line |-> "demo", after |-> [engagement |-> 1250],
           risk |-> [Risk EXCEPT !.action = "parameter_tune", !.magnitude = 100, !.blast = 100]]]
Item(signal, kind, value) ==
  [experiment |-> "e1", signal |-> signal, kind |-> kind, value |-> value]
SmallItems ==
  <<Item("engagement", "number", 1100), Item("engagement", "number", 900),
    Item("success_rate", "nan", 0), Item("", "number", 5)>>
SmallGiven == [engagement |-> 1000]

Outcome(kind, samples, baseline, metrics) ==
  [kind |-> kind, samples |-> samples, baseline |-> baseline, metrics |-> metrics]
SmallOutcomes ==
  {None,
   Outcome("historical", 60, [sharpe |-> 50, total_return |-> 10, win_rate |-> 40],
                             [sharpe |-> 70, total_return |-> 30, win_rate |-> 60]),
   Outcome("historical", 60, None, <<>>),
   Outcome("paper", 40, None, [sharpe |-> 90, total_return |-> 20, max_drawdown |-> 30]),
   Outcome("synthetic", 0, None, [sharpe |-> 90])}
SmallEdits ==
  {[name |-> "sharpe", schema |-> [direction |-> "higher", category |-> "guardrail", weight |-> 100,
                                   threshold |-> 80, guardrail |-> TRUE]]}
SmallBounds == [minimum |-> 0, maximum |-> 25, step |-> 20]
SmallHistories == {<<0, 20>>, <<24, 0>>, <<24, 30>>}

SmallScopes == {{"k"}, {"k", "l"}}

Metrics(sharpe, winRate) == [sharpe |-> sharpe, win_rate |-> winRate, calmar |-> None]
SmallResults ==
  {[status |-> "success", error |-> None, metrics |-> Metrics(40, 40)],
   [status |-> "failed", error |-> "adapter_error", metrics |-> Metrics(0, 60)],
   [status |-> "raises", error |-> "adapter_error"]}
SmallThresholds == <<[metric |-> "sharpe", at |-> 50], [metric |-> "win_rate", at |-> 50]>>

SmallUrlLists == {<<"u">>, <<"u", "v">>}
=============================================================================
