------------------------------ MODULE CostTracker ------------------------------
(***************************************************************************)
(* Token costs by business line and provider, over all time and by day,    *)
(* with daily budgets.  Threads track their calls while an operator sets   *)
(* budgets and resets counters; nothing is locked.  A call that takes the  *)
(* cost of its day over the budget asks a human.                           *)
(*                                                                         *)
(* Costs are in thousands of tokens of input and output together.  Threads *)
(* change at calls, so that an addition to a counter is not interrupted,   *)
(* but taking a counter and adding to it are two steps: a counter may have *)
(* been dropped in between, and what is added to it is lost.               *)
(***************************************************************************)
EXTENDS Integers, FiniteSets, Functions, FiniteSetsExt

CONSTANTS
  Threads,
  Keys,       \* of counters: business line and provider
  Scopes,     \* what a reset names: sets of keys
  Amounts,    \* cost of a call
  Budgets,    \* what a daily budget may be set to
  MaxDay,     \* bound: days
  MaxCalls,   \* bound: calls tracked
  MaxOrders,  \* bound: resets and budgets set
  None

Days == 1 .. MaxDay

VARIABLES
  stage,     \* how far each thread has come with the call it tracks
  held,      \* that call, and whether the counters it took are still in use
  total,     \* _counters, of the keys that have one
  daily,     \* _daily_counters, by day and key
  budget,    \* _budgets
  warned,    \* _warning_days
  asked,     \* requests of the human gate, by day and key
  today,
  reset,     \* how far a reset has come, of which keys, and if it was disturbed
  calls, orders,
  spent,     \* history: what was tracked of each key since it was reset
  unsettled, \* history: keys reset while they were tracked, or by the day only
  changed    \* history: days and keys whose budget changed after their last estimate

vars == <<stage, held, total, daily, budget, warned, asked, today, reset, calls, orders,
          spent, unsettled, changed>>
books == <<total, daily>>
history == <<spent, unsettled, changed>>

Idle == [stage |-> "idle", keys |-> {}, days |-> {}, all |-> FALSE, disturbed |-> FALSE]
Cost(table, c) == IF c \in DOMAIN table THEN table[c] ELSE 0
\* report_period over all days, for one key.
ReportPeriod(k) == MapThenSumSet(LAMBDA d : Cost(daily, <<d, k>>), Days)
With(table, c, n) == [x \in DOMAIN table \cup {c} |-> IF x = c THEN Cost(table, c) + n ELSE table[x]]
Tracking(k) == \E t \in Threads : stage[t] # "idle" /\ held[t].key = k

TypeOK ==
  /\ stage \in [Threads -> {"idle", "total", "take", "daily", "estimate", "warn", "exceed"}]
  /\ \A t \in Threads : stage[t] # "idle" =>
       held[t].key \in Keys /\ held[t].day \in Days /\ held[t].cost \in Amounts
  /\ DOMAIN total \subseteq Keys /\ DOMAIN daily \subseteq Days \X Keys
  /\ \A k \in DOMAIN total : total[k] >= 0
  /\ budget \in [Keys -> Budgets \cup {None}]
  /\ warned \subseteq Days \X Keys /\ asked \subseteq Days \X Keys /\ today \in Days
  /\ reset.stage \in {"idle", "total", "daily", "warned"} /\ reset.keys \subseteq Keys

Init ==
  /\ stage = [t \in Threads |-> "idle"] /\ held = [t \in Threads |-> None]
  /\ total = <<>> /\ daily = <<>> /\ budget = [k \in Keys |-> None]
  /\ warned = {} /\ asked = {} /\ today = 1 /\ reset = Idle
  /\ calls = 0 /\ orders = 0
  /\ spent = [k \in Keys |-> 0] /\ unsettled = {} /\ changed = {}

Goes(t, from, to) == stage[t] = from /\ stage' = [stage EXCEPT ![t] = to]

\* A new key of the dictionary that a reset runs over makes it raise.
Disturbs(from, isNew) ==
  reset' = IF reset.stage = from /\ isNew THEN [reset EXCEPT !.disturbed = TRUE] ELSE reset

-----------------------------------------------------------------------------
(* track *)

Track(t, k, n) ==
  /\ calls < MaxCalls /\ calls' = calls + 1
  /\ Goes(t, "idle", "total")
  /\ held' = [held EXCEPT ![t] = [key |-> k, day |-> today, cost |-> n, total |-> TRUE,
                                  daily |-> TRUE, current |-> 0, budget |-> None]]
  /\ total' = With(total, k, 0)
  /\ Disturbs("total", k \notin DOMAIN total)
  /\ spent' = [spent EXCEPT ![k] = @ + n]
  /\ unsettled' = IF k \in reset.keys THEN unsettled \cup {k} ELSE unsettled
  /\ UNCHANGED <<daily, budget, warned, asked, today, orders, changed>>

\* The counter that was taken, which a reset may have dropped.
AddTotal(t) ==
  /\ Goes(t, "total", "take")
  /\ total' = IF held[t].total THEN With(total, held[t].key, held[t].cost) ELSE total
  /\ UNCHANGED <<held, daily, budget, warned, asked, today, reset, calls, orders, history>>

TakeDaily(t) ==
  LET c == <<held[t].day, held[t].key>> IN
  /\ Goes(t, "take", "daily")
  /\ daily' = With(daily, c, 0)
  /\ Disturbs("daily", c \notin DOMAIN daily)
  /\ UNCHANGED <<held, total, budget, warned, asked, today, calls, orders, history>>

AddDaily(t) ==
  /\ Goes(t, "daily", "estimate")
  /\ daily' = IF held[t].daily THEN With(daily, <<held[t].day, held[t].key>>, held[t].cost) ELSE daily
  /\ UNCHANGED <<held, total, budget, warned, asked, today, reset, calls, orders, history>>

\* Of the day's counter in the table, with all that others have added to it.
EstimateDaily(t) ==
  LET c == <<held[t].day, held[t].key>> IN
  /\ Goes(t, "estimate", "warn")
  /\ held' = [held EXCEPT ![t].current = Cost(daily, c), ![t].budget = budget[held[t].key]]
  /\ changed' = changed \ {c}
  /\ UNCHANGED <<books, budget, warned, asked, today, reset, calls, orders, spent, unsettled>>

\* From 80 % of the budget, once a day.
Warn(t) ==
  /\ Goes(t, "warn", "exceed")
  /\ warned' = IF held[t].budget # None /\ 10 * held[t].current >= 8 * held[t].budget
               THEN warned \cup {<<held[t].day, held[t].key>>} ELSE warned
  /\ UNCHANGED <<held, books, budget, asked, today, reset, calls, orders, history>>

\* The gate answers every event of a budget exceeded with a request.
Exceed(t) ==
  /\ Goes(t, "exceed", "idle")
  /\ asked' = IF held[t].budget # None /\ held[t].current > held[t].budget
              THEN asked \cup {<<held[t].day, held[t].key>>} ELSE asked
  /\ UNCHANGED <<held, books, budget, warned, today, reset, calls, orders, history>>

-----------------------------------------------------------------------------
(* The operator *)

SetBudget(k, n) ==
  /\ orders < MaxOrders /\ orders' = orders + 1
  /\ budget' = [budget EXCEPT ![k] = n]
  /\ changed' = changed \cup (Days \X {k})
  /\ UNCHANGED <<stage, held, books, warned, asked, today, reset, calls, spent, unsettled>>

\* reset collects keys from the one table, then from the other.
Reset(keys) ==
  /\ reset = Idle
  /\ orders < MaxOrders /\ orders' = orders + 1
  /\ reset' = [Idle EXCEPT !.stage = "total", !.keys = keys, !.days = Days, !.all = keys = Keys]
  /\ unsettled' = unsettled \cup {k \in keys : Tracking(k)}
  /\ UNCHANGED <<stage, held, books, budget, warned, asked, today, calls, spent, changed>>

\* A reset of all keys clears the tables, which no thread disturbs.
Raises == reset.disturbed /\ ~reset.all

ResetTotals ==
  /\ reset.stage = "total"
  /\ IF Raises THEN
       /\ reset' = Idle /\ unsettled' = unsettled \cup reset.keys
       /\ UNCHANGED <<held, total, spent>>
     ELSE
       /\ reset' = [reset EXCEPT !.stage = "daily", !.disturbed = FALSE]
       /\ total' = Restrict(total, DOMAIN total \ reset.keys)
       /\ held' = [t \in Threads |-> IF stage[t] # "idle" /\ held[t].key \in reset.keys
                                     THEN [held[t] EXCEPT !.total = FALSE] ELSE held[t]]
       /\ spent' = [k \in Keys |-> IF k \in reset.keys THEN 0 ELSE spent[k]]
       /\ UNCHANGED unsettled
  /\ UNCHANGED <<stage, daily, budget, warned, asked, today, calls, orders, changed>>

\* Warnings are cleared with the counters of their days, but by a reset of all
\* keys, which clears them on their own.
ResetDailies ==
  LET gone == (reset.days \X reset.keys) \cap DOMAIN daily IN
  /\ reset.stage = "daily"
  /\ IF Raises THEN
       /\ reset' = Idle /\ unsettled' = unsettled \cup reset.keys
       /\ UNCHANGED <<held, daily, warned>>
     ELSE
       /\ reset' = IF reset.all THEN [reset EXCEPT !.stage = "warned"] ELSE Idle
       /\ daily' = Restrict(daily, DOMAIN daily \ gone)
       /\ warned' = IF reset.all THEN warned ELSE warned \ gone
       /\ held' = [t \in Threads |-> IF stage[t] # "idle" /\ <<held[t].day, held[t].key>> \in gone
                                     THEN [held[t] EXCEPT !.daily = FALSE] ELSE held[t]]
       /\ UNCHANGED unsettled
  /\ UNCHANGED <<stage, total, budget, asked, today, calls, orders, spent, changed>>

ClearWarnings ==
  /\ reset.stage = "warned"
  /\ reset' = Idle /\ warned' = {}
  /\ UNCHANGED <<stage, held, books, budget, asked, today, calls, orders, history>>

\* reset_daily, of one day; the totals keep what it drops.
ResetDaily(day, keys) ==
  /\ reset = Idle
  /\ orders < MaxOrders /\ orders' = orders + 1
  /\ reset' = [Idle EXCEPT !.stage = "daily", !.keys = keys, !.days = {day}]
  /\ unsettled' = unsettled \cup keys
  /\ UNCHANGED <<stage, held, books, budget, warned, asked, today, calls, spent, changed>>

NextDay ==
  /\ today < MaxDay /\ today' = today + 1
  /\ UNCHANGED <<stage, held, books, budget, warned, asked, reset, calls, orders, history>>

-----------------------------------------------------------------------------
Next ==
  \/ \E t \in Threads :
       \/ \E k \in Keys, n \in Amounts : Track(t, k, n)
       \/ AddTotal(t) \/ TakeDaily(t) \/ AddDaily(t) \/ EstimateDaily(t) \/ Warn(t) \/ Exceed(t)
  \/ \E k \in Keys, n \in Budgets : SetBudget(k, n)
  \/ \E keys \in Scopes : Reset(keys) \/ \E day \in Days : ResetDaily(day, keys)
  \/ ResetTotals \/ ResetDailies \/ ClearWarnings \/ NextDay

Spec == Init /\ [][Next]_vars

-----------------------------------------------------------------------------
(* Properties *)

\* _check_cost_budget: the budgets the health checker reports as exceeded.
OverBudget == {k \in Keys : budget[k] # None /\ Cost(daily, <<today, k>>) > budget[k]}

\* Whatever the threads do to each other, when the calls of a key have been tracked
\* its total is what was tracked of it, and the sum over its days, unless it was reset
\* meanwhile or for a day only; and a budget the health checker finds exceeded has
\* been put to a human, unless it was changed after the last call.
CostsAreWatched ==
  \A k \in Keys : ~Tracking(k) =>
    /\ k \notin unsettled /\ k \notin reset.keys =>
         Cost(total, k) = spent[k] /\ ReportPeriod(k) = spent[k]
    /\ k \in OverBudget /\ <<today, k>> \notin changed => <<today, k>> \in asked
=============================================================================
