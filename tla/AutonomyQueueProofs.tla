------------------------- MODULE AutonomyQueueProofs -------------------------
(* Theorems about AutonomyQueue, for every set of workers and any number of  *)
(* actions.                                                                  *)
EXTENDS AutonomyQueue, TLAPS, SequenceTheorems

-----------------------------------------------------------------------------
(* The inductive invariant, part by part *)

\* Exactly the created actions have rows.
RowsInv == \A a \in Actions : row[a] # NoRow <=> a <= created

\* A worker past its entry is about a created action, and holds a row image
\* between the read and the write of an update.
TasksInv ==
  \A w \in Workers :
    /\ stage[w] \notin {"idle", "pick"} => task[w] \in 1..created
    /\ stage[w] \in {"mark", "end"} => image[w] # NoRow

NotPending(a) == row[a] # NoRow /\ row[a].status # "pending"

\* An action that has been marked, and so one that has been handled, is never
\* pending again.
MarkedInv ==
  /\ \A w \in Workers : stage[w] \in EndStages \cup {"record"} => NotPending(task[w])
  /\ \A i \in DOMAIN runs : NotPending(runs[i].action)

\* A worker that has found an action pending has not handled it; one that has
\* called the handler has a run to report.
RunsInv ==
  /\ \A w \in Workers : stage[w] \in {"read", "mark", "handle"} =>
       \A i \in DOMAIN runs : runs[i].by = w => runs[i].action # task[w]
  /\ \A w \in Workers : stage[w] \in {"endread", "end", "record"} => Unrecorded(w) # {}

Inv ==
  /\ TypeOK /\ RowsInv /\ TasksInv /\ MarkedInv /\ RunsInv
  /\ AuditIsComplete /\ RunningIsHandled /\ HandledOncePerWorker

-----------------------------------------------------------------------------
(* Lemmas about single steps *)

LEMMA CreatedAreActions ==
  ASSUME TypeOK
  PROVE  /\ created \in Nat
         /\ 1..created \subseteq Actions
         /\ \A a \in Actions : a \in 1..created <=> a <= created
BY QueueAssumption DEF TypeOK, Actions

\* What the handler appends.
LEMMA HandleAppends ==
  ASSUME TypeOK, TasksInv, NEW w \in Workers, Handle(w)
  PROVE  /\ runs' \in Seq(Runs)
         /\ Len(runs) \in Nat
         /\ DOMAIN runs = 1..Len(runs)
         /\ DOMAIN runs' = 1..(Len(runs) + 1)
         /\ \A i \in DOMAIN runs : runs'[i] = runs[i]
         /\ runs'[Len(runs) + 1].action = task[w]
         /\ runs'[Len(runs) + 1].by = w
         /\ runs'[Len(runs) + 1].outcome \in Outcomes
<1>1. PICK o \in Outcomes :
        runs' = Append(runs, [action |-> task[w], by |-> w, outcome |-> o])
  BY DEF Handle
<1>2. task[w] \in Actions
  BY CreatedAreActions DEF TasksInv, Handle, Goes
<1>3. [action |-> task[w], by |-> w, outcome |-> o] \in Runs
  BY <1>2 DEF Runs
<1> QED
  BY <1>1, <1>3, AppendProperties, LenProperties DEF TypeOK

\* Every run is an element of Runs.
LEMMA RunTypes ==
  ASSUME TypeOK, NEW i \in DOMAIN runs
  PROVE  runs[i] \in Runs
BY ElementOfSeq, LenProperties DEF TypeOK

-----------------------------------------------------------------------------
(* Types, rows and tasks *)

LEMMA TypeStep ==
  ASSUME TypeOK, RowsInv, TasksInv, MarkedInv, RunsInv, [Next]_vars
  PROVE  TypeOK'
<1>1. CASE Create
  BY <1>1, QueueAssumption
  DEF TypeOK, Create, Actions, Row, PendingRow, Statuses, workerVars, logVars
<1>2. CASE SetPaused
  BY <1>2 DEF TypeOK, SetPaused, workerVars, logVars
<1>3. ASSUME NEW w \in Workers, Work(w)
      PROVE  TypeOK'
  <2>1. CASE ProcessNext(w)
    BY <2>1 DEF TypeOK, ProcessNext, Goes, Stages, rowVars, logVars
  <2>2. CASE Pick(w)
    <3>1. OldestPending \subseteq Actions
      BY DEF OldestPending, PendingActions
    <3> QED
      BY <2>2, <3>1 DEF TypeOK, Pick, Returns, Stages, rowVars, logVars
  <2>3. CASE Process(w)
    BY <2>3, CreatedAreActions DEF TypeOK, Process, Goes, Stages, InFlightStages, rowVars, logVars
  <2>4. CASE Gate(w)
    BY <2>4 DEF TypeOK, Gate, Returns, Stages, InFlightStages, MarkStages, rowVars, logVars
  <2>5. CASE Load(w)
    BY <2>5 DEF TypeOK, Load, Returns, Stages, InFlightStages, MarkStages, rowVars, logVars
  <2>6. CASE Read(w)
    <3>1. task[w] \in Actions
      BY <2>6, CreatedAreActions DEF TasksInv, Read, Goes
    <3> QED
      BY <2>6, <3>1
      DEF TypeOK, Read, Goes, Stages, InFlightStages, MarkStages, EndStages, rowVars, logVars
  <2>7. CASE Mark(w)
    <3>1. task[w] \in Actions /\ image[w] \in Row
      BY <2>7, CreatedAreActions DEF TasksInv, TypeOK, Mark, Goes
    <3>2. [image[w] EXCEPT !.status = "running"] \in Row
      BY <3>1 DEF Row, Statuses
    <3> QED
      BY <2>7, <3>1, <3>2
      DEF TypeOK, Mark, Goes, Stages, InFlightStages, EndStages, logVars
  <2>8. CASE Handle(w)
    <3>1. audit \subseteq DOMAIN runs'
      BY <2>8, HandleAppends DEF TypeOK
    <3>2. stage' \in [Workers -> Stages]
      BY <2>8 DEF TypeOK, Handle, Goes, Stages, InFlightStages, EndStages
    <3> QED
      BY <2>8, <3>1, <3>2, HandleAppends DEF TypeOK, Handle, rowVars
  <2>9. CASE End(w)
    <3>1. PICK i \in Unrecorded(w) :
            row' = [row EXCEPT ![task[w]] =
                      [status |-> runs[i].outcome, result |-> runs[i].outcome]]
      BY <2>9 DEF End
    <3>2. runs[i].outcome \in Outcomes
      BY <3>1, RunTypes DEF Unrecorded, Runs
    <3>3. row' \in [Actions -> Row \cup {NoRow}]
      BY <3>1, <3>2 DEF TypeOK, Row, Statuses
    <3> QED
      BY <2>9, <3>3 DEF TypeOK, End, Goes, Stages, InFlightStages, logVars
  <2>10. CASE Record(w)
    BY <2>10 DEF TypeOK, Record, Returns, Unrecorded, Stages, rowVars
  <2>11. CASE Break(w)
    <3>1. stage[w] \in InFlightStages => task[w] \in Actions
      BY CreatedAreActions DEF TasksInv, InFlightStages, MarkStages, EndStages
    <3> QED
      BY <2>11, <3>1 DEF TypeOK, Break, Returns, Stages, rowVars
  <2> QED
    BY <1>3, <2>1, <2>2, <2>3, <2>4, <2>5, <2>6, <2>7, <2>8, <2>9, <2>10, <2>11 DEF Work
<1>4. CASE UNCHANGED vars
  BY <1>4 DEF TypeOK, vars, rowVars, workerVars, logVars
<1> QED
  BY <1>1, <1>2, <1>3, <1>4 DEF Next

\* A row changes when its action is created, marked or ended, never otherwise,
\* and a row that is not pending stays so.
LEMMA RowsStep ==
  ASSUME TypeOK, RowsInv, TasksInv, RunsInv, [Next]_vars
  PROVE  /\ RowsInv'
         /\ \A a \in Actions : NotPending(a) => NotPending(a)'
<1>1. CASE Create
  BY <1>1, QueueAssumption
  DEF TypeOK, RowsInv, NotPending, Create, Actions, PendingRow, Row, Statuses
<1>2. ASSUME NEW w \in Workers, Mark(w)
      PROVE  /\ RowsInv'
             /\ \A a \in Actions : NotPending(a) => NotPending(a)'
  <2>1. task[w] \in 1..created /\ image[w] \in Row
    BY <1>2 DEF TasksInv, TypeOK, Mark, Goes
  <2>2. [image[w] EXCEPT !.status = "running"] \in Row
    BY <2>1 DEF Row, Statuses
  <2>3. [image[w] EXCEPT !.status = "running"] # NoRow
    BY <2>2, QueueAssumption
  <2>4. [image[w] EXCEPT !.status = "running"].status # "pending"
    BY <2>1 DEF Row
  <2> QED
    BY <1>2, <2>1, <2>3, <2>4, CreatedAreActions DEF TypeOK, RowsInv, NotPending, Mark
<1>3. ASSUME NEW w \in Workers, End(w)
      PROVE  /\ RowsInv'
             /\ \A a \in Actions : NotPending(a) => NotPending(a)'
  <2>1. task[w] \in 1..created
    BY <1>3 DEF TasksInv, End, Goes
  <2>2. PICK i \in Unrecorded(w) :
          row' = [row EXCEPT ![task[w]] =
                    [status |-> runs[i].outcome, result |-> runs[i].outcome]]
    BY <1>3 DEF End
  <2>3. runs[i].outcome \in Outcomes
    BY <2>2, RunTypes DEF Unrecorded, Runs
  <2>4. [status |-> runs[i].outcome, result |-> runs[i].outcome] \in Row
    BY <2>3 DEF Row, Statuses
  <2>5. [status |-> runs[i].outcome, result |-> runs[i].outcome] # NoRow
    BY <2>4, QueueAssumption
  <2> QED
    BY <1>3, <2>1, <2>2, <2>3, <2>5, CreatedAreActions
    DEF TypeOK, RowsInv, NotPending, End, Outcomes
<1>4. CASE UNCHANGED <<created, row>>
  BY <1>4 DEF RowsInv, NotPending
<1> QED
  BY <1>1, <1>2, <1>3, <1>4
  DEF Next, vars, rowVars, SetPaused, Work, ProcessNext, Pick, Process, Gate, Load, Read,
      Handle, Record, Break

LEMMA TasksStep ==
  ASSUME TypeOK, TypeOK', RowsInv, TasksInv, MarkedInv, RunsInv, [Next]_vars
  PROVE  TasksInv'
<1>1. CASE Create
  BY <1>1 DEF TypeOK, TasksInv, Create, workerVars
<1>2. CASE SetPaused
  BY <1>2 DEF TasksInv, SetPaused, workerVars
<1>3. ASSUME NEW w \in Workers, Work(w)
      PROVE  TasksInv'
  <2>1. CASE ProcessNext(w)
    BY <2>1 DEF TypeOK, TasksInv, ProcessNext, Goes, rowVars
  <2>2. CASE Pick(w)
    <3>1. OldestPending \subseteq 1..created
      BY CreatedAreActions DEF OldestPending, PendingActions, RowsInv
    <3> QED
      BY <2>2, <3>1 DEF TypeOK, TasksInv, Pick, Returns, rowVars
  <2>3. CASE Process(w)
    BY <2>3 DEF TypeOK, TasksInv, Process, Goes, rowVars
  <2>4. CASE Gate(w)
    BY <2>4 DEF TypeOK, TasksInv, Gate, Returns, rowVars
  <2>5. CASE Load(w)
    BY <2>5 DEF TypeOK, TasksInv, Load, Returns, rowVars
  <2>6. CASE Read(w)
    <3>1. task[w] \in 1..created
      BY <2>6 DEF TasksInv, Read, Goes
    <3>2. row[task[w]] # NoRow
      BY <3>1, CreatedAreActions DEF RowsInv
    <3> QED
      BY <2>6, <3>1, <3>2 DEF TypeOK, TasksInv, Read, Goes, rowVars
  <2>7. CASE Mark(w)
    BY <2>7 DEF TypeOK, TasksInv, Mark, Goes
  <2>8. CASE Handle(w)
    BY <2>8 DEF TypeOK, TasksInv, Handle, Goes, rowVars
  <2>9. CASE End(w)
    BY <2>9 DEF TypeOK, TasksInv, End, Goes
  <2>10. CASE Record(w)
    BY <2>10 DEF TypeOK, TasksInv, Record, Returns, rowVars
  <2>11. CASE Break(w)
    BY <2>11 DEF TypeOK, TasksInv, Break, Returns, rowVars
  <2> QED
    BY <1>3, <2>1, <2>2, <2>3, <2>4, <2>5, <2>6, <2>7, <2>8, <2>9, <2>10, <2>11 DEF Work
<1>4. CASE UNCHANGED vars
  BY <1>4 DEF TasksInv, vars, rowVars, workerVars
<1> QED
  BY <1>1, <1>2, <1>3, <1>4 DEF Next

-----------------------------------------------------------------------------
(* Marked actions and handler runs *)

\* A run stays in the history as it is; a worker adds runs of its own only.
LEMMA RunsOnlyGrow ==
  ASSUME TypeOK, TasksInv, [Next]_vars
  PROVE  /\ DOMAIN runs \subseteq DOMAIN runs'
         /\ \A i \in DOMAIN runs : runs'[i] = runs[i]
         /\ audit \subseteq audit'
         /\ broken \subseteq broken'
<1>1. ASSUME NEW w \in Workers, Handle(w)
      PROVE  /\ DOMAIN runs \subseteq DOMAIN runs'
             /\ \A i \in DOMAIN runs : runs'[i] = runs[i]
             /\ UNCHANGED <<audit, broken>>
  BY <1>1, HandleAppends DEF Handle
<1> QED
  BY <1>1
  DEF Next, vars, logVars, Create, SetPaused, Work, ProcessNext, Pick, Process, Gate, Load,
      Read, Mark, End, Record, Break

\* A worker moves in its own steps only.
LEMMA OwnSteps ==
  ASSUME TypeOK, NEW v \in Workers, [Next]_vars
  PROVE  \/ stage'[v] = stage[v] /\ task'[v] = task[v] /\ image'[v] = image[v]
         \/ Work(v)
<1>1. ASSUME NEW w \in Workers, Work(w), w # v
      PROVE  stage'[v] = stage[v] /\ task'[v] = task[v] /\ image'[v] = image[v]
  BY <1>1
  DEF TypeOK, Work, ProcessNext, Pick, Process, Gate, Load, Read, Mark, Handle, End, Record,
      Break, Goes, Returns
<1> QED
  BY <1>1 DEF Next, vars, workerVars, Create, SetPaused

\* How a worker gets to the stages after the handler, or stays there.
LEMMA LateStages ==
  ASSUME TypeOK, NEW v \in Workers, [Next]_vars,
         stage'[v] \in EndStages \cup {"record"}
  PROVE  \/ Mark(v)
         \/ Handle(v) /\ stage'[v] = "endread" /\ task'[v] = task[v]
         \/ /\ stage[v] \in EndStages \cup {"record"}
            /\ stage'[v] = "handle" <=> stage[v] = "handle"
            /\ task'[v] = task[v]
<1>1. CASE Work(v)
  BY <1>1
  DEF TypeOK, EndStages, Work, ProcessNext, Pick, Process, Gate, Load, Read, Handle, End,
      Record, Break, Goes, Returns
<1> QED
  BY <1>1, OwnSteps

LEMMA MarkedStep ==
  ASSUME TypeOK, TypeOK', RowsInv, TasksInv, MarkedInv, RunsInv, [Next]_vars
  PROVE  MarkedInv'
<1>1. \A a \in Actions : NotPending(a) => NotPending(a)'
  BY RowsStep
<1>2. \A i \in DOMAIN runs : runs[i].action \in Actions
  BY RunTypes DEF Runs
<1>3. \A w \in Workers : stage[w] \in EndStages \cup {"record"} => task[w] \in Actions
  BY CreatedAreActions DEF TasksInv, EndStages
<1>4. \A i \in DOMAIN runs' : NotPending(runs[i].action)'
  <2>1. CASE UNCHANGED runs
    BY <2>1, <1>1, <1>2 DEF MarkedInv
  <2>2. ASSUME NEW w \in Workers, Handle(w)
        PROVE  \A i \in DOMAIN runs' : NotPending(runs[i].action)'
    <3>1. row' = row /\ NotPending(task[w])
      BY <2>2 DEF MarkedInv, Handle, Goes, EndStages, rowVars
    <3>2. \A i \in DOMAIN runs : NotPending(runs'[i].action)
      BY <2>2, HandleAppends DEF MarkedInv
    <3>3. NotPending(runs'[Len(runs) + 1].action)
      BY <2>2, HandleAppends, <3>1
    <3>4. \A i \in DOMAIN runs' : i \in DOMAIN runs \/ i = Len(runs) + 1
      BY <2>2, HandleAppends
    <3> QED
      BY <3>1, <3>2, <3>3, <3>4 DEF NotPending
  <2> QED
    BY <2>1, <2>2
    DEF Next, vars, logVars, Create, SetPaused, Work, ProcessNext, Pick, Process, Gate, Load,
        Read, Mark, End, Record, Break
<1>5. ASSUME NEW v \in Workers, stage'[v] \in EndStages \cup {"record"}
      PROVE  NotPending(task[v])'
  <2>1. CASE stage[v] \in EndStages \cup {"record"} /\ task'[v] = task[v]
    BY <2>1, <1>1, <1>3 DEF MarkedInv, NotPending
  <2>2. CASE Mark(v)
    <3>1. task[v] \in 1..created /\ image[v] \in Row
      BY <2>2 DEF TasksInv, TypeOK, Mark, Goes
    <3>2. row'[task[v]] = [image[v] EXCEPT !.status = "running"]
      BY <2>2, <3>1, CreatedAreActions DEF TypeOK, Mark
    <3>3. row'[task[v]].status = "running" /\ row'[task[v]] \in Row
      BY <3>1, <3>2 DEF Row, Statuses
    <3> QED
      BY <2>2, <3>3, QueueAssumption DEF NotPending, Mark
  <2> QED
    BY <1>5, <2>1, <2>2, LateStages DEF Handle, Goes, EndStages
<1> QED
  BY <1>4, <1>5 DEF MarkedInv

LEMMA RunsStep ==
  ASSUME TypeOK, TypeOK', RowsInv, TasksInv, MarkedInv, RunsInv, [Next]_vars
  PROVE  RunsInv'
<1>1. ASSUME NEW v \in Workers, stage'[v] \in {"read", "mark", "handle"},
             NEW i \in DOMAIN runs', runs'[i].by = v
      PROVE  runs'[i].action # task'[v]
  <2>1. CASE stage[v] \in {"read", "mark"} /\ task'[v] = task[v] /\ runs' = runs
    BY <1>1, <2>1 DEF RunsInv
  <2>2. CASE stage[v] \in {"read", "mark", "handle"} /\ stage'[v] = stage[v] /\ task'[v] = task[v]
    <3>1. CASE i \in DOMAIN runs
      BY <1>1, <2>2, <3>1, RunsOnlyGrow DEF RunsInv
    <3>2. CASE i \notin DOMAIN runs
      <4>1. PICK w \in Workers : Handle(w)
        BY <3>2
        DEF Next, vars, logVars, Create, SetPaused, Work, ProcessNext, Pick, Process, Gate,
            Load, Read, Mark, End, Record, Break
      <4>2. runs'[i].by = w
        BY <4>1, <3>2, HandleAppends
      <4>3. stage'[w] = "endread"
        BY <4>1 DEF TypeOK, Handle, Goes
      <4> QED
        BY <1>1, <4>2, <4>3
    <3> QED
      BY <3>1, <3>2
  <2>3. CASE Load(v)
    <3>1. row[task[v]].status = "pending" /\ task'[v] = task[v] /\ runs' = runs
      BY <1>1, <2>3 DEF TypeOK, Load, Returns, logVars
    <3> QED
      BY <1>1, <3>1 DEF MarkedInv, NotPending
  <2> QED
    BY <1>1, <2>1, <2>2, <2>3
    DEF TypeOK, Next, vars, rowVars, workerVars, logVars, Create, SetPaused, Work, ProcessNext,
        Pick, Process, Gate, Load, Read, Mark, Handle, End, Record, Break, Goes, Returns
<1>2. ASSUME NEW v \in Workers, stage'[v] \in {"endread", "end", "record"}
      PROVE  Unrecorded(v)' # {}
  <2>1. CASE stage[v] \in {"endread", "end", "record"} /\ task'[v] = task[v]
    <3>1. PICK i \in DOMAIN runs : runs[i].by = v /\ runs[i].action = task[v]
      BY <2>1 DEF RunsInv, Unrecorded
    <3> QED
      BY <1>2, <2>1, <3>1, RunsOnlyGrow DEF Unrecorded
  <2>2. CASE Handle(v)
    BY <1>2, <2>2, HandleAppends DEF Handle, Unrecorded
  <2> QED
    BY <1>2, <2>1, <2>2, LateStages DEF TypeOK, Mark, Goes, EndStages
<1> QED
  BY <1>1, <1>2 DEF RunsInv

-----------------------------------------------------------------------------
(* The safety invariants *)

\* The only step that adds a run.
LEMMA NewRun ==
  ASSUME TypeOK, TasksInv, [Next]_vars
  PROVE  \/ runs' = runs
         \/ \E w \in Workers :
              /\ Handle(w)
              /\ DOMAIN runs' = DOMAIN runs \cup {Len(runs) + 1}
              /\ runs'[Len(runs) + 1].action = task[w]
              /\ runs'[Len(runs) + 1].by = w
<1>1. ASSUME NEW w \in Workers, Handle(w)
      PROVE  /\ DOMAIN runs' = DOMAIN runs \cup {Len(runs) + 1}
             /\ runs'[Len(runs) + 1].action = task[w]
             /\ runs'[Len(runs) + 1].by = w
  <2>1. \A n \in Nat : 1..(n + 1) = 1..n \cup {n + 1}
    OBVIOUS
  <2> QED
    BY <1>1, <2>1, HandleAppends
<1> QED
  BY <1>1
  DEF Next, vars, logVars, Create, SetPaused, Work, ProcessNext, Pick, Process, Gate, Load,
      Read, Mark, End, Record, Break

LEMMA OncePerWorkerStep ==
  ASSUME TypeOK, TasksInv, RunsInv, HandledOncePerWorker, [Next]_vars
  PROVE  HandledOncePerWorker'
<1>1. CASE runs' = runs
  BY <1>1 DEF HandledOncePerWorker
<1>2. ASSUME NEW w \in Workers, Handle(w),
             DOMAIN runs' = DOMAIN runs \cup {Len(runs) + 1},
             runs'[Len(runs) + 1].action = task[w],
             runs'[Len(runs) + 1].by = w
      PROVE  HandledOncePerWorker'
  <2>1. \A i \in DOMAIN runs : runs'[i].by = w => runs'[i].action # task[w]
    BY <1>2, RunsOnlyGrow DEF RunsInv, Handle, Goes
  <2>2. ASSUME NEW i \in DOMAIN runs', NEW j \in DOMAIN runs',
               runs'[i].action = runs'[j].action, runs'[i].by = runs'[j].by
        PROVE  i = j
    <3>1. CASE i \in DOMAIN runs /\ j \in DOMAIN runs
      <4>1. runs'[i] = runs[i] /\ runs'[j] = runs[j]
        BY <3>1, RunsOnlyGrow
      <4> QED
        BY <2>2, <3>1, <4>1 DEF HandledOncePerWorker
    <3>2. CASE i \in DOMAIN runs /\ j = Len(runs) + 1
      BY <1>2, <2>1, <2>2, <3>2
    <3>3. CASE i = Len(runs) + 1 /\ j \in DOMAIN runs
      BY <1>2, <2>1, <2>2, <3>3
    <3> QED
      BY <1>2, <2>2, <3>1, <3>2, <3>3
  <2> QED
    BY <2>2 DEF HandledOncePerWorker
<1> QED
  BY <1>1, <1>2, NewRun

\* An action says how it ended as its worker says, or as it did before.
LEMMA EndedRows ==
  ASSUME TypeOK, RowsInv, TasksInv, [Next]_vars,
         NEW a \in Actions, row'[a] # NoRow, row'[a].status \in Outcomes
  PROVE  \/ row[a] = row'[a]
         \/ \E i \in DOMAIN runs : runs[i].action = a /\ runs[i].outcome = row'[a].status
<1>1. CASE Create
  BY <1>1 DEF TypeOK, Create, Actions, PendingRow, Outcomes
<1>2. ASSUME NEW w \in Workers, Mark(w)
      PROVE  row[a] = row'[a]
  <2>1. task[w] \in Actions /\ image[w] \in Row
    BY <1>2, CreatedAreActions DEF TasksInv, TypeOK, Mark, Goes
  <2>2. [image[w] EXCEPT !.status = "running"].status = "running"
    BY <2>1 DEF Row
  <2> QED
    BY <1>2, <2>1, <2>2 DEF TypeOK, Mark, Outcomes
<1>3. ASSUME NEW w \in Workers, End(w)
      PROVE  \/ row[a] = row'[a]
             \/ \E i \in DOMAIN runs : runs[i].action = a /\ runs[i].outcome = row'[a].status
  <2>1. PICK i \in Unrecorded(w) :
          row' = [row EXCEPT ![task[w]] =
                    [status |-> runs[i].outcome, result |-> runs[i].outcome]]
    BY <1>3 DEF End
  <2> QED
    BY <2>1 DEF TypeOK, Unrecorded
<1>4. CASE UNCHANGED row
  BY <1>4
<1> QED
  BY <1>1, <1>2, <1>3, <1>4
  DEF Next, vars, rowVars, SetPaused, Work, ProcessNext, Pick, Process, Gate, Load, Read,
      Handle, Record, Break

Accounted(i) ==
  \/ i \in audit
  \/ \E w \in InFlight : i \in Unrecorded(w)
  \/ runs[i].action \in broken

LEMMA AuditStep ==
  ASSUME TypeOK, TypeOK', RowsInv, TasksInv, AuditIsComplete, [Next]_vars
  PROVE  AuditIsComplete'
<1>1. ASSUME NEW i \in DOMAIN runs
      PROVE  Accounted(i)'
  <2>1. CASE i \in audit \/ runs[i].action \in broken
    BY <2>1, RunsOnlyGrow DEF Accounted
  <2>2. ASSUME NEW w \in InFlight, i \in Unrecorded(w)
        PROVE  Accounted(i)'
    <3>1. /\ w \in Workers /\ stage[w] \in {"endread", "end", "record"}
          /\ runs[i].by = w /\ runs[i].action = task[w]
      BY <2>2 DEF Unrecorded, InFlight
    <3>2. runs'[i] = runs[i] /\ i \in DOMAIN runs'
      BY RunsOnlyGrow
    <3>3. CASE stage'[w] = stage[w] /\ task'[w] = task[w]
      BY <3>1, <3>2, <3>3 DEF Accounted, InFlight, InFlightStages, EndStages, Unrecorded
    <3>4. CASE Read(w) \/ End(w)
      BY <3>1, <3>2, <3>4
      DEF TypeOK, Accounted, InFlight, InFlightStages, EndStages, Unrecorded, Read, End, Goes
    <3>5. CASE Record(w)
      BY <2>2, <3>5 DEF Accounted, Record
    <3>6. CASE Break(w)
      BY <3>1, <3>2, <3>6 DEF Accounted, Break, InFlightStages, EndStages
    <3> QED
      BY <3>1, <3>3, <3>4, <3>5, <3>6, OwnSteps
      DEF Work, ProcessNext, Pick, Process, Gate, Load, Mark, Handle, Goes
  <2> QED
    BY <2>1, <2>2 DEF AuditIsComplete
<1>2. \A i \in DOMAIN runs' : Accounted(i)'
  <2>1. ASSUME NEW w \in Workers, Handle(w), NEW i \in DOMAIN runs',
               runs'[i].action = task[w], runs'[i].by = w
        PROVE  Accounted(i)'
    BY <2>1
    DEF TypeOK, Accounted, Handle, Goes, InFlight, InFlightStages, EndStages, Unrecorded
  <2> QED
    BY <1>1, <2>1, NewRun
<1>3. ASSUME NEW a \in Actions, row'[a] # NoRow, row'[a].status \in Outcomes
      PROVE  \E i \in DOMAIN runs' : runs'[i].action = a /\ runs'[i].outcome = row'[a].status
  <2>1. PICK i \in DOMAIN runs : runs[i].action = a /\ runs[i].outcome = row'[a].status
    BY <1>3, EndedRows DEF AuditIsComplete
  <2> QED
    BY <2>1, RunsOnlyGrow
<1> QED
  BY <1>2, <1>3 DEF AuditIsComplete, Accounted

LEMMA RunningStep ==
  ASSUME TypeOK, TypeOK', RowsInv, TasksInv, RunningIsHandled, [Next]_vars
  PROVE  RunningIsHandled'
<1> SUFFICES ASSUME NEW a \in Actions, row'[a] # NoRow, row'[a].status = "running",
                    a \notin broken'
             PROVE  \E w \in Workers : task'[w] = a /\ stage'[w] \in EndStages
  BY DEF RunningIsHandled
<1>1. ASSUME NEW w \in Workers, Mark(w), task[w] = a
      PROVE  task'[w] = a /\ stage'[w] \in EndStages
  BY <1>1 DEF TypeOK, Mark, Goes, EndStages
<1>2. CASE row[a] # NoRow /\ row[a].status = "running"
  <2>1. PICK w \in Workers : task[w] = a /\ stage[w] \in EndStages
    BY <1>2, RunsOnlyGrow DEF RunningIsHandled
  <2>2. ~End(w)
    <3>1. SUFFICES ASSUME End(w) PROVE FALSE
      OBVIOUS
    <3>2. PICK i \in Unrecorded(w) :
            row' = [row EXCEPT ![task[w]] =
                      [status |-> runs[i].outcome, result |-> runs[i].outcome]]
      BY <3>1 DEF End
    <3>3. runs[i].outcome \in Outcomes
      BY <3>2, RunTypes DEF Unrecorded, Runs
    <3> QED
      BY <2>1, <3>2, <3>3 DEF TypeOK, Outcomes
  <2>3. ~Break(w)
    BY <2>1 DEF Break, InFlightStages
  <2>4. CASE Work(w)
    BY <2>1, <2>2, <2>3, <2>4
    DEF TypeOK, EndStages, Work, ProcessNext, Pick, Process, Gate, Load, Read, Mark, Handle,
        Record, Goes
  <2> QED
    BY <2>1, <2>4, OwnSteps
<1>3. CASE ~(row[a] # NoRow /\ row[a].status = "running")
  <2>1. ASSUME NEW w \in Workers, End(w)
        PROVE  FALSE
    <3>1. PICK i \in Unrecorded(w) :
            row' = [row EXCEPT ![task[w]] =
                      [status |-> runs[i].outcome, result |-> runs[i].outcome]]
      BY <2>1 DEF End
    <3>2. runs[i].outcome \in Outcomes
      BY <3>1, RunTypes DEF Unrecorded, Runs
    <3> QED
      BY <1>3, <3>1, <3>2 DEF TypeOK, Outcomes
  <2>2. ~Create
    BY <1>3 DEF TypeOK, Create, Actions, PendingRow
  <2>3. row' # row
    BY <1>3
  <2>4. PICK w \in Workers : Mark(w)
    BY <2>1, <2>2, <2>3
    DEF Next, vars, rowVars, SetPaused, Work, ProcessNext, Pick, Process, Gate, Load, Read,
        Handle, Record, Break
  <2>5. task[w] = a
    BY <1>3, <2>4 DEF TypeOK, Mark
  <2> QED
    BY <1>1, <2>4, <2>5
<1> QED
  BY <1>2, <1>3

-----------------------------------------------------------------------------
(* The theorems *)

LEMMA InvInit == Init => Inv
<1> SUFFICES ASSUME Init PROVE Inv
  OBVIOUS
<1>1. runs = <<>> /\ DOMAIN runs = {} /\ runs \in Seq(Runs)
  BY EmptySeq DEF Init
<1>2. TypeOK
  <2>1. created \in 0..NumActions
    BY QueueAssumption DEF Init
  <2>2. paused \in BOOLEAN
    BY DEF Init
  <2>3. /\ row \in [Actions -> Row \cup {NoRow}]
        /\ stage \in [Workers -> Stages]
        /\ task \in [Workers -> Actions \cup {0}]
        /\ image \in [Workers -> Row \cup {NoRow}]
    BY DEF Init, Stages
  <2>4. audit \subseteq DOMAIN runs /\ broken \subseteq Actions
    BY DEF Init
  <2> QED
    BY <1>1, <2>1, <2>2, <2>3, <2>4 DEF TypeOK
<1>3. \A a \in Actions : row[a] = NoRow /\ ~(a <= created)
  BY DEF Init, Actions
<1>4. \A w \in Workers : stage[w] = "idle"
  BY DEF Init
<1>5. RowsInv /\ RunningIsHandled /\ AuditIsComplete
  BY <1>1, <1>3 DEF RowsInv, RunningIsHandled, AuditIsComplete
<1>6. TasksInv /\ MarkedInv /\ RunsInv /\ HandledOncePerWorker
  BY <1>1, <1>4 DEF TasksInv, MarkedInv, RunsInv, HandledOncePerWorker, EndStages
<1> QED
  BY <1>2, <1>5, <1>6 DEF Inv

LEMMA InvStep == Inv /\ [Next]_vars => Inv'
BY TypeStep, RowsStep, TasksStep, MarkedStep, RunsStep, AuditStep, RunningStep, OncePerWorkerStep
DEF Inv

\* The inductive invariant of the queue holds for every number of workers and
\* actions: no update of a row, however stale, makes an action pending again.
THEOREM QueueInvariant == Spec => []Inv
BY InvInit, InvStep, PTL DEF Spec

\* Type correctness of the action rows, the workers and the decision log.
THEOREM QueueTypes == Spec => []TypeOK
<1>1. Inv => TypeOK
  BY DEF Inv
<1> QED
  BY <1>1, QueueInvariant, PTL

\* Every handler run is recorded, about to be recorded, or broken off; an ended
\* action tells how one of its handler runs ended.
THEOREM AuditCompleteness == Spec => []AuditIsComplete
<1>1. Inv => AuditIsComplete
  BY DEF Inv
<1> QED
  BY <1>1, QueueInvariant, PTL

\* An action that is running has a worker at it, or one that broke off.
THEOREM RunningActionsAreHandled == Spec => []RunningIsHandled
<1>1. Inv => RunningIsHandled
  BY DEF Inv
<1> QED
  BY <1>1, QueueInvariant, PTL

\* An action is handled at most once by each worker.
THEOREM OncePerWorker == Spec => []HandledOncePerWorker
<1>1. Inv => HandledOncePerWorker
  BY DEF Inv
<1> QED
  BY <1>1, QueueInvariant, PTL

\* With a single worker an action is handled at most once.
THEOREM OnceBySingleWorker ==
  ASSUME \A v, w \in Workers : v = w
  PROVE  Spec => [](\A i, j \in DOMAIN runs : runs[i].action = runs[j].action => i = j)
<1>1. Inv => \A i, j \in DOMAIN runs : runs[i].action = runs[j].action => i = j
  <2>1. ASSUME Inv, NEW i \in DOMAIN runs, NEW j \in DOMAIN runs,
               runs[i].action = runs[j].action
        PROVE  i = j
    <3>1. runs[i].by \in Workers /\ runs[j].by \in Workers
      BY <2>1, RunTypes DEF Inv, Runs
    <3> QED
      BY <2>1, <3>1 DEF Inv, HandledOncePerWorker
  <2> QED
    BY <2>1
<1> QED
  BY <1>1, QueueInvariant, PTL

\* A paused queue admits no worker.
THEOREM PauseHolds == Spec => PauseAdmitsNoOne
<1>1. TypeOK /\ [Next]_vars => [paused /\ paused' => InFlight' \subseteq InFlight]_vars
  <2>1. ASSUME TypeOK, [Next]_vars, paused, paused', NEW w \in Workers,
               stage'[w] \in InFlightStages
        PROVE  stage[w] \in InFlightStages
    <3>1. CASE Work(w)
      BY <2>1, <3>1
      DEF TypeOK, Work, ProcessNext, Pick, Process, Gate, Load, Read, Mark, Handle, End,
          Record, Break, Goes, Returns, InFlightStages, MarkStages, EndStages
    <3> QED
      BY <2>1, <3>1, OwnSteps
  <2> QED
    BY <2>1 DEF InFlight
<1> QED
  BY <1>1, QueueTypes, PTL DEF Spec, PauseAdmitsNoOne

-----------------------------------------------------------------------------
(* A single worker implements the contract *)

OneWorker == \A v, w \in Workers : v = w

\* A worker without company finds the row of its action as it left it, has not
\* recorded what it is to record, and is about the oldest pending action if it
\* takes them by age.
AloneInv ==
  \A w \in Workers :
    /\ stage[w] \in {"read", "mark"} => row[task[w]].status = "pending"
    /\ stage[w] \in EndStages => row[task[w]].status = "running"
    /\ stage[w] = "record" => row[task[w]].status \in Outcomes
    /\ stage[w] \in {"endread", "end", "record"} => Unrecorded(w) \cap audit = {}
    /\ Entries = {"next"} /\ stage[w] \in {"gate", "load", "read", "mark"} =>
         \A b \in 1..(task[w] - 1) : NotPending(b)

\* An action that is not pending stays so, and a new one is younger than the task of
\* any worker.
LEMMA OlderStayNotPending ==
  ASSUME Inv, [Next]_vars, NEW a \in 1..created, \A b \in 1..(a - 1) : NotPending(b)
  PROVE  \A b \in 1..(a - 1) : NotPending(b)'
<1>1. a \in Nat /\ 1..(a - 1) \subseteq Actions
  BY CreatedAreActions DEF Inv
<1> QED
  BY <1>1, RowsStep DEF Inv

LEMMA AloneStep ==
  ASSUME OneWorker, Inv, Inv', AloneInv, [Next]_vars
  PROVE  AloneInv'
<1>1. CASE Create
  <2>1. ASSUME NEW w \in Workers, stage[w] \notin {"idle", "pick"}
        PROVE  task[w] \in 1..created /\ task[w] # created + 1
    BY <2>1, CreatedAreActions DEF Inv, TasksInv
  <2>2. ASSUME NEW w \in Workers, stage[w] \notin {"idle", "pick"}
        PROVE  row'[task[w]] = row[task[w]]
    BY <1>1, <2>1, <2>2, CreatedAreActions DEF Inv, TypeOK, Create
  <2>3. ASSUME NEW w \in Workers, Entries = {"next"}, stage[w] \in {"gate", "load", "read", "mark"}
        PROVE  \A b \in 1..(task[w] - 1) : NotPending(b)'
    BY <2>1, <2>3, OlderStayNotPending DEF AloneInv
  <2>4. UNCHANGED <<stage, task, runs, audit>>
    BY <1>1 DEF Create, workerVars, logVars
  <2> QED
    BY <2>2, <2>3, <2>4 DEF AloneInv, EndStages, Unrecorded
<1>2. CASE SetPaused
  BY <1>2 DEF AloneInv, SetPaused, workerVars, logVars, Unrecorded, NotPending
<1>3. ASSUME NEW w \in Workers, Work(w)
      PROVE  AloneInv'
  <2> DEFINE Older == \A b \in 1..(task[w] - 1) : NotPending(b)
  <2>0. Workers = {w}
    BY DEF OneWorker
  <2> HIDE DEF OneWorker
  <2>1. CASE ProcessNext(w)
    BY <2>0, <2>1 DEF Inv, TypeOK, AloneInv, ProcessNext, Goes, EndStages
  <2>2. CASE Pick(w)
    <3>1. CASE stage'[w] = "gate" /\ task'[w] \in OldestPending
      <4>1. \A b \in 1..(task'[w] - 1) : b \in Actions /\ b \notin PendingActions /\ row[b] # NoRow
        BY <3>1, CreatedAreActions DEF OldestPending, PendingActions, Inv, RowsInv
      <4>2. \A b \in 1..(task'[w] - 1) : NotPending(b)'
        BY <2>2, <4>1 DEF NotPending, PendingActions, Pick, rowVars
      <4> QED
        BY <2>0, <3>1, <4>2 DEF AloneInv, EndStages
    <3>2. CASE stage'[w] = "idle"
      BY <2>0, <3>2 DEF AloneInv, EndStages
    <3> QED
      BY <2>2, <3>1, <3>2 DEF Inv, TypeOK, Pick, Returns
  <2>3. CASE Process(w)
    BY <2>0, <2>3 DEF Inv, TypeOK, AloneInv, Process, Goes, EndStages
  <2>4. CASE Gate(w)
    BY <2>0, <2>4 DEF Inv, TypeOK, AloneInv, Gate, Returns, EndStages, NotPending, rowVars
  <2>5. CASE Load(w)
    BY <2>0, <2>5 DEF Inv, TypeOK, AloneInv, Load, Returns, EndStages, NotPending, rowVars
  <2>6. CASE Read(w)
    BY <2>0, <2>6 DEF Inv, TypeOK, AloneInv, Read, Goes, EndStages, NotPending, Unrecorded,
                      rowVars, logVars
  <2>7. CASE Mark(w)
    <3>1. task[w] \in Actions /\ image[w] \in Row /\ stage'[w] = "handle" /\ task'[w] = task[w]
      BY <2>7, CreatedAreActions DEF Inv, TasksInv, TypeOK, Mark, Goes
    <3>2. row'[task[w]].status = "running"
      BY <2>7, <3>1 DEF Inv, TypeOK, Mark, Row
    <3> QED
      BY <2>0, <3>1, <3>2 DEF AloneInv
  <2>8. CASE Handle(w)
    <3>1. /\ stage[w] = "handle" /\ stage'[w] = "endread" /\ task'[w] = task[w]
          /\ UNCHANGED <<row, audit>>
      BY <2>8 DEF Inv, TypeOK, Handle, Goes, rowVars
    <3>2. ASSUME NEW i \in audit
          PROVE  i \in DOMAIN runs /\ runs'[i] = runs[i] /\ ~(runs[i].by = w /\ runs[i].action = task[w])
      BY <3>1, <3>2, RunsOnlyGrow DEF Inv, TypeOK, RunsInv
    <3>3. Unrecorded(w)' \cap audit' = {}
      BY <3>1, <3>2 DEF Unrecorded
    <3> QED
      BY <2>0, <3>1, <3>3 DEF AloneInv, EndStages
  <2>9. CASE End(w)
    <3>1. PICK i \in Unrecorded(w) :
            row' = [row EXCEPT ![task[w]] =
                      [status |-> runs[i].outcome, result |-> runs[i].outcome]]
      BY <2>9 DEF End
    <3>2. runs[i].outcome \in Outcomes
      BY <3>1, RunTypes DEF Inv, Unrecorded, Runs
    <3>3. task[w] \in Actions /\ stage[w] = "end" /\ stage'[w] = "record" /\ UNCHANGED <<task, runs, audit>>
      BY <2>9, CreatedAreActions DEF Inv, TasksInv, TypeOK, End, Goes, logVars
    <3>4. row'[task[w]].status \in Outcomes
      BY <3>1, <3>2, <3>3 DEF Inv, TypeOK
    <3> QED
      BY <2>0, <3>3, <3>4 DEF AloneInv, EndStages, Unrecorded
  <2>10. CASE Record(w) \/ Break(w)
    BY <2>0, <2>10 DEF Inv, TypeOK, AloneInv, Record, Break, Returns, EndStages
  <2> QED
    BY <1>3, <2>1, <2>2, <2>3, <2>4, <2>5, <2>6, <2>7, <2>8, <2>9, <2>10 DEF Work
<1>4. CASE UNCHANGED vars
  BY <1>4 DEF AloneInv, vars, rowVars, workerVars, logVars, Unrecorded, NotPending
<1> QED
  BY <1>1, <1>2, <1>3, <1>4 DEF Next

\* A step that leaves rows and records alone is one of the contract's, or none.
LEMMA ContractStep ==
  ASSUME OneWorker, Inv, AloneInv, [Next]_vars
  PROVE  [Contract!Next]_(Contract!vars)
<1> USE DEF Contract!Actions
<1>0. ASSUME UNCHANGED <<row, audit>>
      PROVE  UNCHANGED Contract!vars
  <2>1. \A i \in audit : runs'[i] = runs[i]
    BY RunsOnlyGrow DEF Inv, TypeOK
  <2>2. RecordedActions' = RecordedActions
    BY <1>0, <2>1 DEF RecordedActions
  <2> QED
    BY <1>0, <2>2 DEF Contract!vars, ActionStates
<1>1. CASE Create
  <2> DEFINE a == created + 1
  <2>1. a \in Actions /\ row[a] = NoRow
    BY <1>1, CreatedAreActions, QueueAssumption DEF Inv, RowsInv, Create, Actions
  <2>2. PendingRow # NoRow /\ PendingRow.status = "pending"
    BY QueueAssumption DEF PendingRow, Row, Statuses
  <2>3. ActionStates[a] = "none" /\ ActionStates' = [ActionStates EXCEPT ![a] = "pending"]
    BY <1>1, <2>1, <2>2 DEF Inv, TypeOK, Create, ActionStates
  <2>4. RecordedActions' = RecordedActions
    BY <1>1 DEF Create, logVars, RecordedActions
  <2> HIDE DEF a
  <2>5. Contract!Create(a)
    BY <2>3, <2>4 DEF Contract!Create, Contract!Becomes
  <2> QED
    BY <2>1, <2>5 DEF Contract!Next, Actions
<1>2. ASSUME NEW w \in Workers, Mark(w)
      PROVE  Contract!Next
  <2> DEFINE a == task[w]
  <2>1. a \in 1..created /\ a \in Actions /\ row[a] # NoRow /\ image[w] \in Row
    BY <1>2, CreatedAreActions DEF Inv, TasksInv, TypeOK, RowsInv, Mark, Goes
  <2>2. /\ [image[w] EXCEPT !.status = "running"] # NoRow
        /\ [image[w] EXCEPT !.status = "running"].status = "running"
    <3>1. [image[w] EXCEPT !.status = "running"] \in Row
      BY <2>1 DEF Row, Statuses
    <3> QED
      BY <2>1, <3>1, QueueAssumption DEF Row
  <2>3. row[a].status = "pending"
    BY <1>2 DEF AloneInv, Mark, Goes
  <2>4. ActionStates[a] = "pending" /\ ActionStates' = [ActionStates EXCEPT ![a] = "running"]
    BY <1>2, <2>1, <2>2, <2>3 DEF Inv, TypeOK, Mark, ActionStates
  <2>5. Entries = {"next"} => \A b \in 1..(a - 1) : ActionStates[b] # "pending"
    <3>1. SUFFICES ASSUME Entries = {"next"}, NEW b \in 1..(a - 1)
                   PROVE  ActionStates[b] # "pending"
      OBVIOUS
    <3>2. b \in Actions /\ NotPending(b)
      BY <1>2, <2>1, <3>1, CreatedAreActions DEF AloneInv, Mark, Goes, Inv, Actions
    <3> QED
      BY <3>2 DEF ActionStates, NotPending
  <2>6. RecordedActions' = RecordedActions
    BY <1>2 DEF Mark, logVars, RecordedActions
  <2> HIDE DEF a
  <2>7. Contract!Take(a)
    BY <2>4, <2>5, <2>6 DEF Contract!Take, Contract!Becomes
  <2> QED
    BY <2>1, <2>7 DEF Contract!Next, Actions
<1>3. ASSUME NEW w \in Workers, End(w)
      PROVE  Contract!Next
  <2> DEFINE a == task[w]
  <2>1. a \in 1..created /\ a \in Actions /\ row[a] # NoRow /\ row[a].status = "running"
    BY <1>3, CreatedAreActions DEF Inv, TasksInv, TypeOK, RowsInv, AloneInv, End, Goes, EndStages
  <2>2. PICK i \in Unrecorded(w) :
          row' = [row EXCEPT ![a] = [status |-> runs[i].outcome, result |-> runs[i].outcome]]
    BY <1>3 DEF End
  <2>3. runs[i].outcome \in Outcomes
    BY <2>2, RunTypes DEF Inv, Unrecorded, Runs
  <2>4. [status |-> runs[i].outcome, result |-> runs[i].outcome] # NoRow
    <3>1. [status |-> runs[i].outcome, result |-> runs[i].outcome] \in Row
      BY <2>3 DEF Row, Statuses
    <3> QED
      BY <3>1, QueueAssumption
  <2>5. ActionStates[a] = "running" /\ ActionStates' = [ActionStates EXCEPT ![a] = runs[i].outcome]
    BY <2>1, <2>2, <2>4 DEF Inv, TypeOK, ActionStates
  <2>6. RecordedActions' = RecordedActions
    BY <1>3 DEF End, logVars, RecordedActions
  <2> HIDE DEF a
  <2>7. Contract!End(a)
    BY <2>3, <2>5, <2>6 DEF Contract!End, Contract!Becomes, Contract!Ended, Outcomes
  <2> QED
    BY <2>1, <2>7 DEF Contract!Next, Actions
<1>4. ASSUME NEW w \in Workers, Record(w)
      PROVE  Contract!Next
  <2> DEFINE a == task[w]
  <2>1. a \in Actions /\ row[a] # NoRow /\ row[a].status \in Outcomes /\ stage[w] = "record"
    BY <1>4, CreatedAreActions DEF Inv, TasksInv, TypeOK, RowsInv, AloneInv, Record, EndStages
  <2>2. Unrecorded(w) # {} /\ Unrecorded(w) \cap audit = {}
    BY <2>1 DEF Inv, RunsInv, AloneInv
  <2>3. \A i \in Unrecorded(w) : runs[i].action = a
    BY DEF Unrecorded
  <2>4. a \notin RecordedActions
    <3>1. ASSUME NEW i \in audit, runs[i].action = a
          PROVE  FALSE
      <4>1. i \in DOMAIN runs /\ runs[i].by \in Workers
        BY RunTypes DEF Inv, TypeOK, Runs
      <4>2. runs[i].by = w
        BY <4>1 DEF OneWorker
      <4>3. i \in Unrecorded(w)
        BY <2>1, <3>1, <4>1, <4>2 DEF Unrecorded
      <4> QED
        BY <2>2, <4>3
    <3> QED
      BY <3>1 DEF RecordedActions
  <2>5. RecordedActions' = RecordedActions \cup {a}
    BY <1>4, <2>2, <2>3 DEF Record, RecordedActions
  <2>6. UNCHANGED ActionStates
    BY <1>4 DEF Record, rowVars, ActionStates
  <2>7. ActionStates[a] \in Outcomes
    BY <2>1 DEF ActionStates
  <2> HIDE DEF a
  <2>8. Contract!Record(a)
    BY <2>4, <2>5, <2>6, <2>7 DEF Contract!Record, Contract!Ended, Outcomes
  <2> QED
    BY <2>1, <2>8 DEF Contract!Next, Actions
<1>5. \/ Create \/ UNCHANGED <<row, audit>>
      \/ \E w \in Workers : Mark(w) \/ End(w) \/ Record(w)
  BY DEF Next, vars, rowVars, logVars, SetPaused, Work, ProcessNext, Pick, Process, Gate, Load,
         Read, Handle, Break
<1> QED
  BY <1>0, <1>1, <1>2, <1>3, <1>4, <1>5

\* A single worker keeps the contract of the queue, for any number of actions: each
\* is taken, ended and recorded once and in that order, oldest first if it is asked
\* for no action by id.
THEOREM SingleWorkerImplementsContract ==
  ASSUME OneWorker
  PROVE  Spec => ImplementsContract
<1>1. Init => AloneInv
  BY DEF Init, AloneInv, EndStages
<1>2. Inv /\ Inv' /\ AloneInv /\ [Next]_vars => AloneInv'
  BY AloneStep
<1>3. Init => Contract!Init
  <2>1. Init => ActionStates = [a \in Actions |-> "none"] /\ RecordedActions = {}
    BY DEF Init, ActionStates, RecordedActions
  <2> QED
    BY <2>1 DEF Contract!Init, Contract!Actions, Actions
<1>4. Inv /\ AloneInv /\ [Next]_vars => [Contract!Next]_(Contract!vars)
  BY ContractStep
<1> QED
  BY <1>1, <1>2, <1>3, <1>4, QueueInvariant, PTL DEF Spec, ImplementsContract, Contract!Spec
=============================================================================
