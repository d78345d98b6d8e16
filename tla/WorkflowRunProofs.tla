-------------------------- MODULE WorkflowRunProofs --------------------------
(* Theorems about WorkflowRun, for every task list and every bound. *)
EXTENDS WorkflowRun, TLAPS, SequenceTheorems, FiniteSetTheorems, FunctionTheorems

-----------------------------------------------------------------------------
(* Type correctness *)

\* A recovered or resumed task is in a state of the task state machine, and
\* never in one of the interrupted states.
LEMMA LoadedTaskType ==
  ASSUME TypeOK, NEW k \in Kinds, NEW t \in Tasks
  PROVE  LoadedTask(k, t) \in FailedStates \cup {"pending", "succeeded"}
BY DEF TypeOK, LoadedTask, ResumedTask, RecoveredTask, TaskStates, FailedStates

\* Scheduling appends entries of the scheduling generation to the queue.
LEMMA ScheduleType ==
  ASSUME TypeOK, RunAssumption, NEW g \in 0..MaxCalls, NEW k \in Kinds,
         NEW states \in [Tasks -> TaskStates], Schedule(states, g, k)
  PROVE  queue' \in Seq((0..MaxCalls) \X Tasks \X Kinds)
<1> DEFINE F == {t \in Tasks : states[t] = "pending" /\ ~Queued(t)}
<1>1. PICK s \in InListOrder(F) : queue' = queue \o [i \in DOMAIN s |-> <<g, s[i], k>>]
  BY DEF Schedule
<1>2. PICK n \in 0..NumTasks : s \in [1..n -> F]
  BY <1>1 DEF InListOrder
<1>3. [i \in DOMAIN s |-> <<g, s[i], k>>] \in Seq((0..MaxCalls) \X Tasks \X Kinds)
  BY <1>2, SeqDef DEF RunAssumption
<1>4. QED
  BY <1>1, <1>3, ConcatProperties DEF TypeOK

\* Every reachable state is well typed.
THEOREM TypeCorrect == Spec => []TypeOK
<1>1. Init => TypeOK
  <2> SUFFICES ASSUME Init PROVE TypeOK
    OBVIOUS
  <2>1. queue \in Seq((0..MaxCalls) \X Tasks \X Kinds)
    BY DEF Init
  <2>2. QED
    BY <2>1, RunAssumption DEF RunAssumption, Init, TypeOK, RunStates, TaskStates,
       FailedStates, RequestStates, Steps, Kinds
<1>2. TypeOK /\ [Next]_vars => TypeOK'
  <2> SUFFICES ASSUME TypeOK, [Next]_vars PROVE TypeOK'
    OBVIOUS
  <2> USE RunAssumption DEF TypeOK
  <2>1. ASSUME NEW k \in Kinds, StartCall(k)
        PROVE  TypeOK'
    <3>1. gen' \in 0..MaxCalls
      BY <2>1 DEF StartCall, RunAssumption
    <3>2. rstate' \in RunStates
      BY <2>1 DEF StartCall, MarkRunning, LoadedRun, RecoveredRun, RunStates
    <3>3. tstate' \in [Tasks -> TaskStates]
      BY <2>1, LoadedTaskType DEF StartCall, TaskStates
    <3>4. step' \in [Tasks -> Steps]
      BY <2>1 DEF StartCall, Steps
    <3>5. queue' \in Seq((0..MaxCalls) \X Tasks \X Kinds)
      BY <2>1, <3>1, <3>3, ScheduleType DEF StartCall
    <3>6. UNCHANGED <<request, database>> /\ phase' \in {"check", "pop"} /\ kind' = k
      BY <2>1 DEF StartCall
    <3>7. QED
      BY <3>1, <3>2, <3>3, <3>4, <3>5, <3>6 DEF database
  <2>2. CASE FailDependents
    BY <2>2 DEF FailDependents, Pending, TaskStates, FailedStates, database
  <2>3. CASE SubmitBatch
    BY <2>3 DEF SubmitBatch, Steps, database
  <2>4. CASE FailUnresolved
    BY <2>4 DEF FailUnresolved, TaskStates, FailedStates, database
  <2>5. CASE EndRound \/ EndLoop \/ Abort
    BY <2>5 DEF EndRound, EndLoop, Abort, memory, database
  <2>6. CASE PopTask \/ PopAbandoned
    <3>1. queue # <<>>
      BY <2>6 DEF PopTask, PopAbandoned
    <3>2. /\ Head(queue) \in (0..MaxCalls) \X Tasks \X Kinds
          /\ Tail(queue) \in Seq((0..MaxCalls) \X Tasks \X Kinds)
      BY <3>1, HeadTailProperties
    <3>3. CASE PopTask
      BY <3>2, <3>3 DEF PopTask, Steps, database
    <3>4. CASE PopAbandoned
      <4>1. PICK r \in Decisions(Head(queue)[2]) :
              /\ request' = [request EXCEPT ![Head(queue)[2]] = r]
              /\ phase' \in {"pop", "idle"}
        BY <3>4 DEF PopAbandoned
      <4>2. r \in RequestStates
        BY <3>2, <4>1 DEF Decisions, RequestStates, RunAssumption
      <4>3. QED
        BY <3>2, <3>4, <4>1, <4>2 DEF PopAbandoned, database
    <3>5. QED
      BY <2>6, <3>3, <3>4
  <2>7. ASSUME NEW t \in Tasks, Worker(t)
        PROVE  TypeOK'
    <3> USE DEF Moves, TaskStates, FailedStates, Steps, RequestStates, database
    <3>1. CASE Prepare(t)
      BY <3>1 DEF Prepare
    <3>2. CASE Decide(t)
      BY <3>2 DEF Decide, RunAssumption
    <3>3. CASE Launch(t)
      BY <3>3 DEF Launch
    <3>4. CASE Finish(t)
      BY <3>4 DEF Finish
    <3>5. QED
      BY <2>7, <3>1, <3>2, <3>3, <3>4 DEF Worker
  <2>8. CASE SaveRun
    BY <2>8 DEF SaveRun, Verdict, RunStates, RunAssumption
  <2>9. CASE SaveTask
    BY <2>9 DEF SaveTask, memory, RunAssumption, Tasks
  <2>10. CASE Human
    BY <2>10 DEF Human, HumanDecides, RequestStates, database
  <2>11. CASE Crash
    BY <2>11 DEF Crash, RequestStates, Steps, database
  <2>12. CASE UNCHANGED vars
    BY <2>12 DEF vars, memory, database
  <2>13. QED
    BY <2>1, <2>2, <2>3, <2>4, <2>5, <2>6, <2>7, <2>8, <2>9, <2>10, <2>11, <2>12
       DEF Next, Engine, Caller
<1>3. QED
  BY <1>1, <1>2, PTL DEF Spec

-----------------------------------------------------------------------------
(* The inductive invariant *)

\* The queue grows by one entry for each of the n members of s, which are pending
\* and were not queued, all different.
Appended(n, s, states, g, k) ==
  /\ \A i \in 1..n : states[s[i]] = "pending" /\ ~Queued(s[i])
  /\ \A i, j \in 1..n : s[i] = s[j] => i = j
  /\ Len(queue') = Len(queue) + n
  /\ \A i \in 1..(Len(queue) + n) :
       queue'[i] = IF i <= Len(queue) THEN queue[i] ELSE <<g, s[i - Len(queue)], k>>

\* Schedule does that, with entries of generation g and kind k.
LEMMA ScheduleAppends ==
  ASSUME TypeOK, RunAssumption, NEW g \in 0..MaxCalls, NEW k \in Kinds,
         NEW states \in [Tasks -> TaskStates], Schedule(states, g, k)
  PROVE  \E n \in Nat : \E s \in [1..n -> Tasks] : Appended(n, s, states, g, k)
<1> DEFINE F == {t \in Tasks : states[t] = "pending" /\ ~Queued(t)}
<1>1. PICK s \in InListOrder(F) : queue' = queue \o [i \in DOMAIN s |-> <<g, s[i], k>>]
  BY DEF Schedule
<1>2. PICK n \in 0..NumTasks : s \in [1..n -> F]
  BY <1>1 DEF InListOrder
<1>3. \A i, j \in 1..n : s[i] = s[j] => i = j
  <2> SUFFICES ASSUME NEW i \in 1..n, NEW j \in 1..n, i < j PROVE s[i] # s[j]
    BY <1>2 DEF RunAssumption
  <2>1. \A a, b \in DOMAIN s : a < b => s[a] < s[b]
    BY <1>1 DEF InListOrder
  <2>2. s[i] < s[j] /\ s[i] \in Tasks
    BY <1>2, <2>1
  <2>3. QED
    BY <2>2 DEF Tasks, RunAssumption
<1>4. n \in Nat /\ s \in [1..n -> Tasks]
  BY <1>2 DEF RunAssumption
<1>5. \A i \in 1..n : states[s[i]] = "pending" /\ ~Queued(s[i])
  BY <1>2
<1> DEFINE r == [i \in DOMAIN s |-> <<g, s[i], k>>]
<1>6. /\ r \in Seq((0..MaxCalls) \X Tasks \X Kinds)
      /\ Len(r) = n
      /\ \A i \in 1..n : r[i] = <<g, s[i], k>>
  BY <1>4, SeqDef, LenProperties
<1>7. /\ Len(queue \o r) = Len(queue) + n
      /\ \A i \in 1..(Len(queue) + n) :
           (queue \o r)[i] = IF i <= Len(queue) THEN queue[i] ELSE r[i - Len(queue)]
  BY <1>6, ConcatProperties DEF TypeOK
<1>8. \A i \in 1..(Len(queue) + n) : i > Len(queue) => r[i - Len(queue)] = <<g, s[i - Len(queue)], k>>
  <2>1. Len(queue) \in Nat
    BY LenProperties DEF TypeOK
  <2>2. QED
    BY <1>4, <1>6, <2>1
<1> HIDE DEF r
<1>9. queue' = queue \o r
  BY <1>1 DEF r
<1>10. \A i \in 1..(Len(queue) + n) :
         queue'[i] = IF i <= Len(queue) THEN queue[i] ELSE <<g, s[i - Len(queue)], k>>
  <2> SUFFICES ASSUME NEW i \in 1..(Len(queue) + n)
               PROVE  queue'[i] = IF i <= Len(queue) THEN queue[i]
                                  ELSE <<g, s[i - Len(queue)], k>>
    OBVIOUS
  <2>1. Len(queue) \in Nat
    BY LenProperties DEF TypeOK
  <2>2. queue'[i] = IF i <= Len(queue) THEN queue[i] ELSE r[i - Len(queue)]
    BY <1>7, <1>9
  <2>3. CASE i <= Len(queue)
    BY <2>2, <2>3
  <2>4. CASE i > Len(queue)
    BY <1>8, <2>1, <2>2, <2>4
  <2>5. QED
    BY <1>4, <2>1, <2>3, <2>4
<1>11. Len(queue') = Len(queue) + n
  BY <1>7, <1>9
<1>12. Appended(n, s, states, g, k)
  BY <1>3, <1>5, <1>10, <1>11 DEF Appended
<1>13. QED
  BY <1>4, <1>12

\* A step of a worker changes only its own task, which stays with the worker
\* or ends or, when its agent class raises, is given back.
LEMMA WorkerStep ==
  ASSUME TypeOK, RunAssumption, StepInv, NEW t \in Tasks, Worker(t)
  PROVE  /\ t \in Active
         /\ \E s \in Steps, x \in TaskStates :
              /\ step' = [step EXCEPT ![t] = s]
              /\ tstate' = [tstate EXCEPT ![t] = x]
              /\ s \in {"asked", "cleared", "executing", "done", "raised"}
              /\ s = "done" => x \in FailedStates \cup {"succeeded"}
              /\ tstate[t] # "succeeded"
         /\ UNCHANGED <<phase, kind, gen, rstate, queue, dbRun, dbTask, saved>>
         /\ \A u \in Tasks \ {t} : request'[u] = request[u]
         /\ request' \in [Tasks -> RequestStates]
<1> USE DEF TypeOK, StepInv, Moves, Active, ActiveSteps, Steps, TaskStates, FailedStates,
            RequestStates, database
<1>1. CASE Prepare(t)
  BY <1>1 DEF Prepare
<1>2. CASE Decide(t)
  BY <1>2 DEF Decide, RunAssumption
<1>3. CASE Launch(t)
  BY <1>3 DEF Launch
<1>4. CASE Finish(t)
  BY <1>4 DEF Finish
<1>5. QED
  BY <1>1, <1>2, <1>3, <1>4 DEF Worker

\* RunInv holds initially and every step preserves it.
LEMMA RunInvInductive ==
  ASSUME RunAssumption, TypeOK, TypeOK', RunInv, [Next]_vars
  PROVE  RunInv'
<1> USE DEF TypeOK, RunInv
<1>1. ASSUME NEW k \in Kinds, StartCall(k)
      PROVE  RunInv'
  <2> USE <1>1 DEF StartCall, database
  <2>1. /\ Active' = {}
        /\ \A t \in Tasks : tstate'[t] \in FailedStates \cup {"pending", "succeeded"}
    BY LoadedTaskType DEF Active, ActiveSteps
  <2>2. PhaseInv'
    BY <2>1 DEF PhaseInv, Concurrent
  <2>3. StepInv'
    BY DEF StepInv
  <2>4. QueueInv'
    <3>1. CASE Concurrent
      <4>1. queue' = <<>> /\ Len(queue') = 0
        BY <3>1 DEF QueueInv
      <4>2. QED
        BY <4>1 DEF QueueInv
    <3>2. CASE ~Concurrent
      <4>1. /\ gen' \in 0..MaxCalls /\ k \in Kinds
            /\ tstate' \in [Tasks -> TaskStates]
            /\ Schedule(tstate', gen', k)
        BY <3>2
      <4>2. PICK n \in Nat : \E s \in [1..n -> Tasks] : Appended(n, s, tstate', gen', k)
        BY <4>1, ScheduleAppends
      <4>a. PICK s \in [1..n -> Tasks] : Appended(n, s, tstate', gen', k)
        BY <4>2
      <4> USE <4>a DEF Appended
      <4>3. /\ DOMAIN queue = 1..Len(queue)
            /\ DOMAIN queue' = 1..(Len(queue) + n)
            /\ Len(queue) \in Nat
            /\ \A i \in 1..Len(queue) : queue[i] \in (0..MaxCalls) \X Tasks \X Kinds
        BY <4>2, LenProperties, ElementOfSeq
      <4>4. ASSUME NEW i \in DOMAIN queue'
            PROVE  \/ /\ i \in DOMAIN queue
                      /\ queue'[i] = queue[i]
                      /\ queue[i][1] <= gen
                   \/ /\ i - Len(queue) \in 1..n
                      /\ i > Len(queue)
                      /\ queue'[i] = <<gen', s[i - Len(queue)], k>>
        <5>1. CASE i <= Len(queue)
          BY <4>2, <4>3, <5>1 DEF QueueInv
        <5>2. CASE i > Len(queue)
          BY <4>2, <4>3, <5>2
        <5>3. QED
          BY <4>3, <5>1, <5>2
      <4>5. ASSUME NEW i \in DOMAIN queue', NEW j \in DOMAIN queue',
                   queue'[i][2] = queue'[j][2]
            PROVE  i = j
        <5>1. CASE i \in DOMAIN queue /\ j \in DOMAIN queue
          BY <4>2, <4>3, <4>5, <5>1 DEF QueueInv
        <5>2. CASE i > Len(queue) /\ j > Len(queue)
          BY <4>2, <4>3, <4>4, <4>5, <5>2
        <5>3. CASE i \in DOMAIN queue /\ j > Len(queue)
          <6>1. queue'[i] = queue[i] /\ queue'[j][2] = s[j - Len(queue)] /\ j - Len(queue) \in 1..n
            BY <4>2, <4>3, <4>4, <5>3
          <6>2. ~Queued(s[j - Len(queue)])
            BY <4>2, <6>1
          <6>3. queue[i][2] = s[j - Len(queue)]
            BY <4>5, <6>1
          <6>4. QED
            BY <5>3, <6>2, <6>3 DEF Queued
        <5>4. CASE i > Len(queue) /\ j \in DOMAIN queue
          <6>1. queue'[j] = queue[j] /\ queue'[i][2] = s[i - Len(queue)] /\ i - Len(queue) \in 1..n
            BY <4>2, <4>3, <4>4, <5>4
          <6>2. ~Queued(s[i - Len(queue)])
            BY <4>2, <6>1
          <6>3. queue[j][2] = s[i - Len(queue)]
            BY <4>5, <6>1
          <6>4. QED
            BY <5>4, <6>2, <6>3 DEF Queued
        <5>5. /\ i \in DOMAIN queue \/ i > Len(queue)
              /\ j \in DOMAIN queue \/ j > Len(queue)
          BY <4>3
        <5>6. QED
          BY <5>1, <5>2, <5>3, <5>4, <5>5
      <4>6. ASSUME NEW i \in DOMAIN queue'
            PROVE  /\ queue'[i][1] <= gen'
                   /\ queue'[i][1] = gen' => /\ tstate'[queue'[i][2]] = "pending"
                                             /\ queue'[i][3] = kind'
                   /\ dbTask'[queue'[i][2]] = "succeeded" => queue'[i][3] = "rerun"
        <5>1. CASE i \in DOMAIN queue /\ queue'[i] = queue[i] /\ queue[i][1] <= gen
          <6>1. queue'[i][1] \in 0..MaxCalls /\ queue'[i][1] <= gen /\ gen \in Nat
            BY <4>3, <5>1, RunAssumption DEF RunAssumption
          <6>2. gen' = gen + 1
            OBVIOUS
          <6>3. queue'[i][1] # gen'
            BY <6>1, <6>2 DEF RunAssumption
          <6>4. dbTask[queue[i][2]] = "succeeded" => queue[i][3] = "rerun"
            BY <5>1 DEF QueueInv
          <6>5. QED
            BY <5>1, <6>1, <6>2, <6>3, <6>4 DEF RunAssumption
        <5>2. CASE i - Len(queue) \in 1..n /\ queue'[i] = <<gen', s[i - Len(queue)], k>>
          <6>1. /\ queue'[i][1] = gen' /\ queue'[i][2] = s[i - Len(queue)]
                /\ queue'[i][3] = k /\ s[i - Len(queue)] \in Tasks
            BY <5>2
          <6>2. gen' \in Nat
            BY RunAssumption DEF RunAssumption
          <6>3. tstate'[s[i - Len(queue)]] = "pending"
            BY <4>2, <5>2
          <6>4. dbTask[s[i - Len(queue)]] = "succeeded" => k = "rerun"
            BY <6>1, <6>3 DEF LoadedTask, RecoveredTask, ResumedTask, FailedStates
          <6>5. QED
            BY <6>1, <6>2, <6>3, <6>4
        <5>3. QED
          BY <4>4, <5>1, <5>2
      <4>7. QED
        BY <2>1, <3>2, <4>5, <4>6 DEF QueueInv, Concurrent
    <3>3. QED
      BY <3>1, <3>2
  <2>5. KeptInv'
    BY DEF KeptInv, LoadedTask, RecoveredTask, ResumedTask, FailedStates
  <2>6. EndInv'
    BY <2>1 DEF EndInv, Pending, TaskEnded, Concurrent
  <2>7. DependenciesFirst' /\ SavedRunIsFinished'
    BY <2>1 DEF DependenciesFirst, SavedRunIsFinished
  <2>8. QED
    BY <2>2, <2>3, <2>4, <2>5, <2>6, <2>7
<1>2. CASE FailDependents
  <2> USE <1>2 DEF FailDependents, database
  <2>1. PICK F \in SUBSET Pending :
          tstate' = [t \in Tasks |-> IF t \in F THEN "failed" ELSE tstate[t]]
    OBVIOUS
  <2>2. Active' = Active /\ Active = {} /\ Concurrent
    BY DEF Active, PhaseInv
  <2>3. PhaseInv' /\ StepInv'
    BY <2>1, <2>2 DEF PhaseInv, StepInv, Active, ActiveSteps, Concurrent
  <2>4. QueueInv'
    BY <2>2 DEF QueueInv, Concurrent
  <2>5. KeptInv'
    BY <2>1 DEF KeptInv, Pending
  <2>6. EndInv'
    BY <2>1 DEF EndInv, Pending, TaskEnded, FailedStates, Concurrent
  <2>7. DependenciesFirst' /\ SavedRunIsFinished'
    BY <2>2 DEF DependenciesFirst, SavedRunIsFinished
  <2>8. QED
    BY <2>3, <2>4, <2>5, <2>6, <2>7
<1>3. CASE SubmitBatch
  <2> USE <1>3 DEF SubmitBatch, database
  <2>1. Active = {} /\ Concurrent
    BY DEF PhaseInv
  <2>2. Batch \subseteq Ready /\ Ready \subseteq Pending
    BY DEF Batch, Ready
  <2>3. Active' = Batch
    BY <2>1, <2>2 DEF Active, ActiveSteps, Pending
  <2>4. PhaseInv'
    BY <2>1 DEF PhaseInv, Concurrent
  <2>5. StepInv'
    BY <2>2 DEF StepInv, Pending
  <2>6. QueueInv'
    BY <2>1 DEF QueueInv, Concurrent
  <2>7. KeptInv'
    BY DEF KeptInv
  <2>8. EndInv'
    BY <2>1 DEF EndInv, Pending, TaskEnded, Concurrent
  <2>9. DependenciesFirst'
    BY <2>2, <2>3 DEF DependenciesFirst, Ready, DependenciesSucceeded, Concurrent
  <2>10. SavedRunIsFinished'
    BY DEF SavedRunIsFinished
  <2>11. QED
    BY <2>4, <2>5, <2>6, <2>7, <2>8, <2>9, <2>10
<1>4. CASE FailUnresolved
  <2> USE <1>4 DEF FailUnresolved, database
  <2>1. Active = {} /\ Active' = Active /\ Concurrent
    BY DEF PhaseInv, Active
  <2>2. PhaseInv' /\ StepInv'
    BY <2>1 DEF PhaseInv, StepInv, Active, ActiveSteps, Concurrent
  <2>3. QueueInv'
    BY <2>1 DEF QueueInv, Concurrent
  <2>4. KeptInv'
    BY DEF KeptInv, Pending
  <2>5. EndInv'
    BY DEF EndInv, Pending, TaskEnded, FailedStates, Concurrent
  <2>6. DependenciesFirst' /\ SavedRunIsFinished'
    BY <2>1 DEF DependenciesFirst, SavedRunIsFinished
  <2>7. QED
    BY <2>2, <2>3, <2>4, <2>5, <2>6
<1>5. CASE EndRound \/ EndLoop \/ Abort
  <2> USE <1>5 DEF EndRound, EndLoop, Abort, memory, database
  <2>1. Active = {} /\ Active' = Active
    BY DEF PhaseInv, Active
  <2>2. PhaseInv' /\ StepInv'
    BY <2>1 DEF PhaseInv, StepInv, Concurrent
  <2>3. QueueInv'
    BY <2>1 DEF QueueInv, PhaseInv, Concurrent
  <2>4. KeptInv'
    BY DEF KeptInv
  <2>5. EndInv'
    BY <2>1 DEF EndInv, Pending, TaskEnded, Concurrent, PhaseInv
  <2>6. DependenciesFirst' /\ SavedRunIsFinished'
    BY <2>1 DEF DependenciesFirst, SavedRunIsFinished
  <2>7. QED
    BY <2>2, <2>3, <2>4, <2>5, <2>6
<1>6. CASE PopTask \/ PopAbandoned
  <2>1. queue # <<>> /\ phase = "pop" /\ Active = {} /\ ~Concurrent
    BY <1>6 DEF PopTask, PopAbandoned, PhaseInv
  <2>2. /\ Head(queue) = queue[1] /\ queue' = Tail(queue)
        /\ 1 \in DOMAIN queue
        /\ \A i \in DOMAIN queue : queue[i] \in (0..MaxCalls) \X Tasks \X Kinds
        /\ DOMAIN queue' = 1..(Len(queue) - 1)
        /\ \A i \in DOMAIN queue' : i + 1 \in DOMAIN queue /\ queue'[i] = queue[i + 1]
    <3>1. queue' = Tail(queue)
      BY <1>6 DEF PopTask, PopAbandoned
    <3>2. /\ Len(queue) \in Nat \ {0}
          /\ DOMAIN queue = 1..Len(queue)
          /\ \A i \in 1..Len(queue) : queue[i] \in (0..MaxCalls) \X Tasks \X Kinds
      BY <2>1, LenProperties, ElementOfSeq, EmptySeq
    <3>3. /\ Head(queue) = queue[1]
          /\ Tail(queue) \in Seq((0..MaxCalls) \X Tasks \X Kinds)
          /\ Len(Tail(queue)) = Len(queue) - 1
          /\ \A i \in 1..Len(Tail(queue)) : Tail(queue)[i] = queue[i + 1]
      BY <2>1, HeadTailProperties
    <3>4. DOMAIN Tail(queue) = 1..(Len(queue) - 1)
      BY <3>3, LenProperties
    <3>5. QED
      BY <3>1, <3>2, <3>3, <3>4
  <2>3. \A i, j \in DOMAIN queue' : queue'[i][2] = queue'[j][2] => i = j
    BY <2>2, LenProperties DEF QueueInv
  <2>4. \A i \in DOMAIN queue' : queue'[i][2] # Head(queue)[2]
    BY <2>2, LenProperties DEF QueueInv
  <2>5. CASE PopTask
    <3> USE <2>5 DEF PopTask, database
    <3> DEFINE t == Head(queue)[2]
    <3>1. t \in Tasks /\ tstate[t] = "pending" /\ step' = [step EXCEPT ![t] = "submitted"]
      BY <2>1, <2>2 DEF QueueInv
    <3>2. Active' = {t}
      BY <2>1, <3>1 DEF Active, ActiveSteps
    <3>3. PhaseInv'
      BY <2>1 DEF PhaseInv, Concurrent
    <3>4. StepInv'
      BY <3>1 DEF StepInv
    <3>5. QueueInv'
      BY <2>1, <2>2, <2>3, <2>4, <3>2 DEF QueueInv, Concurrent
    <3>6. KeptInv'
      BY <2>1 DEF KeptInv
    <3>7. EndInv' /\ DependenciesFirst' /\ SavedRunIsFinished'
      BY <2>1 DEF EndInv, DependenciesFirst, SavedRunIsFinished, Concurrent
    <3>8. QED
      BY <3>3, <3>4, <3>5, <3>6, <3>7
  <2>6. CASE PopAbandoned
    <3> USE <2>6 DEF PopAbandoned, database
    <3>1. Active' = {} /\ phase' \in {"pop", "idle"} /\ UNCHANGED <<kind, gen, tstate, step, dbTask>>
      BY <2>1 DEF Active
    <3>2. PhaseInv'
      BY <2>1, <3>1 DEF PhaseInv, Concurrent
    <3>3. StepInv'
      BY <2>1, <3>1 DEF StepInv, Active, ActiveSteps
    <3>4. QueueInv'
      BY <2>1, <2>2, <2>3, <3>1 DEF QueueInv, Concurrent
    <3>5. KeptInv'
      BY <2>1, <3>1 DEF KeptInv
    <3>6. EndInv' /\ DependenciesFirst' /\ (Concurrent' => SavedRunIsFinished')
      BY <2>1 DEF EndInv, DependenciesFirst, Concurrent
    <3>7. QED
      BY <3>2, <3>3, <3>4, <3>5, <3>6
  <2>7. QED
    BY <1>6, <2>5, <2>6
<1>7. ASSUME NEW t \in Tasks, Worker(t)
      PROVE  RunInv'
  <2>1. /\ t \in Active /\ phase = "round"
        /\ UNCHANGED <<phase, kind, gen, rstate, queue, dbRun, dbTask, saved>>
        /\ \A u \in Tasks \ {t} : request'[u] = request[u]
    BY <1>7, WorkerStep DEF PhaseInv
  <2>2. PICK s \in Steps, x \in TaskStates :
          /\ step' = [step EXCEPT ![t] = s]
          /\ tstate' = [tstate EXCEPT ![t] = x]
          /\ s \in {"asked", "cleared", "executing", "done", "raised"}
          /\ s = "done" => x \in FailedStates \cup {"succeeded"}
          /\ tstate[t] # "succeeded"
    BY <1>7, WorkerStep
  <2>3. Active' \subseteq Active /\ Active \subseteq Active' \cup {t}
        /\ (t \in Active' \/ s \in {"done", "raised"})
    BY <2>1, <2>2 DEF Active, ActiveSteps
  <2>4. PhaseInv'
    BY <2>1 DEF PhaseInv, Concurrent
  <2>5. StepInv'
    <3> SUFFICES ASSUME NEW u \in Tasks
                 PROVE  /\ step'[u] = "submitted" => tstate'[u] = "pending"
                        /\ step'[u] = "asked" => tstate'[u] = "waiting_approval"
                        /\ step'[u] = "cleared" => tstate'[u] \in {"pending", "running"}
                        /\ step'[u] = "executing" => tstate'[u] = "running"
                        /\ (u \in NeedsApproval /\ step'[u] \in {"cleared", "executing"})
                             => request'[u] = "approved"
      BY DEF StepInv
    <3>1. CASE u = t
      BY <1>7, <3>1 DEF Worker, Prepare, Decide, Launch, Finish, Moves, StepInv
    <3>2. CASE u # t
      BY <2>1, <2>2, <3>2 DEF StepInv
    <3>3. QED
      BY <3>1, <3>2
  <2>6. QueueInv'
    <3>1. \A i \in DOMAIN queue : queue[i][1] = gen => queue[i][2] # t
      BY <2>1 DEF QueueInv
    <3>2. \A i \in DOMAIN queue : queue[i] \in (0..MaxCalls) \X Tasks \X Kinds
      BY ElementOfSeq, LenProperties
    <3>3. QED
      BY <2>1, <2>2, <2>3, <3>1, <3>2 DEF QueueInv, Concurrent
  <2>7. KeptInv'
    BY <2>1, <2>2 DEF KeptInv
  <2>8. EndInv'
    BY <2>1, <2>2, <2>3 DEF EndInv, Pending, TaskEnded, Concurrent
  <2>9. DependenciesFirst'
    BY <2>2, <2>3 DEF DependenciesFirst, DependenciesSucceeded, Concurrent
  <2>10. SavedRunIsFinished'
    BY <2>1 DEF SavedRunIsFinished
  <2>11. QED
    BY <2>4, <2>5, <2>6, <2>7, <2>8, <2>9, <2>10
<1>8. CASE SaveRun
  <2> USE <1>8 DEF SaveRun
  <2>1. Active = {} /\ Active' = Active
    BY DEF PhaseInv, Active
  <2>2. PhaseInv' /\ StepInv' /\ QueueInv' /\ KeptInv' /\ DependenciesFirst'
    BY <2>1 DEF PhaseInv, StepInv, QueueInv, KeptInv, DependenciesFirst, Concurrent
  <2>3. EndInv'
    BY DEF EndInv, TaskEnded, Concurrent
  <2>4. (Concurrent => SavedRunIsFinished)'
    <3> SUFFICES ASSUME Concurrent PROVE SavedRunIsFinished'
      BY DEF Concurrent
    <3>1. \A t \in Tasks : tstate[t] \in FailedStates \cup {"succeeded"}
      BY DEF EndInv, TaskEnded
    <3>2. /\ Verdict \in {"succeeded", "failed", "cancelled"}
          /\ Verdict = "succeeded" <=> \A t \in Tasks : tstate[t] = "succeeded"
      BY <3>1 DEF Verdict, FailedStates
    <3>3. QED
      BY <3>1, <3>2 DEF SavedRunIsFinished, TaskEnded
  <2>5. QED
    BY <2>2, <2>3, <2>4
<1>9. CASE SaveTask
  <2> USE <1>9 DEF SaveTask, memory
  <2>1. Active = {} /\ Active' = Active
    BY DEF PhaseInv, Active
  <2>2. PhaseInv' /\ StepInv' /\ QueueInv' /\ DependenciesFirst'
    BY <2>1 DEF PhaseInv, StepInv, QueueInv, DependenciesFirst, Concurrent
  <2>3. KeptInv'
    BY DEF KeptInv, Tasks
  <2>4. EndInv' /\ (Concurrent => SavedRunIsFinished)'
    BY DEF EndInv, SavedRunIsFinished, TaskEnded, Concurrent
  <2>5. QED
    BY <2>2, <2>3, <2>4
<1>10. CASE Human
  <2>1. PICK u \in Tasks : \E d \in {"approved", "rejected"} : HumanDecides(u, d)
    BY <1>10 DEF Human
  <2> USE <2>1 DEF HumanDecides, database
  <2>2. StepInv'
    BY DEF StepInv
  <2>3. PhaseInv' /\ QueueInv' /\ KeptInv' /\ DependenciesFirst'
    BY DEF PhaseInv, QueueInv, KeptInv, DependenciesFirst, DependenciesSucceeded, Active, Concurrent
  <2>4. EndInv' /\ (Concurrent => SavedRunIsFinished)'
    BY DEF EndInv, SavedRunIsFinished, TaskEnded, Pending, Active, Concurrent
  <2>5. QED
    BY <2>2, <2>3, <2>4
<1>11. CASE Crash
  <2> USE <1>11 DEF Crash, database
  <2>1. Active' = {} /\ DOMAIN queue' = {}
    BY DEF Active, ActiveSteps
  <2>2. PhaseInv' /\ StepInv' /\ QueueInv' /\ KeptInv'
    BY <2>1 DEF PhaseInv, StepInv, QueueInv, KeptInv, Concurrent
  <2>3. EndInv' /\ DependenciesFirst' /\ SavedRunIsFinished'
    BY <2>1 DEF EndInv, DependenciesFirst, SavedRunIsFinished, Concurrent
  <2>4. QED
    BY <2>2, <2>3
<1>12. CASE UNCHANGED vars
  BY <1>12 DEF vars, memory, database, PhaseInv, StepInv, QueueInv, KeptInv, EndInv,
     DependenciesFirst, DependenciesSucceeded, SavedRunIsFinished, TaskEnded, Pending, Active,
     Concurrent
<1>13. QED
  BY <1>1, <1>2, <1>3, <1>4, <1>5, <1>6, <1>7, <1>8, <1>9, <1>10, <1>11, <1>12
     DEF Next, Engine, Caller

\* The inductive invariant holds in every reachable state.
THEOREM RunInvariant == Spec => [](TypeOK /\ RunInv)
<1> USE RunAssumption
<1>1. Init => RunInv
  BY DEF Init, RunInv, PhaseInv, StepInv, QueueInv, KeptInv, EndInv, DependenciesFirst,
     SavedRunIsFinished, Active, ActiveSteps
<1>2. TypeOK /\ TypeOK' /\ RunInv /\ [Next]_vars => RunInv'
  BY RunInvInductive
<1>3. QED
  BY <1>1, <1>2, TypeCorrect, PTL DEF Spec

-----------------------------------------------------------------------------
(* What it yields *)

\* In a concurrent run no task is in a worker's hands before everything it
\* depends on has succeeded.
THEOREM DependenciesComeFirst == Spec => []DependenciesFirst
<1>1. RunInv => DependenciesFirst
  BY DEF RunInv
<1>2. QED
  BY <1>1, RunInvariant, PTL

\* No agent executes a task whose approval was not given.
THEOREM ExecutionIsApproved == Spec => []ApprovedBeforeExecution
<1>1. RunInv => ApprovedBeforeExecution
  BY RunAssumption DEF RunInv, StepInv, ApprovedBeforeExecution, RunAssumption
<1>2. QED
  BY <1>1, RunInvariant, PTL

\* A concurrent run is saved only when it is finished, with the right verdict.
THEOREM ConcurrentRunsFinish == ASSUME Concurrent PROVE Spec => []SavedRunIsFinished
<1>1. RunInv => SavedRunIsFinished
  BY DEF RunInv
<1>2. QED
  BY <1>1, RunInvariant, PTL

\* A task that is saved as succeeded is handed to a worker again only by a full
\* rerun, and popped only as an object that a full rerun left in the queue.
THEOREM SucceededTasksAreKept == Spec => SavedWorkIsKept
<1>1. ASSUME TypeOK, RunInv, [Next]_vars, NEW t \in Tasks,
             step[t] # "submitted", step'[t] = "submitted", dbTask[t] = "succeeded"
      PROVE  kind = "rerun"
  <2> USE <1>1 DEF TypeOK, RunInv
  <2>1. CASE SubmitBatch
    <3>1. t \in Pending
      BY <2>1 DEF SubmitBatch, Batch, Ready
    <3>2. QED
      BY <2>1, <3>1 DEF SubmitBatch, Pending, KeptInv
  <2>2. CASE PopTask
    <3>1. /\ 1 \in DOMAIN queue
          /\ Head(queue) = queue[1]
          /\ Head(queue) \in (0..MaxCalls) \X Tasks \X Kinds
      BY <2>2, HeadTailProperties, LenProperties, EmptySeq DEF PopTask
    <3>2. t = Head(queue)[2] /\ Head(queue)[1] = gen /\ phase = "pop"
      BY <2>2, <3>1 DEF PopTask
    <3>3. tstate[t] = "pending"
      BY <3>1, <3>2 DEF QueueInv
    <3>4. QED
      BY <3>2, <3>3 DEF KeptInv
  <2>3. CASE \E k \in Kinds : StartCall(k)
    BY <2>3 DEF StartCall
  <2>4. CASE \E u \in Tasks : Worker(u)
    BY <2>4 DEF Worker, Prepare, Decide, Launch, Finish, Moves
  <2>5. CASE \/ FailDependents \/ FailUnresolved \/ EndRound \/ EndLoop \/ Abort
             \/ PopAbandoned \/ SaveRun \/ SaveTask \/ Human \/ Crash \/ UNCHANGED vars
    BY <2>5 DEF FailDependents, FailUnresolved, EndRound, EndLoop, Abort, PopAbandoned, SaveRun,
       SaveTask, Human, HumanDecides, Crash, vars, memory
  <2>6. QED
    BY <2>1, <2>2, <2>3, <2>4, <2>5 DEF Next, Engine, Caller
<1>2. ASSUME TypeOK, RunInv, queue # <<>>, dbTask[Head(queue)[2]] = "succeeded"
      PROVE  Head(queue)[3] = "rerun"
  <2>1. 1 \in DOMAIN queue /\ Head(queue) = queue[1]
    BY <1>2, HeadTailProperties, LenProperties, EmptySeq DEF TypeOK
  <2>2. QED
    BY <1>2, <2>1 DEF RunInv, QueueInv
<1>3. TypeOK /\ RunInv /\ [Next]_vars =>
        [/\ \A t \in Tasks :
              (step[t] # "submitted" /\ step'[t] = "submitted" /\ dbTask[t] = "succeeded")
                => kind = "rerun"
         /\ (phase = "pop" /\ queue # <<>> /\ queue' = Tail(queue)
                /\ dbTask[Head(queue)[2]] = "succeeded")
              => Head(queue)[3] = "rerun"]_vars
  BY <1>1, <1>2
<1>4. QED
  BY <1>3, RunInvariant, PTL DEF Spec, SavedWorkIsKept

\* Within a call, a task is failed without being executed only if it is doomed
\* or no agent has its capability.
THEOREM SkippedTasksAreDoomed == Spec => OnlyDoomedAreSkipped
<1>1. ASSUME TypeOK, RunInv, [Next]_vars, NEW t \in Tasks,
             phase # "idle", tstate[t] = "pending", tstate'[t] = "failed"
      PROVE  Doomed(t) \/ t \notin Capable
  <2> USE <1>1 DEF TypeOK, RunInv
  <2>1. CASE FailDependents
    <3>1. PICK F \in SUBSET Pending :
            /\ IsFailPass(F)
            /\ tstate' = [u \in Tasks |-> IF u \in F THEN "failed" ELSE tstate[u]]
      BY <2>1 DEF FailDependents
    <3>2. t \in F
      BY <3>1
    <3>3. \A s \in F : \E d \in Deps[s] : d \in F \/ tstate[d] \in FailedStates
      BY <3>1 DEF IsFailPass
    <3>4. QED
      BY <3>2, <3>3 DEF Doomed
  <2>2. CASE FailUnresolved
    <3>1. phase = "submit" /\ Ready = {} /\ Concurrent
      BY <2>2 DEF FailUnresolved, PhaseInv
    <3>2. ASSUME NEW s \in Pending
          PROVE  \E d \in Deps[s] : d \in Pending \/ d \notin Tasks \/ tstate[d] \in FailedStates
      <4>1. PICK d \in Deps[s] : d \notin {u \in Tasks : tstate[u] = "succeeded"}
        BY <3>1 DEF Ready, DependenciesSucceeded
      <4>2. QED
        BY <3>1, <4>1 DEF EndInv, TaskEnded, Pending
    <3>3. t \in Pending
      BY DEF Pending
    <3>4. QED
      BY <3>2, <3>3 DEF Doomed
  <2>3. CASE \E u \in Tasks : Worker(u)
    BY <2>3 DEF Worker, Prepare, Decide, Launch, Finish, Moves, StepInv
  <2>4. CASE \/ SubmitBatch \/ EndRound \/ EndLoop \/ Abort \/ PopTask \/ PopAbandoned
             \/ SaveRun \/ SaveTask \/ Human \/ Crash \/ UNCHANGED vars
    BY <2>4 DEF SubmitBatch, EndRound, EndLoop, Abort, PopTask, PopAbandoned, SaveRun, SaveTask,
       Human, HumanDecides, Crash, vars, memory
  <2>5. CASE Caller
    BY <2>5 DEF Caller, StartCall
  <2>6. QED
    BY <2>1, <2>2, <2>3, <2>4, <2>5 DEF Next, Engine
<1>2. TypeOK /\ RunInv /\ [Next]_vars =>
        [\A t \in Tasks :
           (phase # "idle" /\ tstate[t] = "pending" /\ tstate'[t] = "failed")
             => Doomed(t) \/ t \notin Capable]_vars
  BY <1>1
<1>3. QED
  BY <1>2, RunInvariant, PTL DEF Spec, OnlyDoomedAreSkipped

\* With no automatic decision configured, what a human decided about a request
\* stands until the task asks anew, an abandoned object of it is executed, or the
\* call breaks off.
THEOREM DecisionsAreFinal == Spec => DecisionIsFinal
<1> DEFINE Stands(t) ==
      AutoApprove = "ask" /\ request[t] \in {"approved", "rejected"} =>
        \/ request'[t] = request[t]
        \/ step[t] = "submitted" /\ step'[t] = "asked"
        \/ phase = "pop" /\ queue # <<>> /\ Head(queue)[1] # gen /\ Head(queue)[2] = t
        \/ phase # "idle" /\ phase' = "idle"
<1>1. ASSUME TypeOK, [Next]_vars, NEW t \in Tasks
      PROVE  Stands(t)
  <2> USE <1>1 DEF TypeOK
  <2>1. CASE \E u \in Tasks : Worker(u)
    <3>1. PICK u \in Tasks : Worker(u)
      BY <2>1
    <3>2. CASE Prepare(u)
      BY <3>2 DEF Prepare, Moves, Steps
    <3>3. CASE Decide(u)
      BY <3>3 DEF Decide
    <3>4. CASE Launch(u) \/ Finish(u)
      BY <3>4 DEF Launch, Finish
    <3>5. QED
      BY <3>1, <3>2, <3>3, <3>4 DEF Worker
  <2>2. CASE PopAbandoned
    BY <2>2 DEF PopAbandoned
  <2>3. CASE Human
    BY <2>3 DEF Human, HumanDecides
  <2>4. CASE Crash
    BY <2>4 DEF Crash
  <2>5. CASE \/ FailDependents \/ SubmitBatch \/ FailUnresolved \/ EndRound \/ EndLoop \/ Abort
             \/ PopTask \/ SaveRun \/ SaveTask \/ Caller \/ UNCHANGED vars
    <3>1. request' = request
      BY <2>5 DEF FailDependents, SubmitBatch, FailUnresolved, EndRound, EndLoop, Abort, PopTask,
         SaveRun, SaveTask, Caller, StartCall, vars, memory
    <3>2. QED
      BY <3>1
  <2>6. QED
    BY <2>1, <2>2, <2>3, <2>4, <2>5 DEF Next, Engine
<1>2. TypeOK /\ [Next]_vars => [\A t \in Tasks : Stands(t)]_vars
  BY <1>1
<1>3. QED
  BY <1>2, TypeCorrect, PTL DEF Spec, DecisionIsFinal

-----------------------------------------------------------------------------
(* Behaviours in which no agent class aborts a call *)

\* No agent class has raised in the current call.
NoRaise == \A t \in Tasks : step[t] # "raised"

\* Without aborted calls the queue of the sequential engine belongs to the call
\* in progress and misses no task, so the loop ends when every task has ended.
UndisturbedQueue ==
  ~Concurrent =>
    /\ phase \in {"idle", "save", "saving"} => queue = <<>>
    /\ phase # "idle" => \A i \in DOMAIN queue : queue[i][1] = gen
    /\ phase \in {"pop", "round"} =>
         \A t \in Tasks : TaskEnded(t) \/ t \in Active \/ (t \in Pending /\ Queued(t))
    /\ phase \in {"save", "saving"} => \A t \in Tasks : TaskEnded(t)

\* What a save has written so far is what is in memory, and a succeeded run is
\* complete in the database except in the middle of a save.
DatabaseInv ==
  /\ phase = "saving" =>
       /\ saved < NumTasks
       /\ dbRun = rstate
       /\ \A t \in 1..saved : dbTask[t] = tstate[t]
  /\ (phase # "saving" /\ saved = NumTasks /\ dbRun = "succeeded")
       => \A t \in Tasks : dbTask[t] = "succeeded"

UndisturbedInv == UndisturbedQueue /\ DatabaseInv /\ SavedRunIsFinished

\* Scheduling on an empty queue queues every pending task, for this call.
LEMMA ScheduleQueuesAll ==
  ASSUME TypeOK, RunAssumption, queue = <<>>, NEW g \in 0..MaxCalls, NEW k \in Kinds,
         NEW states \in [Tasks -> TaskStates], Schedule(states, g, k)
  PROVE  /\ \A i \in DOMAIN queue' : queue'[i][1] = g
         /\ \A t \in Tasks : states[t] = "pending" => Queued(t)'
<1> DEFINE F == {t \in Tasks : states[t] = "pending" /\ ~Queued(t)}
<1>1. PICK s \in InListOrder(F) : queue' = queue \o [i \in DOMAIN s |-> <<g, s[i], k>>]
  BY DEF Schedule
<1>2. PICK n \in 0..NumTasks : s \in [1..n -> F]
  BY <1>1 DEF InListOrder
<1>3. n \in Nat /\ DOMAIN s = 1..n /\ \A i \in 1..n : s[i] \in Tasks
  BY <1>2 DEF RunAssumption
<1> DEFINE r == [i \in DOMAIN s |-> <<g, s[i], k>>]
<1>4. r \in Seq((0..MaxCalls) \X Tasks \X Kinds)
  BY <1>3, SeqDef
<1>5. queue' = r
  BY <1>1, <1>4, ConcatEmptySeq
<1>6. \A t \in F : \E i \in DOMAIN s : s[i] = t
  BY <1>1 DEF InListOrder
<1>7. DOMAIN queue' = DOMAIN s /\ \A i \in DOMAIN s : queue'[i][1] = g /\ queue'[i][2] = s[i]
  BY <1>5
<1>8. \A t \in Tasks : ~Queued(t)
  BY DEF Queued
<1>9. QED
  BY <1>6, <1>7, <1>8 DEF Queued

\* Without an aborted call every step preserves the invariant of such calls.
LEMMA UndisturbedInductive ==
  ASSUME RunAssumption, TypeOK, TypeOK', RunInv, NoRaise, NoRaise', UndisturbedInv, [Next]_vars
  PROVE  UndisturbedInv'
<1> USE DEF TypeOK, UndisturbedInv
<1>1. ASSUME NEW k \in Kinds, StartCall(k)
      PROVE  UndisturbedInv'
  <2> USE <1>1 DEF StartCall, database
  <2>1. UndisturbedQueue'
    <3> SUFFICES ASSUME ~Concurrent PROVE UndisturbedQueue'
      BY DEF UndisturbedQueue, Concurrent
    <3>1. queue = <<>> /\ Schedule(tstate', gen', k) /\ phase' = "pop" /\ gen' \in 0..MaxCalls
      BY DEF UndisturbedQueue
    <3>2. /\ \A i \in DOMAIN queue' : queue'[i][1] = gen'
          /\ \A t \in Tasks : tstate'[t] = "pending" => Queued(t)'
      BY <3>1, ScheduleQueuesAll
    <3>3. \A t \in Tasks : tstate'[t] \in FailedStates \cup {"pending", "succeeded"}
      BY LoadedTaskType
    <3>4. QED
      BY <3>1, <3>2, <3>3 DEF UndisturbedQueue, TaskEnded, Pending
  <2>2. DatabaseInv' /\ SavedRunIsFinished'
    BY DEF DatabaseInv, SavedRunIsFinished
  <2>3. QED
    BY <2>1, <2>2
<1>2. CASE FailDependents \/ SubmitBatch \/ FailUnresolved
  <2>1. Concurrent /\ phase' \in {"submit", "round", "save"} /\ phase # "saving" /\ UNCHANGED database
    BY <1>2 DEF FailDependents, SubmitBatch, FailUnresolved, RunInv, PhaseInv
  <2>2. QED
    BY <2>1 DEF UndisturbedQueue, DatabaseInv, SavedRunIsFinished, Concurrent, database
<1>3. CASE EndRound
  <2> USE <1>3 DEF EndRound, memory, database
  <2>1. UndisturbedQueue'
    BY DEF UndisturbedQueue, TaskEnded, Pending, Active, Queued, Concurrent
  <2>2. DatabaseInv' /\ SavedRunIsFinished'
    BY DEF DatabaseInv, SavedRunIsFinished
  <2>3. QED
    BY <2>1, <2>2
<1>4. CASE EndLoop
  <2> USE <1>4 DEF EndLoop, memory, database
  <2>1. UndisturbedQueue'
    <3> SUFFICES ASSUME ~Concurrent PROVE UndisturbedQueue'
      BY DEF UndisturbedQueue, Concurrent
    <3>1. phase = "pop" /\ queue = <<>> /\ Active = {}
      BY DEF RunInv, PhaseInv
    <3>2. \A t \in Tasks : TaskEnded(t)
      BY <3>1 DEF UndisturbedQueue, Queued
    <3>3. QED
      BY <3>1, <3>2 DEF UndisturbedQueue, TaskEnded
  <2>2. DatabaseInv' /\ SavedRunIsFinished'
    BY DEF DatabaseInv, SavedRunIsFinished
  <2>3. QED
    BY <2>1, <2>2
<1>5. CASE Abort
  BY <1>5 DEF Abort, NoRaise
<1>6. CASE PopTask
  <2> USE <1>6 DEF PopTask, database
  <2> DEFINE t == Head(queue)[2]
  <2>1. phase = "pop" /\ queue # <<>> /\ ~Concurrent /\ Active = {}
    BY DEF RunInv, PhaseInv
  <2>2. /\ Head(queue) = queue[1] /\ queue' = Tail(queue)
        /\ Head(queue) \in (0..MaxCalls) \X Tasks \X Kinds
        /\ Len(queue) \in Nat
        /\ DOMAIN queue = 1..Len(queue)
        /\ DOMAIN queue' = 1..(Len(queue) - 1)
        /\ \A i \in 1..(Len(queue) - 1) : queue'[i] = queue[i + 1]
    BY <2>1, HeadTailProperties, LenProperties
  <2>3. \A i \in DOMAIN queue' : i + 1 \in DOMAIN queue /\ queue'[i] = queue[i + 1]
    BY <2>2
  <2>4. \A u \in Tasks : Queued(u) => u = t \/ Queued(u)'
    <3> SUFFICES ASSUME NEW u \in Tasks, NEW i \in DOMAIN queue, queue[i][2] = u, u # t
                 PROVE  Queued(u)'
      BY DEF Queued
    <3>1. i # 1 /\ i \in 1..Len(queue)
      BY <2>2
    <3>2. i - 1 \in DOMAIN queue' /\ queue'[i - 1] = queue[i]
      BY <2>2, <3>1
    <3>3. QED
      BY <3>2 DEF Queued
  <2>5. t \in Tasks /\ t \in Active'
    BY <2>2 DEF Active, ActiveSteps
  <2>6. UndisturbedQueue'
    BY <2>1, <2>3, <2>4, <2>5 DEF UndisturbedQueue, TaskEnded, Pending
  <2>7. DatabaseInv' /\ SavedRunIsFinished'
    BY DEF DatabaseInv, SavedRunIsFinished
  <2>8. QED
    BY <2>6, <2>7
<1>7. CASE PopAbandoned
  <2>1. phase = "pop" /\ queue # <<>> /\ Head(queue)[1] # gen /\ ~Concurrent
    BY <1>7 DEF PopAbandoned, RunInv, PhaseInv
  <2>2. 1 \in DOMAIN queue /\ Head(queue) = queue[1]
    BY <2>1, HeadTailProperties, LenProperties, EmptySeq
  <2>3. QED
    BY <2>1, <2>2 DEF UndisturbedQueue
<1>8. ASSUME NEW t \in Tasks, Worker(t)
      PROVE  UndisturbedInv'
  <2>1. /\ t \in Active /\ phase = "round"
        /\ UNCHANGED <<phase, gen, rstate, queue, dbRun, dbTask, saved>>
    BY <1>8, WorkerStep DEF RunInv, PhaseInv
  <2>2. PICK s \in Steps, x \in TaskStates :
          /\ step' = [step EXCEPT ![t] = s]
          /\ tstate' = [tstate EXCEPT ![t] = x]
          /\ s \in {"asked", "cleared", "executing", "done", "raised"}
          /\ s = "done" => x \in FailedStates \cup {"succeeded"}
    BY <1>8, WorkerStep DEF RunInv
  <2>3. s # "raised"
    BY <2>2 DEF NoRaise
  <2>4. TaskEnded(t)' \/ t \in Active'
    BY <2>2, <2>3 DEF TaskEnded, Active, ActiveSteps
  <2>5. \A u \in Tasks \ {t} :
          TaskEnded(u)' = TaskEnded(u) /\ (u \in Active') = (u \in Active)
            /\ (u \in Pending') = (u \in Pending)
    BY <2>2 DEF TaskEnded, Active, Pending
  <2>6. \A u \in Tasks : Queued(u)' = Queued(u)
    BY <2>1 DEF Queued
  <2>7. UndisturbedQueue'
    BY <2>1, <2>4, <2>5, <2>6 DEF UndisturbedQueue, Concurrent
  <2>8. DatabaseInv' /\ SavedRunIsFinished'
    BY <2>1 DEF DatabaseInv, SavedRunIsFinished
  <2>9. QED
    BY <2>7, <2>8
<1>9. CASE SaveRun
  <2> USE <1>9 DEF SaveRun
  <2>1. \A t \in Tasks : TaskEnded(t)
    BY DEF UndisturbedQueue, RunInv, EndInv
  <2>2. /\ Verdict \in {"succeeded", "failed", "cancelled"}
        /\ Verdict = "succeeded" <=> \A t \in Tasks : tstate[t] = "succeeded"
    BY <2>1 DEF Verdict, TaskEnded, FailedStates
  <2>3. UndisturbedQueue' /\ SavedRunIsFinished'
    BY <2>1, <2>2 DEF UndisturbedQueue, SavedRunIsFinished, TaskEnded, Concurrent
  <2>4. DatabaseInv'
    BY RunAssumption DEF DatabaseInv, RunAssumption
  <2>5. QED
    BY <2>3, <2>4
<1>10. CASE SaveTask
  <2> USE <1>10 DEF SaveTask, memory
  <2>1. UndisturbedQueue' /\ SavedRunIsFinished'
    BY DEF UndisturbedQueue, SavedRunIsFinished, TaskEnded, Concurrent
  <2>2. /\ saved + 1 \in Tasks
        /\ saved' = saved + 1
        /\ dbTask' = [dbTask EXCEPT ![saved + 1] = tstate[saved + 1]]
        /\ UNCHANGED <<dbRun, rstate, tstate>>
        /\ phase = "saving"
        /\ phase' = IF saved + 1 = NumTasks THEN "idle" ELSE "saving"
    BY RunAssumption DEF RunAssumption, Tasks
  <2>3. \A t \in 1..saved' : t \in Tasks /\ dbTask'[t] = tstate[t]
    <3> SUFFICES ASSUME NEW t \in 1..(saved + 1) PROVE t \in Tasks /\ dbTask'[t] = tstate[t]
      BY <2>2
    <3>1. t \in Tasks /\ (t = saved + 1 \/ t \in 1..saved)
      BY <2>2, RunAssumption DEF RunAssumption, Tasks
    <3>2. QED
      BY <2>2, <3>1 DEF DatabaseInv
  <2>4. DatabaseInv'
    <3>1. CASE saved + 1 = NumTasks
      <4>1. phase' = "idle" /\ \A t \in Tasks : dbTask'[t] = tstate[t]
        BY <2>2, <2>3, <3>1 DEF Tasks
      <4>2. dbRun' = "succeeded" => \A t \in Tasks : tstate[t] = "succeeded"
        BY <2>2 DEF DatabaseInv, SavedRunIsFinished
      <4>3. QED
        BY <4>1, <4>2 DEF DatabaseInv
    <3>2. CASE saved + 1 # NumTasks
      <4>1. saved' < NumTasks
        BY <2>2, <3>2, RunAssumption DEF DatabaseInv, RunAssumption
      <4>2. QED
        BY <2>2, <2>3, <3>2, <4>1 DEF DatabaseInv
    <3>3. QED
      BY <3>1, <3>2
  <2>5. QED
    BY <2>1, <2>4
<1>11. CASE Human
  <2>1. UNCHANGED <<phase, kind, gen, rstate, tstate, step, queue, dbRun, dbTask, saved>>
    BY <1>11 DEF Human, HumanDecides, database
  <2>2. QED
    BY <2>1 DEF UndisturbedQueue, DatabaseInv, SavedRunIsFinished, TaskEnded, Pending, Active,
       Queued, Concurrent
<1>12. CASE Crash
  BY <1>12 DEF Crash, database, UndisturbedQueue, DatabaseInv, SavedRunIsFinished, Concurrent
<1>13. CASE UNCHANGED vars
  BY <1>13 DEF vars, memory, database, UndisturbedQueue, DatabaseInv, SavedRunIsFinished,
     TaskEnded, Pending, Active, Queued, Concurrent
<1>14. QED
  BY <1>1, <1>2, <1>3, <1>4, <1>5, <1>6, <1>7, <1>8, <1>9, <1>10, <1>11, <1>12, <1>13
     DEF Next, Engine, Caller

\* In a behaviour without aborted calls the invariant always holds.
LEMMA UndisturbedInvariant == Spec /\ []NoRaise => []UndisturbedInv
<1> USE RunAssumption
<1>1. Init => UndisturbedInv
  BY DEF Init, UndisturbedInv, UndisturbedQueue, DatabaseInv, SavedRunIsFinished
<1>2. /\ TypeOK /\ TypeOK' /\ RunInv /\ NoRaise /\ NoRaise' /\ UndisturbedInv
      /\ [Next]_vars
      => UndisturbedInv'
  BY UndisturbedInductive
<1>3. QED
  BY <1>1, <1>2, TypeCorrect, RunInvariant, PTL DEF Spec

\* As long as no agent class aborts a call, whatever crashes cut calls short, both
\* engines save only finished runs with the right verdict, and a run the database
\* shows as succeeded has every task succeeded unless its last save was cut short.
THEOREM UndisturbedRunsComplete == Spec => UndisturbedRunsAreComplete
<1>1. UndisturbedInv => SavedRunIsFinished /\ SucceededRunIsComplete
  BY DEF UndisturbedInv, DatabaseInv, SucceededRunIsComplete
<1>2. NoRaise <=> \A t \in Tasks : step[t] # "raised"
  BY DEF NoRaise
<1>3. QED
  BY <1>1, <1>2, UndisturbedInvariant, PTL DEF UndisturbedRunsAreComplete

-----------------------------------------------------------------------------
(* The contract of RunContract *)

\* A round has at most MaxConcurrency tasks.
LEMMA BatchSize ==
  ASSUME RunAssumption
  PROVE  IsFiniteSet(Batch) /\ Cardinality(Batch) <= MaxConcurrency
<1> DEFINE Before(t) == {u \in Ready : u < t}
           rank == [t \in Batch |-> Cardinality(Before(t))]
<1>1. IsFiniteSet(Ready) /\ Ready \subseteq Tasks
  <2>1. IsFiniteSet(Tasks)
    BY FS_Interval DEF Tasks, RunAssumption
  <2>2. Ready \subseteq Tasks
    BY DEF Ready, Pending
  <2>3. QED
    BY <2>1, <2>2, FS_Subset
<1>a. \A t \in Ready : t \in Int
  <2>1. Tasks \subseteq Int
    BY DEF Tasks, RunAssumption
  <2>2. QED
    BY <1>1, <2>1
<1>2. \A t \in Ready : IsFiniteSet(Before(t)) /\ Cardinality(Before(t)) \in Nat
  BY <1>1, FS_Subset, FS_CardinalityType
<1>3. ASSUME NEW t \in Ready, NEW v \in Ready, t < v
      PROVE  Cardinality(Before(t)) < Cardinality(Before(v))
  <2>2. Before(t) \subseteq Before(v) /\ t \in Before(v) /\ t \notin Before(t)
    BY <1>a, <1>3
  <2>3. /\ Cardinality(Before(t)) <= Cardinality(Before(v))
        /\ Cardinality(Before(v)) = Cardinality(Before(t)) => Before(v) = Before(t)
    BY <1>2, <2>2, FS_Subset
  <2>4. QED
    BY <1>2, <2>2, <2>3
<1>4. /\ \A t \in Batch : t \in Ready /\ Cardinality(Before(t)) < MaxConcurrency
      /\ MaxConcurrency \in Nat \ {0}
  BY DEF Batch, RunAssumption
<1> HIDE DEF Before
<1>5. rank \in [Batch -> 0..(MaxConcurrency - 1)]
  BY <1>2, <1>4
<1>6. \A t, v \in Batch : rank[t] = rank[v] => t = v
  <2> SUFFICES ASSUME NEW t \in Batch, NEW v \in Batch, t # v PROVE rank[t] # rank[v]
    OBVIOUS
  <2>1. t < v \/ v < t
    BY <1>a, <1>4
  <2>2. QED
    BY <1>2, <1>3, <1>4, <2>1
<1>7. rank \in Injection(Batch, 0..(MaxConcurrency - 1))
  BY <1>5, <1>6, Fun_IsInj
<1>8. /\ IsFiniteSet(0..(MaxConcurrency - 1))
      /\ Cardinality(0..(MaxConcurrency - 1)) = MaxConcurrency
  BY <1>4, FS_Interval
<1>9. QED
  BY <1>7, <1>8, FS_Injection

\* The contract sees a task in a worker's hands as active, and any other as its
\* state says; it sees of the database what a later call will find.
StatusFacts ==
  /\ ContractStatus \in [Tasks -> {"waiting", "active", "ok", "failed"}]
  /\ \A t \in Tasks :
       /\ ContractStatus[t] = "active" <=> t \in Active
       /\ ContractStatus[t] = "ok" <=> t \notin Active /\ tstate[t] = "succeeded"
       /\ ContractStatus[t] = "failed" <=> t \notin Active /\ tstate[t] \in FailedStates

\* They hold in every state.
LEMMA StatusFactsHold == StatusFacts
BY DEF StatusFacts, ContractStatus, Active, FailedStates

\* Once the loop of a call is over, every task has ended.
EndedWhenSaving == phase \in {"save", "saving"} => \A t \in Tasks : TaskEnded(t)

\* A call that starts maps to Open.
LEMMA StartIsOpen ==
  ASSUME TypeOK, NEW k \in Kinds, StartCall(k)
  PROVE  Contract!Open
<1> DEFINE retried == CASE k = "run"    -> {}
                        [] k = "resume" -> {"failed"}
                        [] k = "rerun"  -> {"ok", "failed"}
<1>1. /\ retried \in SUBSET Contract!Ended
      /\ "ok" \in retried => "failed" \in retried
  BY DEF Contract!Ended, Kinds
<1>2. ASSUME NEW t \in Tasks
      PROVE  ContractStatus'[t] = IF ContractKept[t] \in retried THEN "waiting" ELSE ContractKept[t]
  <2>1. dbTask[t] \in TaskStates
    BY DEF TypeOK
  <2>2. step'[t] = "none" /\ tstate'[t] = LoadedTask(k, t)
    BY DEF StartCall
  <2>3. ContractStatus'[t] = IF tstate'[t] = "succeeded" THEN "ok"
                             ELSE IF tstate'[t] \in FailedStates THEN "failed" ELSE "waiting"
    BY <2>2 DEF ContractStatus, ActiveSteps
  <2>4. ContractKept[t] = IF dbTask[t] = "succeeded" THEN "ok"
                          ELSE IF dbTask[t] \in FailedStates THEN "failed" ELSE "waiting"
    BY DEF ContractKept
  <2>5. QED
    BY <2>1, <2>2, <2>3, <2>4 DEF LoadedTask, ResumedTask, RecoveredTask, FailedStates, TaskStates, Kinds
<1>3. ContractStatus' =
        [t \in Tasks |-> IF ContractKept[t] \in retried THEN "waiting" ELSE ContractKept[t]]
  BY <1>2 DEF ContractStatus
<1>4. /\ ~(phase # "idle")
      /\ phase' # "idle"
      /\ ContractKept' = ContractKept
  BY DEF StartCall, database, ContractKept
<1> HIDE DEF retried
<1>5. QED
  BY <1>1, <1>3, <1>4 DEF Contract!Open

\* A batch or a popped task maps to Start.
LEMMA BatchIsStart ==
  ASSUME RunAssumption, TypeOK, phase # "idle", phase' # "idle", Active = {},
         NEW B \in SUBSET Pending, B # {},
         \A t \in B : ContractDeps[t] \subseteq {d \in Tasks : tstate[d] = "succeeded"},
         IsFiniteSet(B), Cardinality(B) <= MaxConcurrency,
         step' = [t \in Tasks |-> IF t \in B THEN "submitted" ELSE step[t]],
         UNCHANGED <<tstate, dbTask>>
  PROVE  Contract!Start
<1>1. StatusFacts
  BY StatusFactsHold
<1>2. B \subseteq Contract!Having("waiting") /\ Contract!Having("active") = {}
  BY <1>1 DEF StatusFacts, Contract!Having, Pending, FailedStates
<1>3. \A t \in B : ContractDeps[t] \subseteq Contract!Having("ok")
  BY <1>1 DEF StatusFacts, Contract!Having
<1>4. B \cup Contract!Having("active") = B
  BY <1>2
<1>5. ContractStatus' = [t \in Tasks |-> IF t \in B THEN "active" ELSE ContractStatus[t]]
  BY DEF ContractStatus, ActiveSteps
<1>6. ContractKept' = ContractKept
  BY DEF ContractKept
<1>7. Contract!Cardinality(B) = Cardinality(B)
  BY DEF Cardinality, Contract!Cardinality
<1>8. QED
  BY <1>2, <1>3, <1>4, <1>5, <1>6, <1>7 DEF Contract!Start

\* Failing a set of tasks that can never be ready maps to Skip.
LEMMA FailingIsSkip ==
  ASSUME TypeOK, phase # "idle", phase' # "idle", Active = {}, NEW F \in SUBSET Pending,
         \A t \in F : \E d \in ContractDeps[t] :
           d \in F \/ d \notin Tasks \/ tstate[d] \in FailedStates,
         tstate' = [t \in Tasks |-> IF t \in F THEN "failed" ELSE tstate[t]],
         UNCHANGED <<step, dbTask>>
  PROVE  Contract!Skip
<1>1. StatusFacts
  BY StatusFactsHold
<1>2. F \subseteq Contract!Having("waiting") /\ Contract!Having("active") = {}
  BY <1>1 DEF StatusFacts, Contract!Having, Pending, FailedStates
<1>3. \A d \in Tasks : tstate[d] \in FailedStates => d \in Contract!Having("failed")
  BY <1>1 DEF StatusFacts, Contract!Having
<1>4. Contract!Hopeless(F)
  BY <1>3 DEF Contract!Hopeless
<1>5. ContractStatus' = [t \in Tasks |-> IF t \in F THEN "failed" ELSE ContractStatus[t]]
  BY DEF ContractStatus, ActiveSteps, FailedStates, Active
<1>6. ContractKept' = ContractKept
  BY DEF ContractKept
<1>7. QED
  BY <1>2, <1>4, <1>5, <1>6 DEF Contract!Skip

\* Every step of a run is a step of the contract or leaves what it sees alone.
LEMMA ContractStep ==
  ASSUME RunAssumption, TypeOK, TypeOK', RunInv, EndedWhenSaving, [Next]_vars
  PROVE  [Contract!Next]_(Contract!vars)
<1> USE DEF TypeOK
<1>0. StatusFacts /\ StatusFacts'
  BY StatusFactsHold DEF StatusFacts, ContractStatus, Active, FailedStates
<1>1. ASSUME UNCHANGED <<tstate, step, dbTask>>, (phase # "idle") = (phase' # "idle")
      PROVE  UNCHANGED Contract!vars
  BY <1>1 DEF Contract!vars, ContractStatus, ContractKept
<1>2. CASE Caller
  <2>1. Contract!Open
    BY <1>2, StartIsOpen DEF Caller
  <2>2. QED
    BY <2>1 DEF Contract!Next
<1>3. CASE FailDependents
  <2>1. Active = {} /\ Concurrent
    BY <1>3 DEF FailDependents, RunInv, PhaseInv
  <2>2. PICK F \in SUBSET Pending :
          /\ IsFailPass(F)
          /\ tstate' = [t \in Tasks |-> IF t \in F THEN "failed" ELSE tstate[t]]
    BY <1>3 DEF FailDependents
  <2>3. \A t \in F : \E d \in ContractDeps[t] :
          d \in F \/ d \notin Tasks \/ tstate[d] \in FailedStates
    BY <2>1, <2>2 DEF IsFailPass, ContractDeps
  <2>4. phase # "idle" /\ phase' # "idle" /\ UNCHANGED <<step, dbTask>>
    BY <1>3 DEF FailDependents, database
  <2>5. Contract!Skip
    BY <2>1, <2>2, <2>3, <2>4, FailingIsSkip
  <2>6. QED
    BY <2>5 DEF Contract!Next
<1>4. CASE FailUnresolved
  <2>1. Active = {} /\ Concurrent /\ phase = "submit" /\ Ready = {}
    BY <1>4 DEF FailUnresolved, RunInv, PhaseInv
  <2>2. \A t \in Pending : \E d \in ContractDeps[t] :
          d \in Pending \/ d \notin Tasks \/ tstate[d] \in FailedStates
    <3> SUFFICES ASSUME NEW t \in Pending
                 PROVE  \E d \in Deps[t] :
                          d \in Pending \/ d \notin Tasks \/ tstate[d] \in FailedStates
      BY <2>1 DEF ContractDeps
    <3>1. PICK d \in Deps[t] : d \notin {u \in Tasks : tstate[u] = "succeeded"}
      BY <2>1 DEF Ready, DependenciesSucceeded
    <3>2. QED
      BY <2>1, <3>1 DEF RunInv, EndInv, TaskEnded, Pending
  <2>3. /\ phase # "idle" /\ phase' # "idle" /\ UNCHANGED <<step, dbTask>>
        /\ tstate' = [t \in Tasks |-> IF t \in Pending THEN "failed" ELSE tstate[t]]
        /\ Pending \in SUBSET Pending
    BY <1>4 DEF FailUnresolved, database
  <2>4. Contract!Skip
    BY <2>1, <2>2, <2>3, FailingIsSkip
  <2>5. QED
    BY <2>4 DEF Contract!Next
<1>5. CASE SubmitBatch
  <2>1. Active = {} /\ Concurrent
    BY <1>5 DEF SubmitBatch, RunInv, PhaseInv
  <2>2. /\ phase # "idle" /\ phase' # "idle" /\ UNCHANGED <<tstate, dbTask>>
        /\ step' = [t \in Tasks |-> IF t \in Batch THEN "submitted" ELSE step[t]]
    BY <1>5 DEF SubmitBatch, database
  <2>3. /\ Batch \in SUBSET Pending
        /\ \A t \in Batch : ContractDeps[t] \subseteq {d \in Tasks : tstate[d] = "succeeded"}
    BY <2>1 DEF Batch, Ready, DependenciesSucceeded, ContractDeps, Pending
  <2>4. CASE Batch = {}
    <3>1. step' = step
      BY <2>2, <2>4
    <3>2. QED
      BY <1>1, <2>2, <3>1
  <2>5. CASE Batch # {}
    <3>1. Contract!Start
      BY <2>1, <2>2, <2>3, <2>5, BatchSize, BatchIsStart
    <3>2. QED
      BY <3>1 DEF Contract!Next
  <2>6. QED
    BY <2>4, <2>5
<1>6. CASE PopTask
  <2> DEFINE t == Head(queue)[2]
  <2>1. /\ phase = "pop" /\ queue # <<>> /\ phase' = "round" /\ UNCHANGED <<tstate, dbTask>>
        /\ step' = [step EXCEPT ![t] = "submitted"]
        /\ Head(queue)[1] = gen
    BY <1>6 DEF PopTask, database
  <2>2. Active = {} /\ ~Concurrent
    BY <2>1 DEF RunInv, PhaseInv
  <2>3. 1 \in DOMAIN queue /\ Head(queue) = queue[1] /\ Head(queue) \in (0..MaxCalls) \X Tasks \X Kinds
    BY <2>1, HeadTailProperties, LenProperties, EmptySeq
  <2>4. {t} \in SUBSET Pending
    BY <2>1, <2>3 DEF RunInv, QueueInv, Pending
  <2>5. \A u \in {t} : ContractDeps[u] \subseteq {d \in Tasks : tstate[d] = "succeeded"}
    BY <2>2, <2>3 DEF ContractDeps
  <2>6. IsFiniteSet({t}) /\ Cardinality({t}) <= MaxConcurrency
    <3>1. MaxConcurrency \in Nat \ {0}
      BY DEF RunAssumption
    <3>2. IsFiniteSet({t}) /\ Cardinality({t}) = 1
      BY FS_Singleton
    <3>3. QED
      BY <3>1, <3>2
  <2>7. step' = [u \in Tasks |-> IF u \in {t} THEN "submitted" ELSE step[u]]
    BY <2>1
  <2>8. Contract!Start
    BY <2>1, <2>2, <2>4, <2>5, <2>6, <2>7, BatchIsStart
  <2>9. QED
    BY <2>8 DEF Contract!Next
<1>7. ASSUME NEW t \in Tasks, Worker(t)
      PROVE  [Contract!Next]_(Contract!vars)
  <2>1. t \in Active /\ phase # "idle" /\ phase' # "idle" /\ UNCHANGED dbTask
    BY <1>7, WorkerStep DEF RunInv, PhaseInv
  <2>2. PICK s \in Steps, x \in TaskStates :
          /\ step' = [step EXCEPT ![t] = s]
          /\ tstate' = [tstate EXCEPT ![t] = x]
    BY <1>7, WorkerStep DEF RunInv
  <2>3. ContractStatus' = [ContractStatus EXCEPT ![t] = ContractStatus'[t]]
    BY <2>2 DEF ContractStatus
  <2>4. ContractKept' = ContractKept
    BY <2>1 DEF ContractKept
  <2>5. CASE ContractStatus'[t] = "active"
    <3>1. ContractStatus' = ContractStatus
      BY <1>0, <2>1, <2>3, <2>5 DEF StatusFacts
    <3>2. QED
      BY <2>1, <2>4, <3>1 DEF Contract!vars
  <2>6. CASE ContractStatus'[t] # "active"
    <3>1. ContractStatus[t] = "active" /\ ContractStatus'[t] \in {"ok", "failed", "waiting"}
      BY <1>0, <2>1, <2>6 DEF StatusFacts
    <3>2. Contract!Finish(t)
      BY <2>1, <2>3, <2>4, <3>1 DEF Contract!Finish
    <3>3. QED
      BY <3>2 DEF Contract!Next
  <2>7. QED
    BY <2>5, <2>6
<1>8. ASSUME phase # "idle", phase' = "idle", Active = {}, UNCHANGED <<tstate, step, dbTask>>
      PROVE  Contract!BreakOff
  <2>1. ContractStatus' = ContractStatus /\ ContractKept' = ContractKept
    BY <1>8 DEF ContractStatus, ContractKept
  <2>2. ContractStatus = [t \in Tasks |-> IF ContractStatus[t] = "active" THEN "waiting"
                                          ELSE ContractStatus[t]]
    BY <1>0, <1>8 DEF StatusFacts
  <2>3. QED
    BY <1>8, <2>1, <2>2 DEF Contract!BreakOff
<1>9. CASE Abort \/ PopAbandoned
  <2>1. /\ phase # "idle" /\ Active = {}
        /\ UNCHANGED <<tstate, step, dbTask>>
    BY <1>9 DEF Abort, PopAbandoned, memory, database, RunInv, PhaseInv
  <2>2. QED
    BY <1>1, <1>8, <2>1 DEF Contract!Next
<1>10. CASE Crash
  <2>1. phase # "idle" /\ phase' = "idle" /\ UNCHANGED <<tstate, dbTask>>
        /\ step' = [t \in Tasks |-> "none"]
    BY <1>10 DEF Crash, database
  <2>2. \A t \in Active : tstate[t] # "succeeded" /\ tstate[t] \notin FailedStates
    BY DEF RunInv, StepInv, Active, ActiveSteps, FailedStates
  <2>3. ContractStatus' = [t \in Tasks |-> IF ContractStatus[t] = "active" THEN "waiting"
                                           ELSE ContractStatus[t]]
    <3>1. ASSUME NEW t \in Tasks
          PROVE  ContractStatus'[t] = IF ContractStatus[t] = "active" THEN "waiting"
                                      ELSE ContractStatus[t]
      BY <1>0, <2>1, <2>2 DEF StatusFacts, ContractStatus, ActiveSteps
    <3>2. QED
      BY <3>1 DEF ContractStatus
  <2>4. Contract!BreakOff
    BY <2>1, <2>3 DEF Contract!BreakOff, ContractKept
  <2>5. QED
    BY <2>4 DEF Contract!Next
<1>11. CASE SaveTask
  <2> DEFINE t == saved + 1
  <2>1. /\ t \in Tasks
        /\ phase = "saving" /\ Active = {}
        /\ UNCHANGED <<tstate, step>>
        /\ dbTask' = [dbTask EXCEPT ![t] = tstate[t]]
    BY <1>11 DEF SaveTask, memory, RunAssumption, Tasks, RunInv, PhaseInv
  <2>2. ContractStatus' = ContractStatus
    BY <2>1 DEF ContractStatus
  <2>3. \A u \in Tasks : ContractStatus[u] \in Contract!Ended
    BY <1>0, <2>1 DEF StatusFacts, EndedWhenSaving, TaskEnded, Contract!Ended
  <2>4. ContractKept' = [ContractKept EXCEPT ![t] = ContractStatus[t]]
    <3>1. ContractStatus[t] = IF tstate[t] = "succeeded" THEN "ok"
                              ELSE IF tstate[t] \in FailedStates THEN "failed" ELSE "waiting"
      BY <2>1 DEF ContractStatus, Active
    <3>2. QED
      BY <2>1, <3>1 DEF ContractKept
  <2>5. Contract!Keep(t)
    BY <2>1, <2>2, <2>3, <2>4 DEF Contract!Keep
  <2>6. QED
    BY <2>1, <2>5 DEF Contract!Next
<1>12. CASE EndRound \/ EndLoop \/ SaveRun \/ Human \/ UNCHANGED vars
  <2>1. UNCHANGED <<tstate, step, dbTask>> /\ (phase # "idle") = (phase' # "idle")
    BY <1>12 DEF EndRound, EndLoop, SaveRun, Human, HumanDecides, vars, memory, database
  <2>2. QED
    BY <1>1, <2>1
<1>13. QED
  BY <1>2, <1>3, <1>4, <1>5, <1>6, <1>7, <1>9, <1>10, <1>11, <1>12 DEF Next, Engine

\* The first state of a run is the first state of the contract.
LEMMA ContractInit == ASSUME RunAssumption, Init PROVE Contract!Init
BY DEF Init, Contract!Init, ContractStatus, ContractKept, ActiveSteps, FailedStates

\* The concurrent engine keeps the contract of RunContract: tasks start in bounded
\* rounds after everything they wait for, only hopeless ones are given up, and what
\* is kept between calls is how finished tasks ended, whatever breaks a call off.
THEOREM ConcurrentRunsImplementContract ==
  ASSUME Concurrent
  PROVE  Spec => ImplementsContract
<1> USE RunAssumption
<1>1. Init => Contract!Init
  BY ContractInit
<1>2. RunInv => EndedWhenSaving
  BY DEF RunInv, EndInv, EndedWhenSaving
<1>3. TypeOK /\ TypeOK' /\ RunInv /\ EndedWhenSaving /\ [Next]_vars
        => [Contract!Next]_(Contract!vars)
  BY ContractStep
<1>4. QED
  BY <1>1, <1>2, <1>3, TypeCorrect, RunInvariant, PTL DEF Spec, ImplementsContract, Contract!Spec

\* Either engine keeps the contract, the sequential one without dependencies, in
\* every behaviour in which no agent class aborts a call.
THEOREM UndisturbedRunsImplementContract == Spec /\ []NoRaise => ImplementsContract
<1> USE RunAssumption
<1>1. Init => Contract!Init
  BY ContractInit
<1>2. RunInv /\ UndisturbedInv => EndedWhenSaving
  BY DEF RunInv, EndInv, UndisturbedInv, UndisturbedQueue, EndedWhenSaving
<1>3. TypeOK /\ TypeOK' /\ RunInv /\ EndedWhenSaving /\ [Next]_vars
        => [Contract!Next]_(Contract!vars)
  BY ContractStep
<1>4. QED
  BY <1>1, <1>2, <1>3, TypeCorrect, RunInvariant, UndisturbedInvariant, PTL
     DEF Spec, ImplementsContract, Contract!Spec
=============================================================================
