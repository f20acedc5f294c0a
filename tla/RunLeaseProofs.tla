--------------------------- MODULE RunLeaseProofs ---------------------------
(***************************************************************************)
(* Proofs about RunLease, for every set of runs and processes and every     *)
(* heartbeat, threshold and reaper interval.                                *)
(***************************************************************************)
EXTENDS RunLease, TLAPS

USE DEF Terminal, LiveTask, ProcessState, L!Terminal, L!RunStatus, L!Pipeline, L!Final,
        L!EventType

-----------------------------------------------------------------------------
(* The building blocks of the actions.                                     *)

LEMMA AgeFacts ==
    /\ MaxAge \in Nat
    /\ StaleThreshold < MaxAge /\ ReaperInterval < MaxAge /\ HeartbeatInterval < MaxAge
    /\ \A age \in 0..MaxAge : /\ Older(age) \in 0..MaxAge
                              /\ age <= Older(age) /\ Older(age) <= age + 1
                              /\ age < MaxAge => Older(age) = age + 1
BY IntervalAssumption DEF MaxAge, Older

\* What one more event does to the log of its run and to the others.
LEMMA AppendFacts ==
    ASSUME NEW r \in Run, NEW type \in L!EventType,
           log \in [Run -> Seq(L!EventType)], L!AppendEvent(r, type)
    PROVE  /\ log' \in [Run -> Seq(L!EventType)]
           /\ log'[r] # <<>>
           /\ L!Closed(r)' <=> L!Closed(r) \/ type \in L!Final
           /\ \A q \in Run : q # r => log'[q] = log[q] /\ (L!Closed(q)' <=> L!Closed(q))
<1>1. log'[r] = Append(log[r], type)
  BY DEF L!AppendEvent
<1>2. log[r] \in Seq(L!EventType)
  OBVIOUS
<1>3. /\ Len(log'[r]) = Len(log[r]) + 1
      /\ \A i \in 1..Len(log[r]) : log'[r][i] = log[r][i]
      /\ log'[r][Len(log[r]) + 1] = type
      /\ log'[r] # <<>>
  BY <1>1, <1>2
<1>4. L!Closed(r)' <=> L!Closed(r) \/ type \in L!Final
  <2>1. \A i : i \in 1..Len(log'[r]) <=> i \in 1..Len(log[r]) \/ i = Len(log[r]) + 1
    BY <1>2, <1>3
  <2> QED
    BY <1>3, <2>1 DEF L!Closed
<1> QED
  BY <1>3, <1>4 DEF L!AppendEvent, L!Closed

\* The terminal write touches the rows it names and no other.
LEMMA FinishFacts ==
    ASSUME NEW rows \in SUBSET Run, NEW s \in Terminal, TypeOK, Finish(rows, s)
    PROVE  /\ status' \in [Run -> L!RunStatus \union {"NONE"}]
           /\ owner' \in [Run -> Executor \union {NoOne}]
           /\ beatAge' = beatAge
           /\ \A r \in rows : status'[r] = s
           /\ \A r \in Run \ rows : status'[r] = status[r] /\ owner'[r] = owner[r]
BY DEF Finish, TypeOK

LEMMA EndTasksFacts ==
    ASSUME NEW rows \in SUBSET Run, TypeOK, EndTasks(rows)
    PROVE  /\ task' \in [Run -> LiveTask \union {"none", "ended"}]
           /\ beating' \in [Run -> BOOLEAN]
           /\ \A r \in rows : task'[r] = "ended" /\ ~beating'[r]
           /\ \A r \in Run \ rows : task'[r] = task[r] /\ beating'[r] = beating[r]
BY DEF EndTasks, TypeOK

-----------------------------------------------------------------------------
(* The inductive invariant.                                                *)

LEMMA InitIInv == Init => IInv
BY NoOneAssumption, IntervalAssumption
   DEF Init, IInv, TypeOK, RowMatchesTask, LogMatchesTask, LeaseIsFresh, StaleIsBounded, MaxAge

\* A round of some reaper: at startup or in its loop.
LEMMA ReapStep ==
    ASSUME NEW e \in Executor, IInv, StartProcess(e) \/ Reap(e)
    PROVE  IInv'
<1> DEFINE rows == {r \in Run : Stale(r)}
<1>1. Finish(rows, "INTERRUPTED") /\ UNCHANGED <<log, taskVars>>
  BY DEF StartProcess, Reap, ReapStale
<1>2. /\ status' \in [Run -> L!RunStatus \union {"NONE"}]
      /\ owner' \in [Run -> Executor \union {NoOne}]
      /\ beatAge' = beatAge
      /\ \A r \in rows : status'[r] = "INTERRUPTED"
      /\ \A r \in Run \ rows : status'[r] = status[r] /\ owner'[r] = owner[r]
  BY <1>1, FinishFacts DEF IInv
<1>3. TypeOK'
  <2>1. process' \in [Executor -> ProcessState] /\ reaping' \in [Executor -> BOOLEAN]
    BY DEF IInv, TypeOK, StartProcess, Reap
  <2>2. reapAge' \in [Executor -> 0..MaxAge]
    <3>1. reapAge' = [reapAge EXCEPT ![e] = 0] /\ 0 \in 0..MaxAge
      BY AgeFacts DEF StartProcess, Reap
    <3> QED
      BY <3>1 DEF IInv, TypeOK
  <2> QED
    BY <1>1, <1>2, <2>1, <2>2 DEF IInv, TypeOK, taskVars
<1>4. RowMatchesTask'
  BY <1>1, <1>2 DEF IInv, RowMatchesTask, Stale, taskVars
<1>5. LogMatchesTask'
  BY <1>1 DEF IInv, LogMatchesTask, L!Closed, taskVars
<1>6. LeaseIsFresh'
  BY <1>1, <1>2 DEF IInv, LeaseIsFresh, taskVars
<1>7. StaleIsBounded'
  <2>1. \A r \in Run : status'[r] = "RUNNING" => status[r] = "RUNNING" /\ beatAge[r] <= StaleThreshold
    BY <1>2, IntervalAssumption DEF IInv, TypeOK, Stale, MaxAge
  <2>2. \A f \in Executor : f # e => /\ process'[f] = process[f] /\ reaping'[f] = reaping[f]
                                     /\ reapAge'[f] = reapAge[f]
    BY DEF StartProcess, Reap, IInv, TypeOK
  <2>3. reapAge'[e] = 0
    BY DEF StartProcess, Reap, IInv, TypeOK
  <2> SUFFICES ASSUME NEW r \in Run, NEW f \in Executor,
                      status'[r] = "RUNNING", process'[f] = "up", reaping'[f]
               PROVE  beatAge[r] <= StaleThreshold + reapAge'[f]
    BY <1>2 DEF StaleIsBounded
  <2>4. CASE f = e
    BY <2>1, <2>3, <2>4, IntervalAssumption DEF IInv, TypeOK
  <2>5. CASE f # e
    BY <2>1, <2>2, <2>5 DEF IInv, StaleIsBounded
  <2> QED
    BY <2>4, <2>5
<1> QED
  BY <1>3, <1>4, <1>5, <1>6, <1>7 DEF IInv

\* A process loses its reaper, its tasks or its life.
LEMMA ProcessStep ==
    ASSUME NEW e \in Executor, IInv,
           ReapRaises(e) \/ Crash(e) \/ BeginShutdown(e) \/ CancelPending(e)
    PROVE  IInv'
<1>1. UNCHANGED <<rowVars, log, driver, reapAge>>
  BY DEF ReapRaises, Crash, BeginShutdown, CancelPending, processVars, taskVars
<1>2. (UNCHANGED <<task, beating>>) \/ EndTasks(TasksOf(e))
  BY DEF ReapRaises, Crash, BeginShutdown, CancelPending, taskVars
<1>3. /\ task' \in [Run -> LiveTask \union {"none", "ended"}]
      /\ beating' \in [Run -> BOOLEAN]
      /\ \A r \in Run : \/ task'[r] = task[r] /\ beating'[r] = beating[r]
                        \/ task[r] \in LiveTask /\ task'[r] = "ended" /\ ~beating'[r]
  <2>1. CASE UNCHANGED <<task, beating>>
    BY <2>1 DEF IInv, TypeOK
  <2>2. CASE EndTasks(TasksOf(e))
    <3>1. TasksOf(e) \in SUBSET Run /\ \A r \in TasksOf(e) : task[r] \in LiveTask
      BY DEF TasksOf
    <3> QED
      BY <2>2, <3>1, EndTasksFacts DEF IInv
  <2> QED
    BY <1>2, <2>1, <2>2
<1>4. /\ process' \in [Executor -> ProcessState]
      /\ reaping' \in [Executor -> BOOLEAN]
      /\ \A f \in Executor : process'[f] = "up" /\ reaping'[f] => process[f] = "up" /\ reaping[f]
  BY DEF ReapRaises, Crash, BeginShutdown, CancelPending, IInv, TypeOK, processVars
<1>5. TypeOK'
  BY <1>1, <1>3, <1>4 DEF IInv, TypeOK, rowVars
<1>6. RowMatchesTask' /\ LogMatchesTask' /\ LeaseIsFresh'
  BY <1>1, <1>3 DEF IInv, RowMatchesTask, LogMatchesTask, LeaseIsFresh, L!Closed, rowVars
<1>7. StaleIsBounded'
  BY <1>1, <1>4 DEF IInv, StaleIsBounded, rowVars
<1> QED
  BY <1>5, <1>6, <1>7 DEF IInv

LEMMA ForceInterruptStep ==
    ASSUME NEW e \in Executor, IInv, ForceInterrupt(e)
    PROVE  IInv'
<1> DEFINE rows == {r \in Run : status[r] = "RUNNING" /\ owner[r] = e}
<1>1. Finish(rows, "INTERRUPTED") /\ UNCHANGED <<log, taskVars, reaping, reapAge>>
  BY DEF ForceInterrupt
<1>2. /\ status' \in [Run -> L!RunStatus \union {"NONE"}]
      /\ owner' \in [Run -> Executor \union {NoOne}]
      /\ beatAge' = beatAge
      /\ \A r \in rows : status'[r] = "INTERRUPTED"
      /\ \A r \in Run \ rows : status'[r] = status[r] /\ owner'[r] = owner[r]
  BY <1>1, FinishFacts DEF IInv
<1>3. TypeOK'
  BY <1>1, <1>2 DEF IInv, TypeOK, ForceInterrupt, taskVars
<1>4. RowMatchesTask' /\ LogMatchesTask' /\ LeaseIsFresh'
  BY <1>1, <1>2 DEF IInv, RowMatchesTask, LogMatchesTask, LeaseIsFresh, L!Closed, taskVars
<1>5. StaleIsBounded'
  BY <1>1, <1>2 DEF IInv, TypeOK, StaleIsBounded, ForceInterrupt
<1> QED
  BY <1>3, <1>4, <1>5 DEF IInv

LEMMA CreateStep ==
    ASSUME NEW r \in Run, NEW e \in Executor, IInv, CreateRun(r, e)
    PROVE  IInv'
<1>1. status[r] = "NONE" /\ status' = [status EXCEPT ![r] = "RUNNING"]
  BY DEF CreateRun, L!Created
<1>2. TypeOK'
  BY <1>1, AgeFacts DEF IInv, TypeOK, CreateRun, Goto, processVars
<1>3. RowMatchesTask' /\ LeaseIsFresh'
  BY <1>1 DEF IInv, TypeOK, RowMatchesTask, LeaseIsFresh, CreateRun, Goto
<1>4. LogMatchesTask'
  BY <1>1 DEF IInv, TypeOK, RowMatchesTask, LogMatchesTask, L!Closed, CreateRun, Goto
<1>5. StaleIsBounded'
  BY <1>1, IntervalAssumption DEF IInv, TypeOK, StaleIsBounded, CreateRun, processVars
<1> QED
  BY <1>2, <1>3, <1>4, <1>5 DEF IInv

\* A step of a task that appends one event and writes no row.
LEMMA LogStep ==
    ASSUME NEW r \in Run, IInv, Started(r) \/ Progress(r) \/ Announce(r) \/ Apologise(r)
    PROVE  IInv'
<1>1. UNCHANGED <<rowVars, driver, processVars>>
  BY DEF Started, Progress, Announce, Apologise, taskVars
<1>2. PICK type \in L!EventType :
        /\ L!AppendEvent(r, type)
        /\ type \in L!Final => task'[r] = "ended"
  BY EndTasksFacts DEF Started, Progress, Announce, Apologise, IInv
<1>3. /\ task' \in [Run -> LiveTask \union {"none", "ended"}]
      /\ beating' \in [Run -> BOOLEAN]
      /\ \A q \in Run \ {r} : task'[q] = task[q] /\ beating'[q] = beating[q]
      /\ \/ task[r] = "launched" /\ task'[r] = "driving"
         \/ task[r] = "driving" /\ task'[r] = task[r] /\ beating'[r] = beating[r]
         \/ task[r] \in LiveTask /\ task'[r] = "ended" /\ ~beating'[r]
  BY EndTasksFacts DEF Started, Progress, Announce, Apologise, Goto, IInv, TypeOK, taskVars
<1>4. /\ log' \in [Run -> Seq(L!EventType)]
      /\ log'[r] # <<>>
      /\ L!Closed(r)' <=> L!Closed(r) \/ type \in L!Final
      /\ \A q \in Run : q # r => log'[q] = log[q] /\ (L!Closed(q)' <=> L!Closed(q))
  BY <1>2, AppendFacts DEF IInv, TypeOK
<1>5. TypeOK' /\ StaleIsBounded'
  BY <1>1, <1>3, <1>4 DEF IInv, TypeOK, StaleIsBounded, rowVars, processVars
<1>6. RowMatchesTask'
  BY <1>1, <1>3 DEF IInv, RowMatchesTask, rowVars
<1>7. LogMatchesTask'
  <2>1. task[r] = "launched" => ~L!Closed(r)
    BY DEF IInv, LogMatchesTask, L!Closed
  <2> QED
    BY <1>2, <1>3, <1>4, <2>1 DEF IInv, LogMatchesTask
<1>8. LeaseIsFresh'
  BY <1>1, <1>3, IntervalAssumption DEF IInv, LeaseIsFresh, rowVars
<1> QED
  BY <1>5, <1>6, <1>7, <1>8 DEF IInv

\* A task goes wrong and writes nothing.
LEMMA RaiseStep ==
    ASSUME NEW r \in Run, IInv, TaskRaises(r) \/ DriveRaises(r)
    PROVE  IInv'
<1>1. UNCHANGED <<rowVars, log, driver, processVars>>
  BY DEF TaskRaises, DriveRaises
<1>2. /\ task' \in [Run -> LiveTask \union {"none", "ended"}]
      /\ beating' \in [Run -> BOOLEAN]
      /\ \A q \in Run \ {r} : task'[q] = task[q] /\ beating'[q] = beating[q]
      /\ \/ task[r] \in {"driving", "announce"} /\ task'[r] = "failing" /\ beating'[r] = beating[r]
         \/ task[r] \in LiveTask /\ task'[r] = "ended" /\ ~beating'[r]
  <2>1. CASE TaskRaises(r)
    <3>1. EndTasks({r}) /\ task[r] \in LiveTask
      BY <2>1 DEF TaskRaises, LiveTask
    <3> QED
      BY <3>1, EndTasksFacts DEF IInv
  <2>2. CASE DriveRaises(r)
    BY <2>2 DEF DriveRaises, Goto, IInv, TypeOK, LiveTask
  <2> QED
    BY <2>1, <2>2
<1>3. TypeOK' /\ StaleIsBounded'
  BY <1>1, <1>2 DEF IInv, TypeOK, StaleIsBounded, rowVars, processVars
<1>4. RowMatchesTask' /\ LogMatchesTask' /\ LeaseIsFresh'
  BY <1>1, <1>2 DEF IInv, RowMatchesTask, LogMatchesTask, LeaseIsFresh, L!Closed, rowVars
<1> QED
  BY <1>3, <1>4 DEF IInv

\* The two guarded terminal writes of a task.
LEMMA FinalizeStep ==
    ASSUME NEW r \in Run, IInv, FinishDriving(r) \/ FailRun(r)
    PROVE  IInv'
<1> DEFINE rows == IF Owned(r) THEN {r} ELSE {}
<1>1. PICK s \in Terminal : Finish(rows, s)
  BY DEF FinishDriving, FailRun, FinalizeOwned
<1>2. UNCHANGED <<log, driver, processVars>>
  BY DEF FinishDriving, FailRun
<1>3. /\ status' \in [Run -> L!RunStatus \union {"NONE"}]
      /\ owner' \in [Run -> Executor \union {NoOne}]
      /\ beatAge' = beatAge
      /\ Owned(r) => status'[r] \in Terminal
      /\ ~Owned(r) => status'[r] = status[r] /\ owner'[r] = owner[r]
      /\ \A q \in Run \ {r} : status'[q] = status[q] /\ owner'[q] = owner[q]
  BY <1>1, FinishFacts DEF IInv
<1>4. status[r] \in L!RunStatus /\ status'[r] \in Terminal
  BY <1>3 DEF FinishDriving, FailRun, IInv, TypeOK, RowMatchesTask, Owned
<1>5. /\ task' \in [Run -> LiveTask \union {"none", "ended"}]
      /\ beating' \in [Run -> BOOLEAN]
      /\ \A q \in Run \ {r} : task'[q] = task[q] /\ beating'[q] = beating[q]
      /\ task[r] \in {"driving", "failing"}
      /\ \/ task'[r] \in {"announce", "apologise"} /\ beating'[r] = beating[r]
         \/ task'[r] = "ended" /\ ~beating'[r]
  <2>1. task[r] \in {"driving", "failing"}
    BY DEF FinishDriving, FailRun
  <2>2. (\E label \in {"announce", "apologise"} : Goto(r, label) /\ UNCHANGED beating) \/ EndTasks({r})
    BY DEF FinishDriving, FailRun
  <2>3. CASE \E label \in {"announce", "apologise"} : Goto(r, label) /\ UNCHANGED beating
    BY <2>1, <2>3 DEF Goto, IInv, TypeOK
  <2>4. CASE EndTasks({r})
    BY <2>1, <2>4, EndTasksFacts DEF IInv
  <2> QED
    BY <2>2, <2>3, <2>4
<1>6. TypeOK'
  BY <1>2, <1>3, <1>5 DEF IInv, TypeOK, processVars
<1>7. RowMatchesTask'
  BY <1>2, <1>3, <1>4, <1>5 DEF IInv, RowMatchesTask
<1>8. LogMatchesTask'
  BY <1>2, <1>5 DEF IInv, LogMatchesTask, L!Closed
<1>9. LeaseIsFresh' /\ StaleIsBounded'
  BY <1>2, <1>3, <1>4, <1>5 DEF IInv, LeaseIsFresh, StaleIsBounded, processVars
<1> QED
  BY <1>6, <1>7, <1>8, <1>9 DEF IInv

LEMMA HeartbeatStep ==
    ASSUME NEW r \in Run, IInv, Heartbeat(r) \/ HeartbeatRaises(r)
    PROVE  IInv'
<1>1. UNCHANGED <<status, owner, log, driver, task, processVars>>
  BY DEF Heartbeat, HeartbeatRaises, rowVars
<1>2. /\ beatAge' \in [Run -> 0..MaxAge]
      /\ beating' \in [Run -> BOOLEAN]
      /\ \A q \in Run : /\ beating'[q] => beating[q]
                        /\ beatAge'[q] = beatAge[q] \/ beatAge'[q] = 0
  <2>1. /\ UNCHANGED beating \/ beating' = [beating EXCEPT ![r] = FALSE]
        /\ UNCHANGED beatAge \/ beatAge' = [beatAge EXCEPT ![r] = 0]
    BY DEF Heartbeat, HeartbeatRaises, rowVars
  <2>2. beatAge' \in [Run -> 0..MaxAge] /\ \A q \in Run : beatAge'[q] = beatAge[q] \/ beatAge'[q] = 0
    <3>1. 0 \in 0..MaxAge
      BY AgeFacts
    <3> QED
      BY <2>1, <3>1 DEF IInv, TypeOK
  <2>3. beating' \in [Run -> BOOLEAN] /\ \A q \in Run : beating'[q] => beating[q]
    BY <2>1, Zenon DEF IInv, TypeOK
  <2> QED
    BY <2>2, <2>3
<1>3. TypeOK'
  BY <1>1, <1>2 DEF IInv, TypeOK, processVars
<1>4. RowMatchesTask' /\ LogMatchesTask'
  BY <1>1, <1>2 DEF IInv, RowMatchesTask, LogMatchesTask, L!Closed
<1>5. ASSUME NEW q \in Run PROVE beatAge'[q] <= beatAge[q]
  <2>1. beatAge'[q] = beatAge[q] \/ beatAge'[q] = 0
    BY <1>2
  <2>2. beatAge[q] \in 0..MaxAge
    BY DEF IInv, TypeOK
  <2> QED
    BY <2>1, <2>2, AgeFacts
<1>6. LeaseIsFresh'
  <2> SUFFICES ASSUME Timely, NEW q \in Run, status[q] = "RUNNING"
               PROVE  /\ task[q] = "launched" => beatAge'[q] = 0
                      /\ beating'[q] => beatAge'[q] <= HeartbeatInterval
    BY <1>1 DEF LeaseIsFresh
  <2>1. /\ task[q] = "launched" => beatAge[q] = 0
        /\ beating'[q] => beatAge[q] <= HeartbeatInterval
    BY <1>2 DEF IInv, LeaseIsFresh
  <2>2. beatAge[q] = 0 => beatAge'[q] = 0
    BY <1>2
  <2>3. beatAge[q] <= HeartbeatInterval => beatAge'[q] <= HeartbeatInterval
    BY <1>2, <1>5, IntervalAssumption DEF IInv, TypeOK
  <2> QED
    BY <2>1, <2>2, <2>3
<1>7. StaleIsBounded'
  <2> SUFFICES ASSUME NEW q \in Run, NEW e \in Executor,
                      status[q] = "RUNNING", process[e] = "up", reaping[e]
               PROVE  beatAge'[q] <= StaleThreshold + reapAge[e]
    BY <1>1 DEF StaleIsBounded, processVars
  <2>1. beatAge[q] <= StaleThreshold + reapAge[e]
    BY DEF IInv, StaleIsBounded
  <2> QED
    BY <1>2, <1>5, <2>1, IntervalAssumption DEF IInv, TypeOK
<1> QED
  BY <1>3, <1>4, <1>6, <1>7 DEF IInv

\* Time passes: a fresh lease ages no further than its next beat.
LEMMA TickStep ==
    ASSUME IInv, Tick
    PROVE  IInv'
<1>1. UNCHANGED <<status, owner, log, taskVars, process, reaping>>
  BY DEF Tick
<1>2. /\ beatAge' \in [Run -> 0..MaxAge]
      /\ reapAge' \in [Executor -> 0..MaxAge]
      /\ \A r \in Run : status[r] = "RUNNING" => beatAge'[r] = Older(beatAge[r])
      /\ \A e \in Executor : process[e] = "up" => reapAge'[e] = Older(reapAge[e])
  BY AgeFacts DEF Tick, IInv, TypeOK
<1>3. TypeOK'
  BY <1>1, <1>2 DEF IInv, TypeOK, taskVars
<1>4. RowMatchesTask' /\ LogMatchesTask'
  BY <1>1 DEF IInv, RowMatchesTask, LogMatchesTask, L!Closed, taskVars
<1>5. LeaseIsFresh'
  <2> SUFFICES ASSUME Timely, NEW r \in Run, status[r] = "RUNNING"
               PROVE  /\ task[r] # "launched"
                      /\ beating[r] => beatAge'[r] <= HeartbeatInterval
    BY <1>1 DEF LeaseIsFresh, taskVars
  <2>1. task[r] # "launched" /\ (beating[r] => beatAge[r] < HeartbeatInterval)
    BY IntervalAssumption DEF Tick, Due, Owned, IInv, TypeOK, RowMatchesTask
  <2> QED
    BY <1>2, <2>1, AgeFacts, IntervalAssumption DEF IInv, TypeOK
<1>6. StaleIsBounded'
  <2> SUFFICES ASSUME NEW r \in Run, NEW e \in Executor,
                      status[r] = "RUNNING", process[e] = "up", reaping[e]
               PROVE  beatAge'[r] <= StaleThreshold + reapAge'[e]
    BY <1>1 DEF StaleIsBounded
  <2>1. beatAge[r] <= StaleThreshold + reapAge[e] /\ beatAge[r] \in 0..MaxAge /\ reapAge[e] \in 0..MaxAge
    BY DEF IInv, TypeOK, StaleIsBounded
  <2> QED
    BY <1>2, <2>1, AgeFacts, IntervalAssumption DEF Older
<1> QED
  BY <1>3, <1>4, <1>5, <1>6 DEF IInv

\* The strengthened invariant holds of every reachable state.
THEOREM Inductive == Spec => []IInv
<1>1. IInv /\ [Next]_vars => IInv'
  <2>1. CASE UNCHANGED vars
    BY <2>1 DEF vars, rowVars, taskVars, processVars, IInv, TypeOK, RowMatchesTask,
       LogMatchesTask, LeaseIsFresh, StaleIsBounded, L!Closed
  <2> QED
    BY <2>1, ReapStep, ProcessStep, ForceInterruptStep, CreateStep, LogStep, RaiseStep,
       FinalizeStep, HeartbeatStep, TickStep DEF Next, Lifespan, RunAndFinalize
<1> QED
  BY <1>1, InitIInv, PTL DEF Spec

-----------------------------------------------------------------------------
(* The properties of the runs.                                             *)

\* Every variable keeps its type.
THEOREM TypeCorrect == Spec => []TypeOK
BY Inductive, PTL DEF IInv

\* No running row outlives the threshold by more than a reaper's silence.
THEOREM StaleIsBoundedHolds == Spec => []StaleIsBounded
BY Inductive, PTL DEF IInv

\* While no loop is late, nobody interrupts a run whose heartbeat loop is alive:
\* neither a reaper of any process nor the shutdown of its own.
THEOREM LiveRunsAreLeftAlone ==
    ASSUME Timely
    PROVE  Spec => NoLiveRunInterrupted
<1>1. IInv /\ [Next]_vars
        => [\A r \in Run :
              status[r] = "RUNNING" /\ beating[r] => status'[r] # "INTERRUPTED"]_vars
  <2> SUFFICES ASSUME IInv, Next, NEW r \in Run, status[r] = "RUNNING", beating[r]
               PROVE  status'[r] # "INTERRUPTED"
    OBVIOUS
  <2>1. beatAge[r] <= StaleThreshold
    BY IntervalAssumption, AgeFacts DEF IInv, TypeOK, LeaseIsFresh
  <2>2. ASSUME NEW e \in Executor, StartProcess(e) \/ Reap(e)
        PROVE  status'[r] = "RUNNING"
    <3>1. ~Stale(r)
      BY <2>1, IntervalAssumption, AgeFacts DEF Stale, IInv, TypeOK
    <3> QED
      BY <2>2, <3>1 DEF StartProcess, Reap, ReapStale, Finish
  <2>3. ASSUME NEW e \in Executor, ForceInterrupt(e)
        PROVE  status'[r] = "RUNNING"
    <3>1. owner[r] # e
      BY <2>3 DEF ForceInterrupt, TasksOf, IInv, RowMatchesTask
    <3> QED
      BY <2>3, <3>1 DEF ForceInterrupt, Finish
  <2>4. ASSUME NEW q \in Run, FinishDriving(q) \/ FailRun(q)
        PROVE  status'[r] # "INTERRUPTED"
    BY <2>4 DEF FinishDriving, FailRun, FinalizeOwned, Finish
  <2>5. ASSUME UNCHANGED status PROVE status'[r] # "INTERRUPTED"
    BY <2>5
  <2>6. ASSUME NEW q \in Run, NEW e \in Executor, CreateRun(q, e)
        PROVE  status'[r] # "INTERRUPTED"
    BY <2>6 DEF CreateRun, L!Created, IInv, TypeOK
  <2> QED
    BY <2>2, <2>3, <2>4, <2>5, <2>6
       DEF Next, Lifespan, RunAndFinalize, ReapRaises, Crash, BeginShutdown, CancelPending,
           Started, TaskRaises, Progress, Announce, DriveRaises, Apologise, Heartbeat,
           HeartbeatRaises, Tick, rowVars
<1> QED
  BY <1>1, Inductive, PTL DEF Spec, NoLiveRunInterrupted

\* What each step does to the running rows and to the processes they name.
LEMMA OwnerStep ==
    ASSUME "reaper" \notin Faults, TypeOK, OwnerHasNotExited, [Next]_vars
    PROVE  OwnerHasNotExited'
<1>1. ASSUME NEW rows \in SUBSET Run, NEW s \in Terminal, Finish(rows, s),
             UNCHANGED <<process, reaping>>
      PROVE  OwnerHasNotExited'
  BY <1>1 DEF OwnerHasNotExited, TypeOK, Finish, Terminal
<1>2. ASSUME NEW e \in Executor, StartProcess(e)
      PROVE  OwnerHasNotExited'
  BY <1>2 DEF OwnerHasNotExited, TypeOK, StartProcess, ReapStale, Finish
<1>3. ASSUME NEW e \in Executor, Reap(e)
      PROVE  OwnerHasNotExited'
  BY <1>1, <1>3 DEF Reap, ReapStale, Terminal
<1>4. ASSUME NEW e \in Executor, Crash(e) \/ BeginShutdown(e)
      PROVE  OwnerHasNotExited'
  <2>1. /\ UNCHANGED <<status, owner>>
        /\ process' = [process EXCEPT ![e] = "crashed"] \/ process' = [process EXCEPT ![e] = "draining"]
        /\ reaping' = reaping \/ reaping' = [reaping EXCEPT ![e] = FALSE]
    BY <1>4 DEF OwnerHasNotExited, TypeOK, Crash, BeginShutdown, rowVars
  <2>2. /\ process'[e] \in {"crashed", "draining"}
        /\ \A f \in Executor \ {e} : process'[f] = process[f] /\ reaping'[f] = reaping[f]
    BY <2>1 DEF TypeOK
  <2> QED
    BY <2>1, <2>2 DEF OwnerHasNotExited
<1>5. ASSUME NEW e \in Executor, ForceInterrupt(e)
      PROVE  OwnerHasNotExited'
  BY <1>5 DEF OwnerHasNotExited, TypeOK, ForceInterrupt, Finish
<1>6. ASSUME NEW r \in Run, NEW e \in Executor, CreateRun(r, e)
      PROVE  OwnerHasNotExited'
  BY <1>6 DEF OwnerHasNotExited, TypeOK, CreateRun, L!Created, processVars
<1>7. ASSUME NEW r \in Run, FinishDriving(r) \/ FailRun(r)
      PROVE  OwnerHasNotExited'
  <2>1. PICK s \in Terminal : Finish(IF Owned(r) THEN {r} ELSE {}, s)
    BY <1>7 DEF FinishDriving, FailRun, FinalizeOwned, Terminal
  <2> QED
    BY <1>1, <1>7, <2>1 DEF FinishDriving, FailRun, processVars
<1>8. CASE UNCHANGED <<status, owner, process, reaping>>
  BY <1>8 DEF OwnerHasNotExited
<1>9. ASSUME NEW e \in Executor PROVE ~ReapRaises(e)
  BY DEF ReapRaises
<1> QED
  BY <1>2, <1>3, <1>4, <1>5, <1>6, <1>7, <1>8, <1>9
     DEF Next, vars, Lifespan, RunAndFinalize, CancelPending, Started, TaskRaises, Progress,
         Announce, DriveRaises, Apologise, Heartbeat, HeartbeatRaises, Tick, rowVars, processVars

\* lifespan's shutdown: whoever starts, crashes or drains, a process whose
\* reaper did not die of an exception exits only after interrupt_owned_by_executor
\* has ended every run that still names it.
THEOREM ShutdownLeavesNothingHolds ==
    ASSUME "reaper" \notin Faults
    PROVE  Spec => []ShutdownLeavesNothing
<1>1. Init => OwnerHasNotExited
  BY DEF Init, OwnerHasNotExited
<1>2. OwnerHasNotExited => ShutdownLeavesNothing
  BY DEF OwnerHasNotExited, ShutdownLeavesNothing
<1>3. TypeOK /\ OwnerHasNotExited /\ [Next]_vars => OwnerHasNotExited'
  BY OwnerStep
<1> QED
  BY <1>1, <1>2, <1>3, TypeCorrect, PTL DEF Spec

\* Leases, reapers and shutdowns implement the one-way life of a run.
THEOREM Refinement == Spec => ImplementsRunLog
<1>1. Init => L!InitLog
  BY DEF Init, L!InitLog
<1>2. IInv /\ [Next]_vars => [L!NextLog]_(L!logVars)
  <2> SUFFICES ASSUME IInv, [Next]_vars
               PROVE  L!NextLog \/ UNCHANGED <<status, log>>
    BY DEF L!logVars
  <2>1. ASSUME NEW rows \in SUBSET Run, NEW s \in Terminal, Finish(rows, s), UNCHANGED log,
               \A r \in rows : status[r] = "RUNNING"
        PROVE  L!End(rows)
    BY <2>1 DEF L!End, Finish
  <2>2. ASSUME NEW e \in Executor, StartProcess(e) \/ Reap(e) \/ ForceInterrupt(e)
        PROVE  L!NextLog
    <3>1. PICK rows \in SUBSET Run : /\ Finish(rows, "INTERRUPTED")
                                     /\ \A r \in rows : status[r] = "RUNNING"
      BY <2>2 DEF StartProcess, Reap, ForceInterrupt, ReapStale, Stale
    <3> QED
      BY <2>1, <2>2, <3>1 DEF StartProcess, Reap, ForceInterrupt, L!NextLog
  <2>3. ASSUME NEW r \in Run, FinishDriving(r) \/ FailRun(r)
        PROVE  L!NextLog
    <3>1. PICK s \in Terminal : Finish(IF Owned(r) THEN {r} ELSE {}, s)
      BY <2>3 DEF FinishDriving, FailRun, FinalizeOwned
    <3>2. L!End(IF Owned(r) THEN {r} ELSE {})
      BY <2>1, <2>3, <3>1 DEF FinishDriving, FailRun, Owned
    <3> QED
      BY <3>2 DEF L!NextLog
  <2>4. ASSUME NEW r \in Run, NEW e \in Executor, CreateRun(r, e)
        PROVE  L!NextLog
    BY <2>4 DEF CreateRun, L!Begin, L!NextLog
  <2>5. ASSUME NEW r \in Run, Started(r) \/ Progress(r)
        PROVE  L!NextLog
    <3>1. status[r] # "NONE" /\ ~L!Closed(r) /\ UNCHANGED status
      BY <2>5 DEF Started, Progress, IInv, RowMatchesTask, LogMatchesTask, L!Closed, rowVars
    <3>2. \E type \in IF log[r] = <<>> THEN {"run.started"} ELSE L!Pipeline : L!AppendEvent(r, type)
      BY <2>5 DEF Started, Progress, IInv, LogMatchesTask
    <3> QED
      BY <3>1, <3>2 DEF L!Emit, L!NextLog
  <2>6. ASSUME NEW r \in Run, Announce(r) \/ Apologise(r)
        PROVE  L!NextLog
    <3>1. status[r] \in Terminal /\ log[r] # <<>> /\ ~L!Closed(r) /\ UNCHANGED status
      BY <2>6 DEF Announce, Apologise, IInv, RowMatchesTask, LogMatchesTask, rowVars
    <3> QED
      BY <2>6, <3>1 DEF Announce, Apologise, L!Close, L!NextLog
  <2>7. CASE UNCHANGED <<rowVars, log>>
    BY <2>7 DEF rowVars
  <2> QED
    BY <2>2, <2>3, <2>4, <2>5, <2>6, <2>7
       DEF Next, vars, Lifespan, RunAndFinalize, ReapRaises, Crash, BeginShutdown,
           CancelPending, TaskRaises, DriveRaises, Heartbeat, HeartbeatRaises, Tick, rowVars
<1> QED
  BY <1>1, <1>2, Inductive, PTL DEF Spec, ImplementsRunLog, L!LogSpec
=============================================================================
