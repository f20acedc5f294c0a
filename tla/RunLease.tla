------------------------------ MODULE RunLease ------------------------------
(***************************************************************************)
(* Who may drive and finish a run: the executor lease of runs.executor_id   *)
(* and runs.heartbeat_at, several API processes on one database, their      *)
(* startup reap, periodic reaper, heartbeat loops, crash, and shutdown      *)
(* (drain, cancel, force-interrupt), and the background task of each run    *)
(* with its events.                                                         *)
(*                                                                          *)
(* A process is named by the executor_id it mints at startup, so a restart  *)
(* is another member of Executor.  One step is one database transaction.    *)
(* Time passes in ticks; ages are exact up to the largest one a guard or a  *)
(* property tells apart.                                                    *)
(***************************************************************************)
EXTENDS Naturals, Sequences

CONSTANTS
    Run,
    Executor,
    NoOne,              \* NULL in runs.executor_id
    HeartbeatInterval,  \* executor_heartbeat_interval_s
    StaleThreshold,     \* executor_stale_threshold_s
    ReaperInterval,     \* executor_reaper_interval_s
    Timely,             \* TRUE: no loop of a live process is ever late
    Faults,             \* the loops whose database call may raise
    MaxProgress         \* bound: pipeline events per run

ASSUME IntervalAssumption ==
    /\ HeartbeatInterval \in Nat \ {0}
    /\ ReaperInterval \in Nat \ {0}
    /\ StaleThreshold \in Nat
    /\ HeartbeatInterval <= StaleThreshold

ASSUME NoOneAssumption == NoOne \notin Executor

VARIABLES
    status,         \* runs.status ("NONE": no row)
    owner,          \* runs.executor_id
    beatAge,        \* time since runs.heartbeat_at
    log,            \* run_events of a run, by seq
    driver,         \* the process whose background task drives a run
    task,           \* what that task does next
    beating,        \* its heartbeat loop runs
    process,        \* state of an API process
    reaping,        \* its reaper loop runs
    reapAge         \* time since its last reap

rowVars == <<status, owner, beatAge>>
taskVars == <<driver, task, beating>>
processVars == <<process, reaping, reapAge>>
vars == <<rowVars, log, taskVars, processVars>>

-----------------------------------------------------------------------------
L == INSTANCE RunLog

Terminal == {"COMPLETED", "PARTIAL", "INTERRUPTED"}
LiveTask == {"launched", "driving", "announce", "failing", "apologise"}
ProcessState == {"new", "up", "draining", "stopped", "crashed"}

Alive(e) == process[e] \in {"up", "draining"}
TasksOf(e) == {r \in Run : driver[r] = e /\ task[r] \in LiveTask}

\* The guard heartbeat and finalize_owned share.
Owned(r) == status[r] = "RUNNING" /\ owner[r] = driver[r]

\* Mutants: every running row; a threshold too long; only rows of dead processes.
StaleAlways(r) == status[r] = "RUNNING"
StaleLate(r) == status[r] = "RUNNING" /\ beatAge[r] > StaleThreshold + ReaperInterval
StaleOrphaned(r) ==
    status[r] = "RUNNING" /\ beatAge[r] > StaleThreshold /\ ~Alive(driver[r])

\* A running row whose heartbeat is older than the threshold.
Stale(r) == status[r] = "RUNNING" /\ beatAge[r] > StaleThreshold

MaxAge == StaleThreshold + ReaperInterval + 1
Older(age) == IF age < MaxAge THEN age + 1 ELSE age

Init ==
    /\ status = [r \in Run |-> "NONE"]
    /\ owner = [r \in Run |-> NoOne]
    /\ beatAge = [r \in Run |-> 0]
    /\ log = [r \in Run |-> <<>>]
    /\ driver = [r \in Run |-> NoOne]
    /\ task = [r \in Run |-> "none"]
    /\ beating = [r \in Run |-> FALSE]
    /\ process = [e \in Executor |-> "new"]
    /\ reaping = [e \in Executor |-> FALSE]
    /\ reapAge = [e \in Executor |-> 0]

\* The terminal write of a set of rows; it clears executor_id with the status.
Finish(rows, s) ==
    /\ status' = [r \in Run |-> IF r \in rows THEN s ELSE status[r]]
    /\ owner' = [r \in Run |-> IF r \in rows THEN NoOne ELSE owner[r]]
    /\ UNCHANGED beatAge

\* Mutant: the terminal write does not check the lease.
FinalizeUnguarded(r, s) == Finish({r}, s)

\* finalize_owned: no row matches once the lease is lost.
FinalizeOwned(r, s) == Finish(IF Owned(r) THEN {r} ELSE {}, s)

ReapStale == Finish({r \in Run : Stale(r)}, "INTERRUPTED")

Goto(r, label) == task' = [task EXCEPT ![r] = label]

\* The task is over; its finally block cancels the heartbeat loop.
EndTasks(rows) ==
    /\ task' = [r \in Run |-> IF r \in rows THEN "ended" ELSE task[r]]
    /\ beating' = [r \in Run |-> beating[r] /\ r \notin rows]

-----------------------------------------------------------------------------
(* Life of a process: the lifespan function.                               *)

\* Mint an executor_id, reap once, start the reaper loop.
StartProcess(e) ==
    /\ process[e] = "new"
    /\ process' = [process EXCEPT ![e] = "up"]
    /\ ReapStale
    /\ reaping' = [reaping EXCEPT ![e] = TRUE]
    /\ reapAge' = [reapAge EXCEPT ![e] = 0]
    /\ UNCHANGED <<log, taskVars>>

Reap(e) ==
    /\ process[e] = "up"
    /\ reaping[e]
    /\ reapAge[e] >= ReaperInterval
    /\ ReapStale
    /\ reapAge' = [reapAge EXCEPT ![e] = 0]
    /\ UNCHANGED <<log, taskVars, process, reaping>>

\* The loop handles only its own cancellation: a failed reap ends it.
ReapRaises(e) ==
    /\ "reaper" \in Faults
    /\ process[e] = "up"
    /\ reaping[e]
    /\ reapAge[e] >= ReaperInterval
    /\ reaping' = [reaping EXCEPT ![e] = FALSE]
    /\ UNCHANGED <<rowVars, log, taskVars, process, reapAge>>

\* Bound: the last process that may still run neither crashes nor stops.
Replaceable(e) == \E f \in Executor \ {e} : process[f] \in {"new", "up"}

Crash(e) ==
    /\ Alive(e)
    /\ Replaceable(e)
    /\ process' = [process EXCEPT ![e] = "crashed"]
    /\ EndTasks(TasksOf(e))
    /\ UNCHANGED <<rowVars, log, driver, reaping, reapAge>>

\* Shutdown cancels the reaper and awaits it.  A reaper that had died of an
\* exception raises it here, before the drain, and the process just exits.
BeginShutdown(e) ==
    /\ process[e] = "up"
    /\ Replaceable(e)
    /\ IF reaping[e]
         THEN /\ process' = [process EXCEPT ![e] = "draining"]
              /\ reaping' = [reaping EXCEPT ![e] = FALSE]
              /\ UNCHANGED <<task, beating>>
         ELSE /\ process' = [process EXCEPT ![e] = "stopped"]
              /\ EndTasks(TasksOf(e))
              /\ UNCHANGED reaping
    /\ UNCHANGED <<rowVars, log, driver, reapAge>>

\* The drain window is over: what still runs is cancelled, at any await.
CancelPending(e) ==
    /\ process[e] = "draining"
    /\ TasksOf(e) # {}
    /\ EndTasks(TasksOf(e))
    /\ UNCHANGED <<rowVars, log, driver, processVars>>

\* Mutant: the process exits once its tasks are gone.
ExitAfterDrain(e) ==
    /\ process[e] = "draining"
    /\ TasksOf(e) = {}
    /\ process' = [process EXCEPT ![e] = "stopped"]
    /\ UNCHANGED <<rowVars, log, taskVars, reaping, reapAge>>

\* interrupt_owned_by_executor, then the process exits.
ForceInterrupt(e) ==
    /\ process[e] = "draining"
    /\ TasksOf(e) = {}
    /\ Finish({r \in Run : status[r] = "RUNNING" /\ owner[r] = e}, "INTERRUPTED")
    /\ process' = [process EXCEPT ![e] = "stopped"]
    /\ UNCHANGED <<log, taskVars, reaping, reapAge>>

-----------------------------------------------------------------------------
(* Life of a run: start_run and the background task _run_and_finalize.     *)

CreateRun(r, e) ==
    /\ process[e] = "up"
    /\ L!Created(r)
    /\ owner' = [owner EXCEPT ![r] = e]
    /\ beatAge' = [beatAge EXCEPT ![r] = 0]
    /\ driver' = [driver EXCEPT ![r] = e]
    /\ Goto(r, "launched")
    /\ UNCHANGED <<log, beating, processVars>>

\* run.started is written, then the heartbeat loop starts.
Started(r) ==
    /\ task[r] = "launched"
    /\ L!AppendEvent(r, "run.started")
    /\ Goto(r, "driving")
    /\ beating' = [beating EXCEPT ![r] = TRUE]
    /\ UNCHANGED <<rowVars, driver, processVars>>

\* run.started is emitted outside the try: if it fails, nothing finalizes the
\* run.  The same holds if the handler's own finalize or last event fails.
TaskRaises(r) ==
    /\ task[r] \in {"launched", "failing", "apologise"}
    /\ EndTasks({r})
    /\ UNCHANGED <<rowVars, log, driver, processVars>>

Progress(r) ==
    /\ task[r] = "driving"
    /\ Len(log[r]) <= MaxProgress
    /\ \E type \in {"progress", "unlisted"} : L!AppendEvent(r, type)
    /\ UNCHANGED <<rowVars, taskVars, processVars>>

\* execute_run's last write; the caller does not learn whether it matched.
FinishDriving(r) ==
    /\ task[r] = "driving"
    /\ \E s \in {"COMPLETED", "PARTIAL"} : FinalizeOwned(r, s)
    /\ Goto(r, "announce")
    /\ UNCHANGED <<log, driver, beating, processVars>>

Announce(r) ==
    /\ task[r] = "announce"
    /\ L!AppendEvent(r, "run.completed")
    /\ EndTasks({r})
    /\ UNCHANGED <<rowVars, driver, processVars>>

\* Discovery, a provider or the database raised, or the last event failed.
DriveRaises(r) ==
    /\ task[r] \in {"driving", "announce"}
    /\ Goto(r, "failing")
    /\ UNCHANGED <<rowVars, log, driver, beating, processVars>>

FailRun(r) ==
    /\ task[r] = "failing"
    /\ FinalizeOwned(r, "PARTIAL")
    /\ IF Owned(r)
         THEN Goto(r, "apologise") /\ UNCHANGED beating
         ELSE EndTasks({r})
    /\ UNCHANGED <<log, driver, processVars>>

Apologise(r) ==
    /\ task[r] = "apologise"
    /\ L!AppendEvent(r, "run.failed")
    /\ EndTasks({r})
    /\ UNCHANGED <<rowVars, driver, processVars>>

\* A beat that matches no row means the lease is lost, and ends the loop.
Heartbeat(r) ==
    /\ beating[r]
    /\ status[r] = "RUNNING" => beatAge[r] >= HeartbeatInterval
    /\ IF Owned(r)
         THEN beatAge' = [beatAge EXCEPT ![r] = 0] /\ UNCHANGED beating
         ELSE beating' = [beating EXCEPT ![r] = FALSE] /\ UNCHANGED beatAge
    /\ UNCHANGED <<status, owner, log, driver, task, processVars>>

\* The loop handles only its own cancellation: a failed beat ends it.
HeartbeatRaises(r) ==
    /\ "heartbeat" \in Faults
    /\ beating[r]
    /\ beatAge[r] >= HeartbeatInterval
    /\ beating' = [beating EXCEPT ![r] = FALSE]
    /\ UNCHANGED <<rowVars, log, driver, task, processVars>>

-----------------------------------------------------------------------------
\* A loop of a live process is at its deadline.
Due ==
    \/ \E r \in Run : task[r] = "launched"
    \/ \E r \in Run : beating[r] /\ Owned(r) /\ beatAge[r] >= HeartbeatInterval
    \/ \E e \in Executor :
          process[e] = "up" /\ reaping[e] /\ reapAge[e] >= ReaperInterval

Tick ==
    /\ Timely => ~Due
    /\ beatAge' = [r \in Run |->
           IF status[r] = "RUNNING" THEN Older(beatAge[r]) ELSE beatAge[r]]
    /\ reapAge' = [e \in Executor |->
           IF process[e] = "up" THEN Older(reapAge[e]) ELSE reapAge[e]]
    /\ UNCHANGED <<status, owner, log, taskVars, process, reaping>>

Lifespan(e) ==
    \/ StartProcess(e) \/ Reap(e) \/ ReapRaises(e) \/ Crash(e)
    \/ BeginShutdown(e) \/ CancelPending(e) \/ ForceInterrupt(e)

RunAndFinalize(r) ==
    \/ Started(r) \/ TaskRaises(r) \/ Progress(r) \/ FinishDriving(r)
    \/ Announce(r) \/ DriveRaises(r) \/ FailRun(r) \/ Apologise(r)

Next ==
    \/ \E e \in Executor : Lifespan(e)
    \/ \E r \in Run, e \in Executor : CreateRun(r, e)
    \/ \E r \in Run : RunAndFinalize(r) \/ Heartbeat(r) \/ HeartbeatRaises(r)
    \/ Tick

Spec == Init /\ [][Next]_vars

-----------------------------------------------------------------------------
(* Properties.                                                             *)

\* The variables have their types.
TypeOK ==
    /\ status \in [Run -> L!RunStatus \union {"NONE"}]
    /\ owner \in [Run -> Executor \union {NoOne}]
    /\ beatAge \in [Run -> 0..MaxAge]
    /\ log \in [Run -> Seq(L!EventType)]
    /\ driver \in [Run -> Executor \union {NoOne}]
    /\ task \in [Run -> LiveTask \union {"none", "ended"}]
    /\ beating \in [Run -> BOOLEAN]
    /\ process \in [Executor -> ProcessState]
    /\ reaping \in [Executor -> BOOLEAN]
    /\ reapAge \in [Executor -> 0..MaxAge]

\* What several processes, their reapers, shutdowns and late finalizes do to a
\* run adds up to one terminal status and one last event.
ImplementsRunLog == L!LogSpec

\* However late the reapers of however many processes are: no running row is
\* older than the threshold by more than the time since any live reaper's last round.
StaleIsBounded ==
    \A r \in Run, e \in Executor :
        status[r] = "RUNNING" /\ process[e] = "up" /\ reaping[e]
            => beatAge[r] <= StaleThreshold + reapAge[e]

\* reap_stale: "without an old process's still-running work ever getting cut
\* off".  While the loops are on time a run whose task and heartbeat loop are
\* alive is never interrupted, whichever process reaps, starts or stops.
NoLiveRunInterrupted ==
    [][\A r \in Run :
         status[r] = "RUNNING" /\ beating[r] => status'[r] # "INTERRUPTED"]_vars

\* docs/RUNBOOK.md, shutdown: "Force-interrupts anything still RUNNING and
\* still owned by this process".
ShutdownLeavesNothing ==
    \A r \in Run : status[r] = "RUNNING" => process[owner[r]] # "stopped"

\* Processes are restarted, their loops go on and a task that drives a run
\* comes to an end (every await in it has a deadline).
FairSpec ==
    /\ Spec
    /\ WF_vars(Tick)
    /\ \A e \in Executor :
          /\ WF_vars(StartProcess(e)) /\ WF_vars(Reap(e))
          /\ WF_vars(CancelPending(e)) /\ WF_vars(ForceInterrupt(e))
    /\ \A r \in Run :
          /\ WF_vars(Started(r)) /\ WF_vars(FinishDriving(r)) /\ WF_vars(FailRun(r))
          /\ WF_vars(Heartbeat(r))

\* No run stays RUNNING, whatever became of the process that drove it.
EveryRunEnds == \A r \in Run : status[r] = "RUNNING" ~> status[r] \in Terminal

-----------------------------------------------------------------------------
(* The inductive invariant behind the safety properties.                   *)

\* A row exists from the step on that launches its task, and belongs to the
\* process that drives it for as long as it runs.
RowMatchesTask ==
    \A r \in Run :
        /\ (status[r] = "NONE") <=> (task[r] = "none")
        /\ status[r] = "RUNNING" => owner[r] = driver[r]
        /\ task[r] \in {"announce", "apologise"} => status[r] \in Terminal
        /\ beating[r] => task[r] \in LiveTask \ {"launched"}

\* What a task has written of its run's log.
LogMatchesTask ==
    \A r \in Run :
        /\ task[r] \in {"none", "launched"} => log[r] = <<>>
        /\ task[r] \in LiveTask \ {"launched"} => log[r] # <<>> /\ ~L!Closed(r)

\* While no loop is late the lease of a live task is fresh.
LeaseIsFresh ==
    Timely => \A r \in Run : status[r] = "RUNNING" =>
        /\ task[r] = "launched" => beatAge[r] = 0
        /\ beating[r] => beatAge[r] <= HeartbeatInterval

\* Every part of the argument that runs end once and live runs are left alone.
IInv ==
    /\ TypeOK
    /\ RowMatchesTask
    /\ LogMatchesTask
    /\ LeaseIsFresh
    /\ StaleIsBounded

\* While no reap fails, a live process has its reaper, and a running row names
\* a process that is up, draining or crashed.
OwnerHasNotExited ==
    /\ \A e \in Executor : process[e] = "up" => reaping[e]
    /\ \A r \in Run : status[r] = "RUNNING" =>
          owner[r] \in Executor /\ process[owner[r]] \in {"up", "draining", "crashed"}

-----------------------------------------------------------------------------
(* A claim of the repository that the code does not keep.                  *)

\* config.py: the threshold is set so that a missed heartbeat never trips it;
\* run_service.py: the loop "keeps beating on its own interval regardless".
LiveRunKeepsLease ==
    [][\A r \in Run :
         status[r] = "RUNNING" /\ task[r] = "driving" => status'[r] # "INTERRUPTED"]_vars
==============================================================================
