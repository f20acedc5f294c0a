------------------------------- MODULE RunLog -------------------------------
(***************************************************************************)
(* What the rest of the system may rely on about runs: the runs.status      *)
(* column and the append-only run_events log, without processes, leases or  *)
(* a clock.  RunLease implements it; EventStream observes it.               *)
(*                                                                          *)
(* The two are written in separate transactions, so they are only loosely   *)
(* coupled: a run that is over may still log, and may never log its end.    *)
(***************************************************************************)
EXTENDS Naturals, Sequences

CONSTANT
    Run             \* run ids

VARIABLES
    status,         \* runs.status ("NONE": no row)
    log             \* the event types of a run's run_events rows, by seq

logVars == <<status, log>>

Terminal == {"COMPLETED", "PARTIAL", "INTERRUPTED"}
RunStatus == {"RUNNING"} \union Terminal

\* "unlisted" stands for the types useRunStream does not listen to
\* (discovery.*), "progress" for every other prospect.* and step.* type.
Pipeline == {"progress", "unlisted"}
Final == {"run.completed", "run.failed"}
EventType == {"run.started"} \union Pipeline \union Final

Closed(r) == \E i \in 1..Len(log[r]) : log[r][i] \in Final

InitLog ==
    /\ status = [r \in Run |-> "NONE"]
    /\ log = [r \in Run |-> <<>>]

Created(r) == status[r] = "NONE" /\ status' = [status EXCEPT ![r] = "RUNNING"]

\* seq is minted by the UPDATE of runs.last_event_seq that commits with the row.
AppendEvent(r, type) == log' = [log EXCEPT ![r] = Append(@, type)]

Begin(r) == Created(r) /\ UNCHANGED log

\* run.started comes first, then the events of the pipeline - also those of a
\* task whose run was taken away.
Emit(r) ==
    /\ status[r] # "NONE"
    /\ ~Closed(r)
    /\ \E type \in IF log[r] = <<>> THEN {"run.started"} ELSE Pipeline : AppendEvent(r, type)
    /\ UNCHANGED status

\* A set of running runs reaches one terminal status; none ever leaves it.
End(rows) ==
    /\ \A r \in rows : status[r] = "RUNNING"
    /\ \E s \in Terminal : status' = [r \in Run |-> IF r \in rows THEN s ELSE status[r]]
    /\ UNCHANGED log

\* The last event: after the terminal status, at most once.
Close(r) ==
    /\ status[r] \in Terminal
    /\ log[r] # <<>>
    /\ ~Closed(r)
    /\ \E type \in Final : AppendEvent(r, type)
    /\ UNCHANGED status

NextLog ==
    \/ \E r \in Run : Begin(r) \/ Emit(r) \/ Close(r)
    \/ \E rows \in SUBSET Run : End(rows)

LogSpec == InitLog /\ [][NextLog]_logVars
==============================================================================
