----------------------------- MODULE RunExecutor -----------------------------
(***************************************************************************)
(* execute_run, the engine of a run: discovery and dedupe create the        *)
(* prospect rows, one coroutine per prospect takes its company through the  *)
(* pipeline behind a semaphore and writes its verdict, a wall clock cancels *)
(* what is left, and the outcomes become the counters of the run.           *)
(*                                                                          *)
(* One step is one database transaction or one attempt of a pipeline step.  *)
(* Any transaction may fail and any coroutine may be cancelled where it     *)
(* awaits.  What a lost lease or a dying process does to the run is          *)
(* RunLease's: here a process that dies just stops, and a lost lease shows   *)
(* when the run is finalized.                                               *)
(***************************************************************************)
EXTENDS Naturals, FiniteSets, Sequences

CONSTANTS
    Prospect,       \* the companies a discovery returns
    KeyOf,          \* their dedupe keys
    Reach,          \* whom personalize can write to: nobody, by e-mail, or both
    Verdict,        \* bound: the final statuses a review may lead to
    Retries,        \* max_retries of each step
    MaxConcurrent   \* max_concurrent_prospects

Steps == <<"research", "signals", "enrich", "score", "contact",
           "contact_enrichment", "personalize", "review">>
StepName == {Steps[i] : i \in 1..Len(Steps)}
Optional == {"contact", "contact_enrichment", "personalize"}

\* ProspectStatus.  Reviewed are the verdicts of _derive_final_status.
Reviewed == {"PASS", "NEEDS_REVIEW", "REJECTED", "NOT_QUALIFIED"}
Lost == {"FAILED", "TIMED_OUT"}
ProspectStatus == {"RUNNING", "DUPLICATE"} \union Reviewed \union Lost

ASSUME ExecutorAssumption ==
    /\ IsFiniteSet(Prospect)
    /\ Reach \in [Prospect -> {"nobody", "email", "both"}]
    /\ DOMAIN KeyOf = Prospect
    /\ Verdict \subseteq Reviewed /\ Verdict # {}
    /\ Retries \in [StepName -> Nat]
    /\ MaxConcurrent \in Nat \ {0}

VARIABLES
    run,            \* runs.status
    counters,       \* runs.counters: prospects by status (<<>>: not written)
    phase,          \* where execute_run is
    row,            \* prospects.status ("NONE": no row)
    pc,             \* where the coroutine of a prospect is
    step,           \* the pipeline step it executes
    attempt,        \* attempts of that step that were retried
    emails,         \* e-mail drafts in its context
    verdict,        \* the status it is about to write
    persisted,      \* how much of its data is in the database
    announced,      \* status in its prospect.completed event
    outcome,        \* its ProspectOutcome.status in execute_run
    early           \* how many outcomes of each status execute_run had listed
                    \* when it took an error of the store for its own timeout

runVars == <<run, counters, phase, early>>
workVars == <<step, attempt, emails, verdict, persisted>>
vars == <<runVars, row, pc, workVars, announced, outcome>>

Seeds == {p \in Prospect : row[p] # "NONE"}
Done == {"returned", "raised", "cancelled"}
Going == {p \in Prospect : pc[p] \notin Done \union {"none"}}
StepOf(p) == Steps[step[p]]

\* A failed prospect still holds its slot while it writes its status.
InGate == {p \in Prospect :
              \/ pc[p] = "stepping"
              \/ verdict[p] = "FAILED" /\ pc[p] \in {"writing", "telling", "told"}}

Init ==
    /\ run = "RUNNING" /\ counters = <<>> /\ phase = "discovering"
    /\ early = [s \in ProspectStatus |-> 0]
    /\ row = [p \in Prospect |-> "NONE"]
    /\ pc = [p \in Prospect |-> "none"]
    /\ step = [p \in Prospect |-> 1]
    /\ attempt = [p \in Prospect |-> 0]
    /\ emails = [p \in Prospect |-> 0]
    /\ verdict = [p \in Prospect |-> "NONE"]
    /\ persisted = [p \in Prospect |-> "nothing"]
    /\ announced = [p \in Prospect |-> "NONE"]
    /\ outcome = [p \in Prospect |-> "NONE"]

Goto(p, label) == pc' = [pc EXCEPT ![p] = label]

-----------------------------------------------------------------------------
(* discover_and_dedupe.                                                    *)

\* Mutant: keys are only compared with the previous seed's.
FindDuplicateAdjacent(p) == Cardinality(Seeds) = 1 /\ \E q \in Seeds : KeyOf[q] = KeyOf[p]

\* seen_keys holds the keys of the seeds that were no duplicates.
FindDuplicate(p) ==
    \E q \in Seeds : row[q] # "DUPLICATE" /\ KeyOf[q] = KeyOf[p]

CreateProspect(p) ==
    /\ phase = "discovering"
    /\ p \notin Seeds
    /\ row' = [row EXCEPT ![p] = IF FindDuplicate(p) THEN "DUPLICATE" ELSE "RUNNING"]
    /\ UNCHANGED <<runVars, pc, workVars, announced, outcome>>

FanOut ==
    /\ phase = "discovering"
    /\ phase' = "gathering"
    /\ pc' = [p \in Prospect |-> IF p \in Seeds THEN "ready" ELSE "none"]
    /\ UNCHANGED <<run, counters, early, row, workVars, announced, outcome>>

\* A search, an LLM call or a transaction of the discovery raised.
DiscoveryRaises ==
    /\ phase = "discovering"
    /\ phase' = "raised"
    /\ UNCHANGED <<run, counters, early, row, pc, workVars, announced, outcome>>

-----------------------------------------------------------------------------
(* The coroutine `one` of a prospect, outside its pipeline.                *)

\* prospect.discovered is logged; a duplicate goes straight to its status.
Discovered(p) ==
    /\ pc[p] = "ready"
    /\ IF row[p] = "DUPLICATE"
         THEN Goto(p, "writing") /\ verdict' = [verdict EXCEPT ![p] = "DUPLICATE"]
         ELSE Goto(p, "waiting") /\ UNCHANGED verdict
    /\ UNCHANGED <<runVars, row, step, attempt, emails, persisted, announced, outcome>>

EnterGate(p) ==
    /\ pc[p] = "waiting"
    /\ Cardinality(InGate) < MaxConcurrent
    /\ Goto(p, "stepping")
    /\ UNCHANGED <<runVars, row, workVars, announced, outcome>>

\* evidence, signals, score, contact, drafts and review, in as many transactions.
Save(p) ==
    /\ pc[p] = "saving"
    /\ IF persisted[p] = "nothing"
         THEN persisted' = [persisted EXCEPT ![p] = "part"] /\ UNCHANGED pc
         ELSE persisted' = [persisted EXCEPT ![p] = "all"] /\ Goto(p, "writing")
    /\ UNCHANGED <<runVars, row, step, attempt, emails, verdict, announced, outcome>>

\* ProspectRepository.finalize does not look at the status it replaces.
WriteVerdict(p) ==
    /\ pc[p] = "writing"
    /\ row' = [row EXCEPT ![p] = verdict[p]]
    /\ Goto(p, "telling")
    /\ UNCHANGED <<runVars, workVars, announced, outcome>>

\* prospect.completed is committed; the coroutine has not heard of it yet.
Announce(p) ==
    /\ pc[p] = "telling"
    /\ announced' = [announced EXCEPT ![p] = verdict[p]]
    /\ Goto(p, "told")
    /\ UNCHANGED <<runVars, row, workVars, outcome>>

Return(p) ==
    /\ pc[p] = "told"
    /\ Goto(p, "returned")
    /\ outcome' = [outcome EXCEPT ![p] = verdict[p]]
    /\ UNCHANGED <<runVars, row, workVars, announced>>

\* Mutant: gather without return_exceptions.
RaiseAll(p) ==
    /\ pc[p] \in {"ready", "saving", "writing", "telling"}
    /\ Goto(p, "raised")
    /\ phase' = "raised"
    /\ UNCHANGED <<run, counters, early, row, workVars, announced, outcome>>

\* A transaction outside the pipeline fails.
Raise(p) ==
    /\ pc[p] \in {"ready", "saving", "writing", "telling"}
    /\ Goto(p, "raised")
    /\ UNCHANGED <<runVars, row, workVars, announced, outcome>>

-----------------------------------------------------------------------------
(* The pipeline: Step.execute.  A prospect of a run executes each step once, *)
(* so has_succeeded never finds an earlier success.                         *)

\* Mutant: the verdict is written first, the data never.
NextStepUnsaved(p) == IF step[p] = Len(Steps) THEN "writing" ELSE "stepping"

NextStep(p) == IF step[p] = Len(Steps) THEN "saving" ELSE "stepping"

Advance(p) ==
    /\ Goto(p, NextStep(p))
    /\ step' = [step EXCEPT ![p] = IF step[p] = Len(Steps) THEN @ ELSE @ + 1]
    /\ attempt' = [attempt EXCEPT ![p] = 0]

\* personalize appends the e-mail draft, then asks for the LinkedIn draft.
Drafted(p) ==
    IF StepOf(p) = "personalize" /\ Reach[p] # "nobody" THEN 1 ELSE 0

\* Mutant: the draft is appended before it is known to be good.
DraftedEarly(p) ==
    IF StepOf(p) = "personalize" /\ Reach[p] # "nobody" THEN {0, 1} ELSE {0}

\* What an attempt that fails has appended: the LinkedIn call comes second.
DraftedBeforeFailing(p) ==
    IF StepOf(p) = "personalize" /\ Reach[p] = "both" THEN {0, 1} ELSE {0}

StepSucceeds(p) ==
    /\ pc[p] = "stepping"
    /\ emails' = [emails EXCEPT ![p] = @ + Drafted(p)]
    /\ \E s \in IF StepOf(p) = "review" THEN Verdict ELSE {"NONE"} :
          verdict' = [verdict EXCEPT ![p] = s]
    /\ Advance(p)
    /\ UNCHANGED <<runVars, row, persisted, announced, outcome>>

CanRetry(p) == attempt[p] < Retries[StepOf(p)]

\* A timeout or a retryable provider error.
StepRetries(p) ==
    /\ pc[p] = "stepping"
    /\ CanRetry(p)
    /\ attempt' = [attempt EXCEPT ![p] = @ + 1]
    /\ \E n \in DraftedBeforeFailing(p) : emails' = [emails EXCEPT ![p] = @ + n]
    /\ UNCHANGED <<runVars, row, pc, step, verdict, persisted, announced, outcome>>

StepDegrades(p) ==
    /\ pc[p] = "stepping"
    /\ StepOf(p) \in Optional
    /\ \E n \in DraftedBeforeFailing(p) : emails' = [emails EXCEPT ![p] = @ + n]
    /\ Advance(p)
    /\ UNCHANGED <<runVars, row, verdict, persisted, announced, outcome>>

\* The last attempt of a step that is not optional fails, or a transaction of
\* the pipeline's own trace or events.
StepFails(p) ==
    /\ pc[p] = "stepping"
    /\ Goto(p, "writing")
    /\ verdict' = [verdict EXCEPT ![p] = "FAILED"]
    /\ UNCHANGED <<runVars, row, step, attempt, emails, persisted, announced, outcome>>

-----------------------------------------------------------------------------
(* execute_run around the coroutines.                                      *)

CancelAll(rows) == pc' = [p \in Prospect |-> IF p \in rows THEN "cancelled" ELSE pc[p]]

GatherReturns ==
    /\ phase = "gathering"
    /\ Going = {}
    /\ phase' = "settling_failed"
    /\ UNCHANGED <<run, counters, early, row, pc, workVars, announced, outcome>>

\* Mutants: the tasks are not waited for; the clock waits for the pipelines.
TimeOutUnawaited ==
    /\ phase = "gathering"
    /\ Going # {}
    /\ outcome' = [p \in Prospect |-> IF p \in Going THEN "TIMED_OUT" ELSE outcome[p]]
    /\ row' = [p \in Prospect |-> IF p \in Going THEN "TIMED_OUT" ELSE row[p]]
    /\ UNCHANGED <<runVars, pc, workVars, announced>>

TimeOutPatient ==
    /\ phase = "gathering"
    /\ Going # {} /\ InGate = {}
    /\ CancelAll(Going)
    /\ phase' = "settling_timed_out"
    /\ UNCHANGED <<run, counters, early, row, workVars, announced, outcome>>

\* wait_for cancels the gather and with it every task, and waits for them.
TimeOut ==
    /\ phase = "gathering"
    /\ Going # {}
    /\ CancelAll(Going)
    /\ phase' = "settling_timed_out"
    /\ UNCHANGED <<run, counters, early, row, workVars, announced, outcome>>

\* Mutant: the outcome of a coroutine that raised is not written to its row.
SettleUnwritten(p) ==
    /\ p \in Seeds /\ outcome[p] = "NONE"
    /\ \/ phase = "settling_failed" /\ outcome' = [outcome EXCEPT ![p] = "FAILED"]
       \/ phase = "settling_timed_out" /\ outcome' = [outcome EXCEPT ![p] = "TIMED_OUT"]
    /\ UNCHANGED <<runVars, row, pc, workVars, announced>>

\* A prospect without an outcome is written off, whatever its row says.
Settle(p) ==
    /\ p \in Seeds /\ outcome[p] = "NONE"
    /\ \/ phase = "settling_failed" /\ outcome' = [outcome EXCEPT ![p] = "FAILED"]
       \/ phase = "settling_timed_out" /\ outcome' = [outcome EXCEPT ![p] = "TIMED_OUT"]
    /\ row' = [row EXCEPT ![p] = outcome'[p]]
    /\ UNCHANGED <<runVars, pc, workVars, announced>>

Tally(rows) == [s \in ProspectStatus |-> Cardinality({p \in rows : outcome[p] = s})]

\* The wall clock's handler surrounds the loop over the outcomes: when writing a
\* failure ends in a TimeoutError of the connection, the outcomes are listed
\* once more, behind those of the loop, which passed some of the returned ones.
StoreTimesOut ==
    /\ phase = "settling_failed"
    /\ \E p \in Seeds : outcome[p] = "NONE"
    /\ \E passed \in SUBSET {p \in Seeds : pc[p] = "returned"} :
          early' = Tally({p \in Seeds : outcome[p] # "NONE" /\ (pc[p] # "returned" \/ p \in passed)})
    /\ outcome' = [p \in Prospect |-> IF pc[p] = "returned" THEN outcome[p] ELSE "NONE"]
    /\ phase' = "settling_timed_out"
    /\ UNCHANGED <<run, counters, row, pc, workVars, announced>>

SettleRaises ==
    /\ phase \in {"settling_failed", "settling_timed_out"}
    /\ phase' = "raised"
    /\ UNCHANGED <<run, counters, early, row, pc, workVars, announced, outcome>>

RunStatusOf == IF \E p \in Seeds : outcome[p] \in Lost THEN "PARTIAL" ELSE "COMPLETED"

\* finalize_owned: nothing is written if the lease was lost in the meantime.
FinalizeRun ==
    /\ phase \in {"settling_failed", "settling_timed_out"}
    /\ \A p \in Seeds : outcome[p] # "NONE"
    /\ phase' = "done"
    /\ \/ /\ run' = RunStatusOf
          /\ counters' = [s \in ProspectStatus |-> early[s] + Tally(Seeds)[s]]
       \/ run' = "INTERRUPTED" /\ UNCHANGED counters
    /\ UNCHANGED <<early, row, pc, workVars, announced, outcome>>

\* The caller's handler: PARTIAL, without counters.
FailRun ==
    /\ phase = "raised"
    /\ phase' = "failed"
    /\ run' \in {"PARTIAL", "INTERRUPTED"}
    /\ UNCHANGED <<counters, early, row, pc, workVars, announced, outcome>>

One(p) ==
    \/ Discovered(p) \/ EnterGate(p) \/ Save(p) \/ WriteVerdict(p)
    \/ Announce(p) \/ Return(p) \/ Raise(p)
    \/ StepSucceeds(p) \/ StepRetries(p) \/ StepDegrades(p) \/ StepFails(p)

Ended == phase \in {"done", "failed"} /\ UNCHANGED vars

Next ==
    \/ \E p \in Prospect : CreateProspect(p) \/ One(p) \/ Settle(p)
    \/ FanOut \/ DiscoveryRaises
    \/ GatherReturns \/ TimeOut \/ StoreTimesOut \/ SettleRaises \/ FinalizeRun \/ FailRun
    \/ Ended

Spec == Init /\ [][Next]_vars

-----------------------------------------------------------------------------
(* Properties.                                                             *)

\* The variables have their types.
TypeOK ==
    /\ run \in {"RUNNING", "COMPLETED", "PARTIAL", "INTERRUPTED"}
    /\ counters \in {<<>>} \union [ProspectStatus -> Nat]
    /\ early \in [ProspectStatus -> Nat]
    /\ phase \in {"discovering", "gathering", "settling_failed", "settling_timed_out",
                  "raised", "done", "failed"}
    /\ row \in [Prospect -> ProspectStatus \union {"NONE"}]
    /\ pc \in [Prospect -> {"none", "ready", "waiting", "stepping", "saving",
                            "writing", "telling", "told"} \union Done]
    /\ step \in [Prospect -> 1..Len(Steps)]
    /\ attempt \in [Prospect -> Nat]
    /\ \A p \in Prospect : attempt[p] <= Retries[StepOf(p)]
    /\ emails \in [Prospect -> Nat]
    /\ verdict \in [Prospect -> ProspectStatus \union {"NONE"}]
    /\ persisted \in [Prospect -> {"nothing", "part", "all"}]
    /\ announced \in [Prospect -> ProspectStatus \union {"NONE"}]
    /\ outcome \in [Prospect -> ProspectStatus \union {"NONE"}]

RowsWith(s) == Cardinality({p \in Prospect : row[p] = s})

\* The counters a run ends with are the statuses of its prospect rows, for good:
\* no coroutine, however it ended, leaves a row behind or writes one later.
\* Only outcomes listed twice come on top.
CountersAreTheRows ==
    counters # <<>> => \A s \in ProspectStatus : counters[s] = RowsWith(s) + early[s]

\* A prospect with a verdict can be acted upon: everything it was judged by
\* is in the database before.
ReviewedIsPersisted ==
    \A p \in Prospect : row[p] \in Reviewed => persisted[p] = "all"

\* Two seeds of one company never both get a verdict.
OneVerdictPerKey ==
    \A p, q \in Prospect :
        row[p] \in Reviewed /\ row[q] \in Reviewed /\ KeyOf[p] = KeyOf[q] => p = q

\* A prospect that was written off never becomes one that can be acted upon:
\* neither a late coroutine nor a second outcome revives it.
LossIsFinal == [][\A p \in Prospect : row[p] \in Lost => row'[p] \in Lost]_vars

\* A retry repeats the whole of personalize on a context that may already have
\* its e-mail draft, but only if something comes after that draft: a prospect ends
\* with a draft per attempt when it is written to on two channels, and with one
\* otherwise (engine/steps/personalize.py:78-103).
DraftsFollowAttempts ==
    \A p \in Prospect :
        emails[p] <= CASE Reach[p] = "nobody" -> 0
                       [] Reach[p] = "both" -> 1 + Retries["personalize"]
                       [] OTHER -> 1

\* When execute_run has returned or raised, none of its coroutines goes on
\* behind its caller's back.
NobodyOutlivesTheRun ==
    [][(phase \in {"done", "raised", "failed"}) => UNCHANGED <<row, announced, persisted>>]_vars

-----------------------------------------------------------------------------
(* The inductive invariant behind the safety properties.                   *)

\* Rows, and nothing else, exist before the fan-out.
DiscoveryComesFirst ==
    phase = "discovering" => \A p \in Prospect :
        /\ pc[p] = "none" /\ outcome[p] = "NONE" /\ persisted[p] = "nothing"
        /\ row[p] \in {"NONE", "RUNNING", "DUPLICATE"}

\* What a coroutine has written by the place it is at.
CoroutineMatchesRow ==
    \A p \in Prospect :
        /\ pc[p] \in {"waiting", "stepping", "saving"} => row[p] = "RUNNING"
        /\ pc[p] = "ready" => row[p] \in {"RUNNING", "DUPLICATE"}
        /\ pc[p] = "saving" => verdict[p] \in Reviewed
        /\ pc[p] = "writing" =>
              \/ row[p] = "DUPLICATE" /\ verdict[p] = "DUPLICATE"
              \/ row[p] = "RUNNING" /\ verdict[p] \in Reviewed \union {"FAILED"}
        /\ pc[p] \in {"writing", "telling", "told"} /\ verdict[p] \in Reviewed =>
              persisted[p] = "all"
        /\ pc[p] \in {"telling", "told"} => row[p] = verdict[p] /\ verdict[p] # "NONE"

\* An outcome is its prospect's row, and nobody is left to change it.
OutcomeIsRow ==
    \A p \in Prospect :
        /\ outcome[p] # "NONE" => row[p] = outcome[p] /\ pc[p] \in Done
        /\ row[p] = "NONE" => pc[p] = "none"
        /\ row[p] # "NONE" /\ pc[p] = "none" => phase \in {"discovering", "raised", "failed"}

\* At most one seed of a company is, or was, worked on.
OneOriginalPerKey ==
    \A p, q \in Prospect :
        /\ row[p] \in {"RUNNING"} \union Reviewed
        /\ row[q] \in {"RUNNING"} \union Reviewed
        /\ KeyOf[p] = KeyOf[q]
        => p = q

\* Once the gather is over no coroutine goes on, and counters are a tally.
NobodyIsLeft ==
    /\ phase \notin {"discovering", "gathering"} => Going = {}
    /\ counters # <<>> =>
          /\ phase = "done"
          /\ counters = [s \in ProspectStatus |-> early[s] + Tally(Seeds)[s]]
          /\ \A p \in Prospect : row[p] = outcome[p]

\* Every part of the argument that verdicts are written once and add up.
IInv ==
    /\ TypeOK
    /\ DiscoveryComesFirst
    /\ CoroutineMatchesRow
    /\ OutcomeIsRow
    /\ OneOriginalPerKey
    /\ NobodyIsLeft
    /\ ReviewedIsPersisted

\* Drafts come from personalize, step 7: none before it, while it is retried one
\* per attempt so far at most, and only after an e-mail draft something can fail.
DraftsByStep ==
    \A p \in Prospect :
        /\ Reach[p] = "nobody" \/ step[p] < 7 => emails[p] = 0
        /\ step[p] = 7 => emails[p] <= IF Reach[p] = "both" THEN attempt[p] ELSE 0
        /\ step[p] = 8 =>
              emails[p] <= IF Reach[p] = "both" THEN 1 + Retries["personalize"] ELSE 1

-----------------------------------------------------------------------------
\* docs/IMPLEMENTATION_PLAN.md: the wall clock "finalizes, so the demo can
\* never hang": with no assumption on the pipelines at all, the run ends.
FairSpec ==
    /\ Spec
    /\ WF_vars(FanOut \/ DiscoveryRaises) /\ WF_vars(GatherReturns) /\ WF_vars(TimeOut)
    /\ WF_vars(FinalizeRun) /\ WF_vars(FailRun)
    /\ \A p \in Prospect : WF_vars(Settle(p))

RunNeverHangs == phase = "discovering" ~> phase \in {"done", "failed"}
==============================================================================
