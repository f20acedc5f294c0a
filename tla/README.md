# Groundwork: TLA+ models, model-checking runs and proofs

This directory specifies the parts of Groundwork (`apps/api/groundwork`, with the
board's stream hook in `apps/web/lib/useRunStream.ts`) whose correctness depends on
interleavings, crashes, lost answers and deadlines: governed e-mail sending and the gates
in front of it, what is known of a contact and who may never be written to, the
executor lease of a run, the engine that runs a play and the budgets it runs on, how runs
are let in, and the live view and the evaluation of a run; and the algorithms that decide who is
found, how sources are chosen, what counts as a match and what passes. Each is a TLA+
module with TLC runs on small instances and, in a module of its own, TLAPS proofs for every
value of the constants.

    tlc -workers 2 -config <run>.cfg <MC module>     # a run, see "Runs"
    tlapm <Module>Proofs.tla                         # a module's proofs

Paths below are relative to `src/apps/api/groundwork` unless they start with `docs/`
or `apps/`.


## 1. Inventory

### The system

An operator starts a *play* (`POST /plays/{id}/runs`). The API process inserts a `runs` row
leased to itself and drives it in a background task: discovery proposes companies,
duplicates are dropped, one coroutine per prospect goes through eight steps (research,
signals, enrich, score, contact, contact enrichment, personalize, review) behind a
semaphore, and the run ends with counters. Every step appends to `run_events`, which
the board follows over server-sent events. For a reviewed prospect the operator
proposes an action, policy evaluates it, the operator approves it, and `execute` sends
one e-mail through Gmail under a write-ahead ledger, followed when necessary by recovery
of stale rows and by reconciliation against Gmail's SENT folder. All state is in a
relational database; a process keeps only its background tasks and rate limiters.

### Components

| component | state | operations | talks to |
|---|---|---|---|
| Live e-mail sending: `api/live_send_orchestration.py`, `api/routers/actions.py`, `repositories/actions.py` | `action_executions` (status, checkpoint, `dispatched_at`, `settled_at`, attempts), `action_approvals` | approve, reject, execute, recover, reconcile | Gmail, allowance, policy |
| Live send allowance: `repositories/live_send_allowance.py` | `live_send_guard`, `live_send_reservations` | reserve, retry on a locked database | called by sending |
| Proposals and policy: `domain/action_policy.py`, `domain/content_hash.py` | `action_proposals` (immutable payload and verdict) | propose, supersede, fifteen policy clauses | drafts, contact channels, sending |
| Reconciliation matching: `domain/reconciliation_match.py`, `providers/live/gmail_send.py` | none | find the sent message from a checkpoint | Gmail history |
| Runs and leases: `repositories/runs.py`, `api/run_service.py`, `main.py` | `runs.status / executor_id / heartbeat_at`; tasks, heartbeat and reaper loops | create, heartbeat, reap, finalize, drain, force-interrupt | engine, event log |
| Run engine: `engine/runner.py`, `engine/pipeline.py`, `engine/step.py` | `prospects`, step traces, coroutine contexts | discover, dedupe, fan out, run steps, settle, finalize | providers, database |
| Pipeline steps: `engine/steps/*`, `engine/llm.py`, `engine/search.py` | the context of a prospect | the eight steps | providers, budgets |
| Budgets: `engine/*_budget.py` | in-memory counters and reservations of a run | reserve, charge | steps |
| Event log and stream: `repositories/events.py`, `api/routers/runs.py` | `run_events`, `runs.last_event_seq` | append, replay, follow | engine, board |
| Board client: `apps/web/lib/useRunStream.ts` | last sequence number, believed run status, reconnect count | bootstrap, open, receive, error, reconnect, poll | event stream |
| Play and run admission: `api/routers/plays.py`, `api/live_gate.py`, `api/rate_limit.py` | limiter buckets; reads `runs` | start a run under the live caps | sessions, runs |
| Operator sessions: `api/routers/operator.py`, `api/operator_auth.py` | a signed cookie, two keys of a process, failed logins | log in, log out, gate Live mode | admission |
| Provider clients: `providers/live/*.py` | a semaphore each | classify an answer, retry, repair, raise a typed error | steps, budgets |
| Contact channels: `repositories/contact_enrichment.py` | `contact_channels` with a ladder of states and suppressions | record success, failure, legal restriction | enrichment, policy |
| Gmail connection: `api/routers/gmail.py`, `repositories/gmail_connection.py` | one connection row, single-use OAuth states | start, callback, disconnect | sending |
| Scoring, review, grounding; discovery and dedupe: `domain/*` | none (pure) | score, verdict, keys, names and domains, sources | engine |
| Evaluation: `evaluation/metrics.py` | none; ten reads | compute a report | all tables of a run |
| Read API, telemetry, demo providers, web pages | none of their own | queries, inserts of telemetry, rendering | - |

`PROJECT.json` lists these with their files and what of each is modelled.

### What is hard here, and what would make it correct

* **Sending.** Every await of `execute` is a place where another `execute`, a rejection,
  recovery or reconciliation may run, or the process may die. Gmail may accept a message
  long after its caller has given up. Correct means: nobody is written to twice; a row that
  frees its recipient (`FAILED`) was never delivered; what was sent has a durable
  checkpoint, reservation and timestamp; every claimed row ends.
* **Allowance.** Reservations are dated with their claims and commit in another order, in
  transactions of several processes that only a guard row serializes. Correct means: no
  window of a day, wherever it starts, holds more than the cap.
* **Leases.** Several processes reap each other's runs by age, while late finalizes,
  shutdowns and restarts meet on one row. Correct means: one terminal status, one last
  event, no live run interrupted, no dead run left `RUNNING`.
* **Engine.** A wall clock cancels coroutines between any two of their writes; transactions
  fail; steps are retried on a context a first attempt has already changed. Correct means:
  rows, counters and verdicts agree, data is stored before the verdict it supports, nothing
  runs on after the run.
* **Contacts.** The enrichment step of every prospect is retried and cut off by timeouts, and
  a legal restriction bars an address that other prospects share. Correct means: a failed
  or empty answer never costs a known address, and nobody under a restriction can be written
  to, whatever later answers say and whichever of two racing transactions lost.
* **Gates.** Proposing, deciding, executing, connecting and disconnecting are requests that
  interleave, and an execute call reads approval, account, policy and credentials in
  transactions of their own. Correct means: what is sent was eligible and approved, from an
  account that was connected, and not to somebody who was barred before the call.
* **Budgets.** Concurrent prospects race for the last place of a budget and the last permit of a
  semaphore, hold one over retries and may be cancelled anywhere. Correct means: no hard
  cap is exceeded, a soft one by a bounded amount, no permit is lost, and nobody waits for ever.
* **Admission.** Caps are counted several awaits before the run exists, and a company is looked up
  before it is inserted. Correct means: the caps hold up to the requests served together, a Live
  run has a session behind it, and a company has one row and an undecided duplicate no prospect.
* **Answers and evidence.** Four clients read the same code differently, beneath a step that retries what
  they raise; names, companies and facts come from a model and are checked in several places.
  Correct means: a firm answer ends every loop; nothing is taken for evidence that the answer did
  not say; withholding a fact never helps a company.
* **Evaluation.** A report reads ten tables while they are written. Correct means: no rate above one,
  and exact figures for whatever had ended.
* **Stream.** Connections break between frames, the answers of reads are late, and the
  status and the last event of a run are written in two transactions. Correct means: each
  event once and in order, never giving up on a live run, always noticing its end.

`PROJECT.json` "hazards" has each of these at its line with the properties that cover it.


## 2. Modules

    OutreachSlots  <-- implemented by --  LiveSend     LiveSendProofs     MCLiveSend
    RunLog         <-- implemented by --  RunLease     RunLeaseProofs     MCRunLease
       ^--- extended by --- EventStream                EventStreamProofs  MCEventStream
    RunExecutor                                        RunExecutorProofs  MCRunExecutor
    ActionGate                                         ActionGateProofs   MCActionGate
    ContactChannels                               ContactChannelsProofs   MCContactChannels
    RunBudgets                                         RunBudgetsProofs   MCRunBudgets
    SendAllowance, RunIntake, ProviderAnswers,         LivePartsProofs    MCLiveParts
    RunMetrics, LiveDiscovery, SourceSelection,
    Verdicts, ContactMatch

`RunLog` is the seam between runs and their observers: `RunLease` is shown to implement
it, and `EventStream` observes *any* run `RunLog` allows, so the two compose without being
multiplied.

An MC module gives the instances. A definition whose comment starts with "Mutant" is no part
of the model: it is a plausible bug a property is tested against (`PROJECT.json` "mutants").

### LiveSend and OutreachSlots

One `Request` is one execute call and the row it may insert, which the code names by a
freshly minted id. A step is one transaction or one exchange with Gmail.

| model | code |
|---|---|
| `decision`, `decisionNo`; `Approve`, `Reject` | newest `ACTION` approval of a proposal and its id; both stay possible after an execution exists |
| `pc`, `approvalNo` | progress of a handler, and the approval it read (its idempotency key) |
| `status`, `checkpointed`, `reserved`, `dispatched`, `settled`, `attempts` | the columns of `action_executions` and the reservation row |
| `InsertClaimed` / `LoseInsert` | the INSERT, decided by UNIQUE(idempotency_key) and the partial unique index over blocking statuses of a recipient |
| `RecordCheckpoint`, `ReserveGranted`, `FailUndispatched`, `TransitionToInFlight` | the write-ahead steps, with their guards on `CLAIMED` |
| `SendNeverLeft`, `SendRequest`, `SendAnswered`, `SendUnclear`, `SettleSend` | the send, its four classified outcomes, and the unconditional settle |
| `inTransit`, `refused`, `delivered`; `GmailAccepts`, `GmailRefuses` | Gmail, which judges a message on the wire whether or not anyone waits (external) |
| `RecoverExecution`, `AbandonExpired`, `StartLookup`, `LookupFound`, `LookupMissed` | the two operator endpoints; a lookup spans an await and may overlap others |
| `age`, `Tick` | time since `claimed_at`, from IN_FLIGHT on since `dispatched_at`; exact up to the largest age a guard tells apart |
| `Die` | an exception or the end of the process at any await |

Abstracted: content, MIME and tokens; which policy clause blocks (all but the recipient
clause are a free choice to block); the three denials of the allowance (one outcome); how a
message is matched in history pages (a lookup finds only delivered messages, and may miss
them). `OutreachSlots` is the promise: a recipient is a slot, a message is delivered only
while it holds its slot, a slot is given back only by an undelivered message. The refinement
maps blocking rows to holders and SENT to the inbox.

### RunLease and RunLog

A process is the `executor_id` it mints, so a restart is another member of `Executor`.
`StartProcess`, `Reap`, `Crash`, `BeginShutdown`, `CancelPending` and `ForceInterrupt` are the
lifespan function of `main.py`; `CreateRun`, `Started`, `Progress`, `FinishDriving`,
`Announce`, `DriveRaises`, `FailRun`, `Apologise` and `TaskRaises` are `start_run` and
`_run_and_finalize`; `Heartbeat` is one round of `_heartbeat_loop`. `HeartbeatRaises` and
`ReapRaises` are a database error in a loop that handles only its own cancellation, enabled by
`Faults`. `Timely = TRUE` keeps time from passing a loop's deadline; with `FALSE` loops are
as late as they like.

`RunLog` keeps only `runs.status` and the event types of `run_events`: a run begins, emits,
ends once in a terminal status and, after that, may close its log with one last event.

### EventStream

`Poll`, `Send`, `CheckStatus` are the generator of `GET /runs/{id}/events`. `Bootstrap`,
`BootstrapFails`, `Retry`, `Open`, `Receive`, `EndOfStream`, `Break`, `Reconnect` and
`DegradedPoll` are the hook. `refreshing` holds the statuses of reads still under way:
they arrive in any order, late, or never. Types the hook does not listen to (`unlisted`) do
not move its cursor, as in the code. Left out: the list of prospects it reloads beside.

### RunExecutor

`CreateProspect`, `FanOut` and `DiscoveryRaises` are discovery and dedupe; `Discovered`,
`EnterGate`, `StepSucceeds`, `StepRetries`, `StepDegrades`, `StepFails`, `Save`,
`WriteVerdict`, `Announce`, `Return` and `Raise` are a prospect's coroutine; `GatherReturns`,
`TimeOut`, `Settle`, `StoreTimesOut`, `SettleRaises`, `FinalizeRun` and `FailRun` are
`execute_run` around them and its caller's handler. `early` holds outcomes listed twice
(see section 6 on counters). What the steps compute is abstracted to the verdict they lead
to; personalize's drafts are counted, since a retry may repeat them.

### ActionGate

Everything between a reviewed draft and the moment its message leaves. A proposal *is* its
draft and its sender: the text and the recipient of a stored draft never change, so those
two are what its content hash tells apart.

| model | code |
|---|---|
| `connection`, `flow`; `Connect`, `ConsumeState`, `FlowEnds`, `UpsertConnection`, `Disconnect` | the one row of `gmail_connections`, the single-use `oauth_states`, and the endpoints of `api/routers/gmail.py` |
| `AskSender`, `AskPolicy`, `FindProposal`, `InsertProposal`, `InsertCollides` | one propose call: the sender it reads, the policy, and `create_or_get_with_supersession` with its two transactions |
| `verdict`, `superseder`, `decision`, `approvals`; `Approve`, `Reject` | `policy_verdict`, `superseded_by` and the newest decision; an approval's id is its number |
| `Arrive`, `ReadApproval`, `ReadSender`, `EvaluatePolicy`, `BuildProvider`, `Claim`, `Dispatch`, `DispatchFails` | the gates of one execute call, in the code's order, up to the message |
| `holder`, `executed` | blocking rows and idempotency keys, as LiveSend has them |
| `ready`, `barred`, `exhausted` | what the policy reads of reviews, contacts and the allowance; each changes at any time |
| `met`, `barredThen` | history: which gates' conditions have held since a call arrived, and who was barred then |

Abstracted: clauses 1 to 7 of the policy are one bit of a draft (`ready`), which the pipeline
may set and unset; clauses 8 and 9 cannot fail when nothing of a draft changes; one evaluation
is one step, although it reads in several transactions. The events the endpoints write and
`draft.content_hash` decide nothing here. What follows a claim is LiveSend's.

### SendAllowance

`Claim` reads the `now` that later dates the reservation. `UpdateGuard`, `CountReservations`
and `InsertReservation` are the transaction of `LiveSendAllowanceRepository`, with the write
lock of its first UPDATE as `guard`; `GuardMissing` and `LockContended` are its other
denials and its retry, `Seed` is `ensure_singleton_seeded`. `GiveUp` stands for whatever ends the
handler, with a rollback if a transaction is open; `Dispatch` adds the message's own time.
LiveSend's `ReserveGranted` and `FailUndispatched` are this transaction's two outcomes.

### ContactChannels

`ProviderObserves`, `ProviderFails` and `ProviderRestricts` are the answers of an enrichment
provider (external, free); `RecordSuccess`, `RecordFailure`, `CheckSuppression`,
`RecordRestriction` and `RestrictionCollides` the transactions of
`ContactEnrichmentRepository`; `TimeOut`, `RecordRaises`, `Deliver` and `RetryOrDegrade` the
step around them, whose result reaches `ctx.contact_channels` only after the commit.
`ReviewProspect` reads that context, `Sendable` is the policy's reading of the rows.
`DeriveEmail`, `DeriveLinkedIn` and `CombineIdentity` are `domain/contact_identity.py`; a name,
a company and a URL are represented by how they compare and how the URL grammar judges them.
A channel without a row and a row without a state behave alike and are one value.

### RunBudgets

A prospect makes its logical calls in the order of its pipeline (`KindAt`, `StepAt`): category
queries and one extraction (Tavily), research, score, a look-up (Hunter or Apollo), and the two
drafts. `Reserve` and `Refused` are `SearchCallBudget` and `EnrichmentCallBudget`; `GateOpen`
and `GateShut` are `RunBudget.is_tripped`; `Send` takes a permit, `Answer` gives it back, charges
and decides between a value, a transport retry, a repair and an error of the step; `StepTimeout`
is `wait_for` in `Step.execute`, which may fall anywhere. Costs are 0 or 1 per attempt:
what matters is that an attempt is charged after it and may cost nothing. What discovery takes of
the search budget before the prospects start is left out: it leaves less of the same cap.

### RunIntake

`Login`, `WrongPassphrase`, `Logout` and `Restart` are `api/routers/operator.py` and the keys of
`operator_auth.py`; `Enter`, `CountActive`, `CountRecent` and `Create` are `start_run`, one step
for each await; `LookUp`, `Insert` and `AddProspect` are `get_or_create` and the loop of
`discover_and_dedupe`; `Finish` and `Reap` stand for the rest of a run, which RunLease and
RunExecutor have. `gate` and `age` are history variables: the key and the age of the session that let a
request in. The session is checked on entry only, so it may have expired when the run is stored.

### ProviderAnswers

One step and the client it calls. `Ask` is one request, with any answer of `AnswerOf`;
`OpenAIStatus`, `TavilyStatus`, `HunterStatus` and `ApolloStatus` are the classifications, `RetryOrRaise` and
`RepairOnce` the client's loop, `Raise` the loop of `Step.execute` around it.

### LiveDiscovery

`discover_live` as the machine it is: `RawDiscover` is the bounded query plan, `Extract` the model's proposals
or its failure, `JudgeName` one round of the post-filter, `ResolveName` one round of the loop
over names (a domain query, the identity gates, the model's choice among safe candidates), `RunOutOfQueries`
and `EndDiscovery` the ways out of it. `rejections` are the `discovery.candidate_rejected` events; `lookups`
is a history of what was served for which name. The answers of search and model are constants: any
sequences of hits, proposals and candidates. `Dedupe` is the loop of `discover_and_dedupe` over what is found.

### SourceSelection

`fetch_sources` and what `research` makes of it, loop by loop; `stage` is the loop, `at` its place.

| model | code |
|---|---|
| `SearchResult`, `NextQuery`, `StartAllocation` | the category queries; results of other sites are dropped, ranks count those that stay |
| `Draw`, `NextPass`, `AllDrawn` with `rows`, `cursor`, `progressed`, `drawn` | the round-robin over the categories, once over what was found (`EndAllocation`) and once over the winners (`EndRanking`), with a limit each |
| `Unite`, `root` | the union-find of `group_occurrences`: identities first, then equal digests; met before the extraction and, on what it has changed, in `research` |
| `SortKey`, `Foremost`, `Winner` | the best document of a group; of equal ones the first, as `min` has it |
| `EndGrouping`, `Place`, `StartRanking` | winners back into the lists of their categories, groups in the order of their first documents |
| `ExtractWinners`, `NotExtracted`, `ApplyAnswer` | extraction of the winners' pages, with any answer per URL, which changes the documents in place; or none |
| `Research`, `sources` | one row of evidence per winner |

URLs, digests and identifiers are represented by what is compared of them; the refs are fresh
integers, drawn in no order, since they are compared as a last resort.

### Verdicts, ContactMatch

Functions of the code without state, as operators: `Outcome`
(citation, grounding, rubric, exclusion, review, final status); `Channels` (what an answer of
Hunter or Apollo is taken to assert, and how names, companies and profile URLs are compared).
Each ends with what a careful reader expects of it, as a predicate of an input, and
one step (`Decide`, `Compare`) takes an input of a constant set, so that what is expected is an invariant. A
text is a set of tokens; a name is a sequence of tokens and a token of letters, since initials match by
a prefix. Where grounding drops facts from a list, the others keep their positions, which nothing reads
but the order. As in `scoring.py` and `enrich.py`, each dimension, the contact and the exclusion ask for the
evidence of what they read themselves (`Rests`, `Grounded`); the samples hold facts that lost theirs, alone and
beside facts that kept it, so that a list read without its gate gives another score.

### RunMetrics

`life` is what the engine commits of a prospect, in order; `Commit` makes one more of it visible, `Read` is
one of the reads of `compute_run_evaluation` in its order. `Report` computes the figures from what each
read saw: what a table shows of a prospect is a prefix of its life, another for each table. The figures are
those of volume, quality, steps, guardrails, search, score, enrichment and model calls (`Volume` to
`LLMUsage`). What is counted is a set: of prospects, of rows, or of the entries of the lists that rows hold; a
rate is the pair of the set above its line and the one below, before the division. A contact channel holds
what the last answer that named an address or a profile said of it; a call whose price is unknown makes
the cost `Unpriced`.


## 3. Runs

| run | bounds | question and answer |
|---|---|---|
| `live_send_race` | 1 recipient, 2 proposals, 3 execute calls (2 on one proposal), 2 decisions a proposal, 1 lookup, 1 attempt | Can racing or dying calls, late answers, recovery or reconciliation reach a person twice, or leave a row stuck? No. |
| `live_send_contract` | 2 proposals, 1 call each, 2 overlapping lookups, 2 attempts, window 2 | Does the code implement the slots? Do claims settle? Yes; and the attempt cap is overshot by the overlapping calls only. |
| `run_lease_stalls` | 2 runs, 2 processes, loops late or dead at will, symmetric | One terminal status and last event per run, and a bounded age for running rows, under any schedule? Yes. |
| `run_lease_timely` | 1 run, 3 processes, threshold 2 | With loops on time: no live run interrupted, a clean shutdown leaves nothing running, every run ends? Yes. |
| `event_stream` | 1 run of up to 4 events, 1 reconnect attempt before polling | Is the view exact, and does a board stop following exactly the runs that have ended? Yes. |
| `run_executor` | 3 companies, two of them one company; one slot; one retry; one verdict | Do rows, counters, verdicts and data agree under failures and the wall clock, and does the run end? Yes. |
| `action_gate` | 1 draft, 2 accounts, 2 propose and 2 execute calls, 1 OAuth flow, 1 approval a proposal | However the calls interleave: is what is sent eligible, approved, from the connected account, to nobody barred before the call, and does one proposal of a draft always stand? Yes. |
| `run_budgets` | 2 prospects, 1 place in each hard budget, soft limit 1, 1 permit a provider, 1 transport retry (none for look-ups), 1 step retry of research | Do the budgets hold, is every permit kept and does every prospect end? Yes; the overrun of the soft one is a full call for each running prospect. |
| `live_parts` | see below | Eight parts of Live mode that share no state, each with its properties: answers, discovery, sources, verdicts, contacts, admission, evaluation, send allowance. All hold. |
| `contact_channels` | 2 prospects, 2 addresses that either may be found to have, 2 attempts, 6 observations | Does a row keep the last known good, and does a restriction bar for good, under timeouts, retries and the race for one address? Yes. |
| `violation_*` | the smallest instance that shows it | A line of the repository the code does not keep; see section 6. |

`live_parts` is one run of eight parts: `subject` is chosen at the start and says which of them
steps, the others rest in an initial state, so the state spaces add up and are not multiplied. Six
run for many steps: `ProviderAnswers` (four clients, 2 transport retries, 2 step retries),
`RunIntake` (2 requests, 3 runs, one of them Demo, caps of 1, one domain found twice, 2 process
starts), `RunMetrics` (one prospect of four kinds, cut short anywhere) and `SendAllowance` (3
executions, a cap of 1, a window of 1, 2 attempts, 5 instants), `LiveDiscovery` (2 queries, three
proposals out of seven, caps of 2 companies and 2 lookups, up to 2 candidates each) and `SourceSelection` (2
categories with up to 2 results each, five kinds of page, 4 refs, 3 documents kept, 2 extracted, three answers of
the extraction). Two decide
at once: a step gives them one of their samples (`VerdictSamples`, `ContactSamples`), and the property is
evaluated on it.

*Why the bounds suffice for the cases that matter.* Two calls on one proposal and one on
another meet both unique indexes; two decisions give a proposal a second approval and with it
a second key; `StaleLease = 0` lets recovery meet a live dispatcher at every point. Two
processes give each other's reapers, and a third, in the timely run, a restart after a crash
and a shutdown. `StaleThreshold` 1 or 2 against intervals of 1 makes fresh, due and stale
three different ages. Four events are a start, one of each kind of pipeline event, and an
end; one reconnect attempt makes both the reconnect and the give-up happen, and a successful
open resets it, so any number of reconnects occurs. Three companies at concurrency 1 make one
wait at the gate while another is cancelled in its pipeline, with a duplicate beside them; the
one verdict stands for four that the code treats alike. A cap of one with three executions lets one hold the
guard, one wait or give up and one come late, and clock values up to 4 make a row older, as old and
younger than a window (the module has also been checked with four executions and a cap of
two). Two prospects at one place and one permit race for both, and a soft limit of one unit trips
while the other is inside a call. Two requests are one more than the caps allow, and a domain found
twice by each of two runs collides between runs and within one. Three proposals make two companies and
one more name, which meets each cap, a duplicate or a refusal. Three documents of two categories
make one category draw a second time or run out, and three are linked through the one in the middle, by an
address and by a text; an extraction may give two of them one text, and the digests of a group's members
then differ from those it was made by. The samples have, for every
branch of the operators, an input that takes it: names whose
support is cited, misquoted or elsewhere, categories wanted, excluded or withheld, dates in the
future, initials, titles and suffixes. In `action_gate` two accounts make
two contents of one draft, which is what lets a change of account, a second proposal and a
supersession happen; one approval a proposal suffices because a rejection and a second
execute call are possible after it (the module has also been checked with two). The six
observations of `contact_channels` are an empty answer, two addresses, one of them both
verified and unverified, and a LinkedIn URL of each judgement.

Bounds on counters sit in guards and are named in the modules: `MaxDecisions`, `MaxLookups`,
`MaxProgress`, `MaxLog`, `MaxApprovals`, `MaxTime`, and `Replaceable` in RunLease (the last
process that can still run neither crashes nor stops, since otherwise no process is left to
end a run); in RunIntake `MaxNow`, `MaxRuns`, `MaxDemo` and `MaxStarts`.

`run_lease_stalls`, `action_gate` and `live_parts` (requests only) use symmetry; they have no
liveness property, and no formula of theirs names a member of a symmetric set. `action_gate`,
`live_parts` and `contact_channels` turn the deadlock check off, because requests,
samples, loops and pipeline steps are finite and everything may have ended. In the others it is on:
`RunExecutor` and `RunBudgets` have an explicit last step, and elsewhere time, the operator or a
process can always act.

### Fairness

* LiveSend: time passes, and an operator keeps using recover and reconcile
  (`RecoverExecution`, `AbandonExpired`). Nothing is assumed of handlers, Gmail or lookups.
  The code has no scheduler for either call, so `EveryClaimSettles` is a statement about a
  system with such an operator.
* RunLease: time passes, new processes start, reaper and heartbeat loops go on, the drain
  and the forced interrupt happen (`main.py` bounds the drain by a timeout), and a task that
  drives a run comes to an end (the wall clock). `Crash` and the faults are never forced
  nor excluded.
* EventStream: the loops of server and hook go on; an answer that reports a terminal
  status is not lost for ever (strong fairness, since a poll may fail any number of times).
  Nothing is assumed of the connection or the run.
* RunExecutor: nothing is assumed of any pipeline. `asyncio` runs the wall clock's timer and
  the code after it; discovery, which runs before the wall clock is armed, is assumed to
  return or raise within its providers' own timeouts.
* RunBudgets: every coroutine that can go on does (`Advance`): an attempt is bounded by the
  deadline of its call, and asyncio's semaphores serve first come first. A step's timeout is never forced.
* The other modules have safety properties only and assume no fairness.


## 4. Proofs

Each `...Proofs` module proves the invariant `IInv` of its component inductive (`THEOREM
Inductive`), and from it the type invariant and the properties; `LivePartsProofs` does so for the
parts that step by themselves, whose invariants are `IInv` (SendAllowance), `AnswersIInv`, `IntakeIInv`,
`MetricsIInv`, `DiscoveryIInv` and `SourcesIInv`. The assumptions are the `ASSUME`s of the modules, and
where a theorem says so one more: `MappingAssumption` and `BoundAssumption` (LiveSend:
constants have their types, and at least one lookup may be made), `IntervalAssumption` and `NoOneAssumption` (RunLease: positive
intervals, heartbeat interval not above the threshold), `WatchAssumption` (EventStream),
`ExecutorAssumption` (RunExecutor: finitely many prospects, at least one verdict),
`BudgetsAssumption` (RunBudgets: finitely many prospects, at least one of them at a time, one
query and one permit of each semaphore; caps, threshold and retries may be zero), and for the types of constants `NilAssumption`, `RecipientAssumption`, `MaxApprovalsAssumption`
(ActionGate), `NilAssumption`, `CapAssumption` (SendAllowance), `NilAssumption`,
`ObservationAssumption`, `RetryAssumption` (ContactChannels), `AnswersAssumption`, `IntakeAssumption` (at least one
request, finitely many), `MetricsAssumption` (finitely many prospects), `DiscoveryAssumption` (a proposed
name has finitely many tokens), `SourcesAssumption` (distinct categories, pages of their type, integers for
refs; the three limits may be zero), `CasesAssumption` (facts of the schema's types, no source called "none") and
`ContactsAssumption` (names over an alphabet, finitely many titles and suffixes).

| module | theorems |
|---|---|
| LiveSendProofs | `Inductive`, `TypeCorrect`, `AtMostOneDeliveryHolds`, `FailedIsUndeliveredHolds`, `DispatchIsOrderedHolds`, `RecoveryIsTotal`, `FailedIsFinalHolds`, `AttemptsBoundedHolds`, `Refinement` (LiveSend implements OutreachSlots) |
| RunLeaseProofs | `Inductive`, `TypeCorrect`, `StaleIsBoundedHolds`, `LiveRunsAreLeftAlone` (from `Timely`), `ShutdownLeavesNothingHolds` (as long as no reap fails: `"reaper" \notin Faults`), `Refinement` (RunLease implements RunLog) |
| EventStreamProofs | `Inductive`, `TypeCorrect`, `ViewIsExactHolds`, `NoEarlyCloseHolds` |
| RunExecutorProofs | `Inductive`, `TypeCorrect`, `CountersAreTheRowsHolds`, `ReviewedIsPersistedHolds`, `OneVerdictPerKeyHolds`, `LossIsFinalHolds`, `NobodyOutlivesTheRunHolds`, `DraftsFollowAttemptsHolds` |
| ActionGateProofs | `Inductive`, `TypeCorrect`, `SentWasAuthorisedHolds`, `RestrictedBeforeIsNotSentHolds`, `OneProposalStandsHolds` |
| LivePartsProofs | SendAllowance: `Inductive`, `TypeCorrect`, `WindowWithinCapHolds`, `PromptWithinTwiceCapHolds`; ProviderAnswers: `AnswersAreRespectedHolds`; RunIntake: `IntakeInductive`, `AdmissionHoldsAlways`, `OneAccountPerDomainHolds`; RunMetrics: `ReadsAreOrderedHolds`, `SettledIsExactHolds`, `ReportIsFaithfulHolds`; SourceSelection: `SourcesInductive`, `SourcesAreSharedHolds`, `OneWinnerPerSourceHolds`; LiveDiscovery: `DiscoveryIsGroundedHolds`; Verdicts: `VerdictIsSoundHolds`; ContactMatch: `MatchIsEvidenceHolds` |
| RunBudgetsProofs | `Inductive`, `TypeCorrect`, `VolumeIsBoundedHolds`, `BudgetsHoldHolds`, `PermitsAreKeptHolds` |
| ContactChannelsProofs | `Inductive`, `TypeCorrect`, `LastKnownGoodHolds`, `RestrictionBarsHolds` |

*LiveSend.* That no recipient is written to twice is not inductive: it says nothing of
rows that have not been sent. The argument is that a recipient has one blocking row
(`OneHolder`, from the index), that whatever is on the wire has a blocking row
(`status[e] \in Shipped`), and that a handler and its row agree up to what recovery did
meanwhile (`HandlerMatchesRow`): a handler still short of the guarded transition has
`CLAIMED` or `FAILED`, so recovery's `FAILED` is seen by the guard; one past it has a
shipped row, so its unconditional settle can write `FAILED` only if it knows that nothing was accepted
(`HandlerMatchesWire`). That last point is what makes a late settle harmless to the recipient.
The cap on attempts holds up to the lookups that overlap: only a lookup's start and end write the two
counters (`CountersStep`), a start below the cap adds one lookup and no attempt, an end trades the one for the other.

*RunLease.* A running row belongs to the process that drives it (`RowMatchesTask`), so a
finalize matches exactly if the row still runs; the log is closed only by the task's own last
step (`LogMatchesTask`). `StaleIsBounded` is inductive by itself: a reap leaves no row
older than the threshold, and a tick ages rows and reapers alike. `LeaseIsFresh` carries the
timely case: a beating loop's row is no older than the heartbeat interval, hence not stale.
A clean shutdown leaves nothing running because a process exits only from draining, and the drain ends
with its last task or with the forced interrupt: the owner of a running row has never exited
(`OwnerHasNotExited`). That needs the reaper loop to be alive when shutdown awaits it.

*EventStream.* `FramesAreRows` relates cursor, batch, frames got and the log: a connection is
ahead of the board only by rows the run has logged. `NewsIsTrue` says that no
read, event or belief is terminal before the row is; a late `RUNNING` answer can take the
board's belief back but never forward.

*RunExecutor.* `OutcomeIsRow` and `NobodyIsLeft` say that once the gather has ended, every
coroutine is done and what was listed for a prospect is its row, which makes the tally a count of rows.
`CoroutineMatchesRow` ties each place in a coroutine to what it has written;
`OneOriginalPerKey` is dedupe's promise, kept because only originals are ever put to `RUNNING`.
`DraftsByStep` counts e-mail drafts by the attempts of personalize: none before the step, one an
attempt within it, and what that adds up to afterwards.

*ActionGate.* A condition seen at a gate may have changed by the time the message leaves, so
what is proved speaks of the call's whole life: `GatesWereMet` says that whatever holds now
is already in `met`, hence passing a gate puts its condition there for good, and that the
addresses barred at arrival are still barred when the policy looks. `ProposalsAreSound`
adds that only eligible proposals are ever approved and only existing ones superseded.
`OneProposalStands` is then inductive: the rows an insert supersedes are older ones of its
draft, and the new row itself stands.

*SendAllowance.* The count of a transaction starts a window before its own date and has no
end, so it has every row that can share a window with the new one, also those dated later:
an insert that saw fewer than the cap keeps every window at the cap (`InsertKeepsCap`). The
guard keeps the count true until the insert (`CountStillHolds`). A prompt dispatch of a
window has its reservation in that window or in the one that ends where it starts; the map from
dispatches to reservations is injective, hence twice the cap (`TwoWindows`).

*ProviderAnswers.* Every request is paid for: by a retry of the step, which pays for a whole call, by the
current call, or by having ended the step (`RequestsArePaidFor`), which bounds them for any number of
retries. `OutcomeFollowsAnswer` says what the outcome owes to the last answer.

*RunIntake.* The caps are exceeded because requests count before they store, so what is inductive counts,
beside the runs, the requests that are past a count (`CapsCountWhoIsPast`): one that passes saw fewer than
the cap, hence the excess is at most the others; and it says so of every window at once, for a run stored later
belongs to every window still open. `DiscoveryInOrder` is a statement of one row and of `companies`, which
only grows: the domains handled and to come are one discovery, and what was looked up is what the row remembers
of the next one. That a run which completes has accounted for each domain is then what its empty `todo` says.

*RunMetrics.* A table read later shows no less of a prospect than one read earlier, and none shows more than
is committed (`ReadsAreOrdered`). Prospects are read first, so one that was final then is shown whole by
every later read, and its share of the report is the one of the finished run (`SettledIsShown`). That no
rate exceeds one is an inclusion where both sets come from one table. In the figures of enrichment they do not:
there the prospects whose channel is found are mapped one to one to a call that found it, which was
committed with it and whose table is read later, and what is not attempted finds nothing.

*SourceSelection.* `PassesInTurn` says how far the round-robin is: in pass n the first categories are one place
ahead, unless they have no more (`Turns`). Two categories then differ by more than one place only if the
shorter one is exhausted, and a pass without progress has found all of them so; that the cursors are what was
drawn (`DrawnByCursor`) carries this to the places given. For the grouping, `GroupsAreSources` speaks of sets that
respect identities and digests: no such set separates what the union-find has joined, and in the end it has
joined all equal digests, so a group itself is such a set; between the two, group and source are the same,
without an induction over the documents. That each has a best document is that a finite total order has a
foremost one, found by the number of documents that come before each. Winners are placed once because
the first document of a group is one document (`WinnersArePlaced`), and by then no document is listed twice
(`RefsAreUnique`).

*LiveDiscovery.* `ByPhase` says what has been done before each stage; names are accounted for from both ends: what
was judged is told of or kept (`JudgedAreKept`), what had its turn is told of or a company
(`LookedUpAreKept`), and the rest waits. That a supported name shares a token with a text it cites rests on
its tokens being finitely many (`SupportedIsNamed`); domains are distinct because each new one was compared with
all before it, which makes `Dedupe` find nothing among them (`NoDuplicates`).

*Verdicts.* A fact its evidence does not bear out becomes, once grounded, what it would have become had it never
been said (`UnsaidStaysUnsaid`, then one lemma for each kind of fact), so `Established`, what a reader who asks
for evidence learns, is the same for both cases. That every reader does ask is `ScoreAlike`, dimension by
dimension; with it the outcome is the same (`OutcomeIgnoresTheUnsaid`). The precedence of
`_derive_final_status` gives the rest.

*ContactMatch.* Given name and surname are the least and the greatest place of a token that is no title, so
titles that follow change neither; that there is a least and a greatest is well-foundedness of the
naturals (`LeastOfNumbers`, `GreatestOfNumbers`). An observation of Hunter does not contain what the query said.

*ContactChannels.* `LastKnownGood` is inductive with the type invariant. `RestrictionBars`
needs `RestrictionHeld`: a restricted address is in the shared table, and the prospect's own
row either carries the suppression or, when its transaction was rolled back, still shows
the barred address, since its step makes no further attempt.

*RunBudgets.* The many ends of a call and of a step come down to seven shapes of a step (`Shape`),
and each part of the invariant is kept by each shape. `CallsAreCounted` says that the
attempts of a call are its retries, its repair and the one in flight, which bounds them;
`TicketsAreHeld` that a metered call has a ticket no other has, under which exactly its
attempts were made, which carries that bound to what the provider sees. The bound on the overrun
is not inductive: one answer may still push `spent` past any value short of it. What is inductive
counts, beside `spent`, the attempts the calls under way may still charge (`Due`): an answer
removes one from it, a call enters it only through the gate, hence before the trip, and
at the trip it is short of the product of running prospects and attempts by the one just charged.
Permits and the calls in flight of a pool balance (`PermitsBalance`).

The invariants `IInv`, `AnswersIInv`, `IntakeIInv`, `MetricsIInv`, `DiscoveryIInv` and `SourcesIInv` (with the passes
of `PassesInTurn` bounded) and the type invariants
were checked with TLC before they were proved, and are not among the runs' properties since (add one to a cfg's
invariants to evaluate it); the same goes for LiveSend's `UncertainIsReconcilable`, `NoAnomaly` and `FailedIsFinal`, which
`RecoveryIsTotal` and `FailedIsFinalHolds` cover.

*Only model-checked:*

* liveness (`EveryClaimSettles`, `EveryRunEnds`, `FollowingEnds`, `RunNeverHangs`, `EveryProspectEnds`), and
  with it `ENABLED`, which is beyond the prover's reach. That the loops of SourceSelection end was checked on the
  instance of `live_parts` under weak fairness of their step; no run is kept for it.

Every invariant, action property and refinement of a passing run is stated by a theorem. The modules have no
recursive operator: loops are actions, and what a loop computes is an invariant of the machine that runs it. The
sums of a report (attempts, cost) are folds, of which nothing is claimed but that equal tables give equal sums.


## 5. Not modelled, and why

* Pure I/O and data: network clients and their telemetry, MIME, demo fixtures, prompts, scripts,
  migrations, web rendering, serialization. They decide nothing that another component relies on.
* Text: tokenizing, normalizing of names and URLs, the public-suffix list, the reading of dates and
  numbers in a text, hashing. The modules start from their results, so what they show
  presumes that equal things have equal normal forms.
* What a model answers: proposals, facts and drafts are inputs, anything the schema allows.
* The demo and LinkedIn branches of `execute`, the read of Gmail's history pages, and the clauses
  of the policy for channels other than live e-mail: planned, section 7.
* Three parts of a report that read one table each: latency, search calls, actions.
* Clock skew: all ages are taken from one clock. Processes whose clocks differ by a sizeable
  part of the staleness threshold are outside the model.


## 6. Findings

Each is a line of the repository, quoted in `PROJECT.json`, that the code does not keep; TLC
shows how.

1. **A live run loses its lease** (`violation_live_run_keeps_lease`). One heartbeat write that
   raises ends the heartbeat loop; the process's own reaper then interrupts the run.
2. **A message leaves from another account** (`violation_sent_from_approved`). The connected
   account is compared with the approved one, and read a second time to build the provider; a
   reconnection in between is not noticed.

Observations met on the way that no run is kept for:

* *Sending.* `_settle` (`repositories/actions.py:456-494`) writes whatever it classified, so a
  dispatcher that outlives the stale lease turns ABANDONED into UNCERTAIN, or SUCCEEDED into
  UNCERTAIN. No second delivery follows: that is proved. The assertion after a failed INSERT
  (`repositories/actions.py:327-331`) fails when it was the recipient index that refused the
  row: LiveSend reaches `pc = "assert_failed"`. Recovery settles a stale `CLAIMED` row
  `FAILED`, although a comment in `models/enums.py:243` speaks of "never to FAILED" for
  recovery (right for IN_FLIGHT, and safe for CLAIMED: `FailedIsUndelivered`).
* *Allowance.* A reservation has the date of its claim, and nothing bounds what lies between
  claim and dispatch: a day can see more dispatches than `LIVE_MAX_SENDS_PER_DAY`, up to twice
  as many if none is more than a day late.
* *Gates.* Two proposals of one draft with different senders, created together, both stay
  un-superseded, although the docstring at `repositories/actions.py:10-12` speaks of one at
  a time. A proposal stored as BLOCKED is returned as it is for ever, since the content is the
  key. A superseded proposal can still be approved and executed. An OAuth callback that
  completes after a disconnect reconnects the account.
* *Contacts.* A timeout before the transaction of a restriction commits loses the restriction;
  the retry may get another answer. A timeout between the commit of the channel rows and their
  assignment to the context (`engine/enrichment.py:84`) leaves the review with older states than the
  database: a prospect may pass although a row says MISMATCH, which `domain/review.py:78`
  hard-fails. The policy reads the rows and requires a strong match, so nothing is sent.
  "J Rao" strongly matches both Jon and John Rao; a name whose first token is the letter V loses it as an
  honorific; two company names of punctuation only match each other and nothing else.
* *Budgets.* `engine/search_budget.py:1-6` speaks of hard ceilings on the real volume of calls; a reservation
  covers a logical call, and its retries are not counted (`VolumeIsBounded`). `engine/run_budget.py:1-7` says
  that future calls do not start once the threshold is reached; retries and repairs of a call
  that was let in still do (`OverrunIsBounded`). A cancelled attempt is not charged. Prospects whose
  score is due when it trips end as FAILED, although only the explanation needed the model.
  `research` fetches again after a retry if the fetch had found nothing or was cut off
  (`engine/steps/research.py:41-45` speaks of at most once). `llm_max_schema_retries` is never read.
* *Answers.* OpenAI's other 4xx become PROVIDER_ERROR and are retried; a 451 of Apollo is an
  invalid response and suppresses nobody; an extraction in which every page failed is labelled EMPTY_RESULT.
* *Sources.* `providers/live/tavily_search.py:369` says that research derives the identical winners
  again; extraction changes digests, so groups may differ, and research does not truncate
  to the number of sources a prospect may have. No source is lost by it and none counted twice (`OneWinnerPerSource`).
* *Discovery.* A name proposed twice is dropped silently, and of the names left over when the
  budget of resolutions is spent only the first has an event. `not_served` cannot be reached: the served
  domains are those of the candidates themselves.
* *Evidence.* A fact whose source was not served keeps the evidence ids the model wrote until signals
  demotes it; an id the model guessed right would be kept.
* *Admission.* Requests served together exceed the caps by one less than their number
  (`api/routers/plays.py:308-319`); a collision over a new company fails the run that lost
  (`repositories/prospects.py:23-40`).
* *Evaluation.* The reads are not one snapshot: figures of prospects that were still running may come from
  different moments (`ReportIsFaithful` says how far that goes).
* *Runs.* `docs/RUNBOOK.md:54-55` gives the reaper's delay without the interval, the bound is
  threshold plus interval (`StaleIsBounded`); an interrupted run writes no event although
  `observability/events.py:1-2` speaks of every transition; with a reaper loop that has
  died of an exception, shutdown re-raises it before the drain (`main.py:161`) and
  `ShutdownLeavesNothing` fails: add `"reaper"` to `Faults` in `run_lease_timely.cfg` to see it.
* *Engine.* A `TimeoutError` of the database in the loop over the outcomes is taken for the
  wall clock (`engine/runner.py:284-295`), and outcomes counted so far are counted again;
  `CountersAreTheRows` says what the counters are worth then (`early`).
* *Drafts.* `engine/steps/personalize.py:8` speaks of one e-mail draft; a retry of
  personalize repeats the draft its first attempt had already added (`DraftsFollowAttempts`).
* *Stream.* The generator may return with the last row unsent (`api/routers/runs.py:96`): it
  reads rows before the status, and the last event is appended after the status. The
  board learns of the end from its refresh (`FollowingEnds`), but may miss that event.


## 7. Plan

In order of importance:

1. A proof that `ProviderAnswers` implements the attempts of `RunBudgets`' calls.
2. The demo and LinkedIn branches of `execute`, as further actions of LiveSend and ActionGate.
3. Composition: LiveSend's reservation as a step of SendAllowance, its claim as ActionGate's
   `holder` and `executed`, and RunBudgets' calls as the attempts of RunExecutor's steps.
4. Reconciliation matching over bounded history pages, against "the message of this checkpoint".
5. The remaining figures of a report (section 5).

The number of runs is kept small: parts that share no state have one run (`live_parts`), and a
finding whose run gave way to another component is among the observations of section 6.
