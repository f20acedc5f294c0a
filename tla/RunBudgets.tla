------------------------------ MODULE RunBudgets ------------------------------
(***************************************************************************)
(* The budgets of one Live run.  Its prospects go through their pipelines    *)
(* concurrently; the steps that need a provider make logical calls, each a   *)
(* flat loop of attempts behind the semaphore of its provider.               *)
(*                                                                          *)
(* SearchCallBudget and EnrichmentCallBudget are hard: a logical call        *)
(* reserves its place before its first attempt.  RunBudget is soft: a        *)
(* logical LLM call looks at what was spent before its first attempt, and    *)
(* every attempt is charged after its answer.  A step may be cancelled by    *)
(* its timeout anywhere, and is then retried or given up.                    *)
(***************************************************************************)
EXTENDS Naturals, Sequences, FiniteSets

CONSTANTS
    Prospect,
    MaxConcurrent,      \* max_concurrent_prospects
    Queries,            \* category queries of fetch_sources, per prospect
    Cap,                \* calls a run may reserve, by kind
    SoftLimit,          \* live_run_soft_budget_usd, in units of the dearest attempt
    Slots,              \* permits of each provider's semaphore
    TransportRetries,   \* max_transport_retries of each provider
    StepRetries         \* max_retries of each step that calls a provider

Metered == {"search", "extract", "enrich"}
Pool == {"search", "enrich", "llm"}
StepName == {"research", "score", "contact_enrichment", "personalize"}

ASSUME BudgetsAssumption ==
    /\ IsFiniteSet(Prospect)
    /\ MaxConcurrent \in Nat \ {0}
    /\ Queries \in Nat \ {0}
    /\ Cap \in [Metered -> Nat]
    /\ SoftLimit \in Nat
    /\ Slots \in [Pool -> Nat \ {0}]
    /\ TransportRetries \in [Pool -> Nat]
    /\ StepRetries \in [StepName -> Nat]

\* The logical calls of a prospect, in the order of its pipeline, and the
\* steps that make them: e-mail and LinkedIn drafts are two calls of one step.
End == Queries + 7
Place == 1..End
KindAt(i) == CASE i <= Queries     -> "search"
               [] i = Queries + 1  -> "extract"
               [] i = Queries + 4  -> "enrich"
               [] OTHER            -> "llm"
StepAt(i) == CASE i <= Queries + 2 -> "research"
               [] i = Queries + 3  -> "score"
               [] i = Queries + 4  -> "contact_enrichment"
               [] OTHER            -> "personalize"
FirstOf(s) == CASE s = "research"           -> 1
                [] s = "score"              -> Queries + 3
                [] s = "contact_enrichment" -> Queries + 4
                [] OTHER                    -> Queries + 5
After(s) == CASE s = "research"           -> Queries + 3
              [] s = "score"              -> Queries + 4
              [] s = "contact_enrichment" -> Queries + 5
              [] OTHER                    -> End
PoolOf(k) == IF k = "extract" THEN "search" ELSE k
Optional == {"contact_enrichment", "personalize"}

\* One logical LLM call: the first attempt, T transport retries, one repair.
MaxAttempts(k) == TransportRetries[PoolOf(k)] + (IF k = "llm" THEN 2 ELSE 1)

NoCall == [ticket |-> 0, made |-> 0, retries |-> 0, repaired |-> FALSE]

VARIABLES
    phase,      \* where the coroutine of a prospect is
    place,      \* the logical call it makes or is about to make
    tries,      \* attempts of the current step that were given up
    hits,       \* fetch_sources has found something on the company's domain
    call,       \* the counters of its logical call
    used,       \* reservations of each hard budget
    issued,     \* attempts made under each reservation
    spent,      \* what RunBudget has been charged
    late,       \* LLM attempts a prospect issued after the budget tripped
    free        \* permits left of each semaphore

progress == <<phase, place, tries, hits, call>>
budgets == <<used, issued, spent, late>>
vars == <<progress, budgets, free>>

Running == {p \in Prospect : phase[p] \in {"ready", "waiting", "flight"}}
Kind(p) == KindAt(place[p])
Tripped == spent >= SoftLimit

Init ==
    /\ phase = [p \in Prospect |-> "queued"]
    /\ place = [p \in Prospect |-> 1]
    /\ tries = [p \in Prospect |-> 0]
    /\ hits = [p \in Prospect |-> FALSE]
    /\ call = [p \in Prospect |-> NoCall]
    /\ used = [k \in Metered |-> 0]
    /\ issued = [k \in Metered |-> [t \in 1..Cap[k] |-> 0]]
    /\ spent = 0
    /\ late = [p \in Prospect |-> 0]
    /\ free = Slots

-----------------------------------------------------------------------------
(* How a logical call or a step ends.                                      *)

\* The prospect goes on with the call at i; found is what its fetch has so far.
GoTo(p, i, found) ==
    /\ place' = [place EXCEPT ![p] = i]
    /\ phase' = [phase EXCEPT ![p] = IF i = End THEN "done" ELSE "ready"]
    /\ tries' = [tries EXCEPT ![p] = IF StepAt(i) = StepAt(place[p]) /\ i # End THEN @ ELSE 0]
    /\ hits' = [hits EXCEPT ![p] = found /\ StepAt(i) = "research"]
    /\ call' = [call EXCEPT ![p] = NoCall]

CallReturns(p) == GoTo(p, place[p] + 1, hits[p])

\* Step.execute gives up: an optional step degrades, any other ends the prospect.
StepFails(p) ==
    GoTo(p, IF StepAt(place[p]) \in Optional THEN After(StepAt(place[p])) ELSE End, FALSE)

\* research fetches at most once, if the fetch came to an end and found something.
Restart(p) ==
    IF place[p] = Queries + 2 /\ hits[p] THEN place[p] ELSE FirstOf(StepAt(place[p]))

\* A retryable error or a timeout of the step.
StepRetriesOrFails(p) ==
    \/ /\ tries[p] < StepRetries[StepAt(place[p])]
       /\ tries' = [tries EXCEPT ![p] = @ + 1]
       /\ place' = [place EXCEPT ![p] = Restart(p)]
       /\ hits' = [hits EXCEPT ![p] = Restart(p) # 1 /\ @]
       /\ phase' = [phase EXCEPT ![p] = "ready"]
       /\ call' = [call EXCEPT ![p] = NoCall]
    \/ /\ tries[p] >= StepRetries[StepAt(place[p])]
       /\ StepFails(p)

Release(p) == free' = [free EXCEPT ![PoolOf(Kind(p))] = @ + 1]

-----------------------------------------------------------------------------
(* Before the first attempt.                                               *)

Start(p) ==
    /\ phase[p] = "queued"
    /\ Cardinality(Running) < MaxConcurrent
    /\ phase' = [phase EXCEPT ![p] = "ready"]
    /\ UNCHANGED <<place, tries, hits, call, budgets, free>>

\* No person to look up, nobody to write to, or no LinkedIn profile.
Skip(p) ==
    /\ phase[p] = "ready"
    /\ place[p] >= Queries + 4
    /\ GoTo(p, After(StepAt(place[p])), FALSE)
    /\ UNCHANGED <<budgets, free>>

\* Mutant: the last place is given twice.
RoomForOneMore(k) == used[k] < Cap[k] + 1

\* Compared and incremented under one lock.
HasRoom(k) == used[k] < Cap[k]

Reserve(p) ==
    LET k == Kind(p) IN
    /\ phase[p] = "ready"
    /\ k \in Metered
    /\ k = "extract" => hits[p]
    /\ HasRoom(k)
    /\ used' = [used EXCEPT ![k] = @ + 1]
    /\ call' = [call EXCEPT ![p] = [NoCall EXCEPT !.ticket = used[k] + 1]]
    /\ phase' = [phase EXCEPT ![p] = "waiting"]
    /\ UNCHANGED <<place, tries, hits, issued, spent, late, free>>

NothingToExtract(p) ==
    /\ phase[p] = "ready"
    /\ Kind(p) = "extract" /\ ~hits[p]
    /\ CallReturns(p)
    /\ UNCHANGED <<budgets, free>>

\* A search or extraction without a place is left out, a look-up fails its step.
Refused(p) ==
    /\ phase[p] = "ready"
    /\ Kind(p) \in Metered
    /\ Kind(p) = "extract" => hits[p]
    /\ ~HasRoom(Kind(p))
    /\ IF Kind(p) = "enrich" THEN StepFails(p) ELSE CallReturns(p)
    /\ UNCHANGED <<budgets, free>>

GateOpen(p) ==
    /\ phase[p] = "ready"
    /\ Kind(p) = "llm"
    /\ ~Tripped
    /\ phase' = [phase EXCEPT ![p] = "waiting"]
    /\ UNCHANGED <<place, tries, hits, call, budgets, free>>

\* ProviderBudgetExceeded is not retried.
GateShut(p) ==
    /\ phase[p] = "ready"
    /\ Kind(p) = "llm"
    /\ Tripped
    /\ StepFails(p)
    /\ UNCHANGED <<budgets, free>>

-----------------------------------------------------------------------------
(* Attempts.                                                               *)

Send(p) ==
    LET k == Kind(p) IN
    /\ phase[p] = "waiting"
    /\ free[PoolOf(k)] > 0
    /\ free' = [free EXCEPT ![PoolOf(k)] = @ - 1]
    /\ phase' = [phase EXCEPT ![p] = "flight"]
    /\ call' = [call EXCEPT ![p].made = @ + 1]
    /\ issued' = IF k \in Metered THEN [issued EXCEPT ![k][call[p].ticket] = @ + 1]
                 ELSE issued
    /\ late' = IF k = "llm" /\ Tripped THEN [late EXCEPT ![p] = @ + 1] ELSE late
    /\ UNCHANGED <<place, tries, hits, used, spent>>

\* A further attempt of the same logical call.
Again(p, retries, repaired) ==
    /\ phase' = [phase EXCEPT ![p] = "waiting"]
    /\ call' = [call EXCEPT ![p].retries = retries, ![p].repaired = repaired]
    /\ UNCHANGED <<place, tries, hits>>

\* Invalid JSON, another schema, or no output: one repair in a logical call.
Repair(p) == ~call[p].repaired /\ Again(p, call[p].retries, TRUE)

RetryTransport(p) ==
    /\ call[p].retries < TransportRetries[PoolOf(Kind(p))]
    /\ Again(p, call[p].retries + 1, call[p].repaired)

TransportExhausted(p) ==
    /\ call[p].retries >= TransportRetries[PoolOf(Kind(p))]
    /\ IF Kind(p) \in {"search", "extract"}
       THEN CallReturns(p)
       ELSE StepRetriesOrFails(p)

\* A permanent error degrades the fetch and fails any other step.
Permanent(p) ==
    IF Kind(p) \in {"search", "extract"}
    THEN CallReturns(p)
    ELSE StepFails(p)

Succeeds(p) ==
    \/ CallReturns(p)
    \/ Kind(p) = "search" /\ GoTo(p, place[p] + 1, TRUE)

\* The answer gives the permit back and is charged: nothing, or one unit.
Answer(p) ==
    /\ phase[p] = "flight"
    /\ Release(p)
    /\ IF Kind(p) = "llm" THEN \E cost \in 0..1 : spent' = spent + cost
                          ELSE UNCHANGED spent
    /\ \/ Succeeds(p)
       \/ RetryTransport(p)
       \/ TransportExhausted(p)
       \/ Permanent(p)
       \/ Kind(p) = "llm" /\ Repair(p)
       \/ Kind(p) = "llm" /\ call[p].repaired /\ StepFails(p)
    /\ UNCHANGED <<used, issued, late>>

\* Mutant: the cancelled attempt keeps its permit.
StepTimeoutLeaks(p) ==
    /\ phase[p] \in {"ready", "waiting", "flight"}
    /\ UNCHANGED free
    /\ StepRetriesOrFails(p)
    /\ UNCHANGED budgets

\* wait_for cancels the step where it is; an attempt in flight is not charged.
StepTimeout(p) ==
    /\ phase[p] \in {"ready", "waiting", "flight"}
    /\ IF phase[p] = "flight" THEN Release(p) ELSE UNCHANGED free
    /\ StepRetriesOrFails(p)
    /\ UNCHANGED budgets

-----------------------------------------------------------------------------
Advance(p) ==
    \/ Start(p) \/ Skip(p)
    \/ Reserve(p) \/ NothingToExtract(p) \/ Refused(p)
    \/ GateOpen(p) \/ GateShut(p)
    \/ Send(p) \/ Answer(p)

Finished == (\A p \in Prospect : phase[p] = "done") /\ UNCHANGED vars

Next == (\E p \in Prospect : Advance(p) \/ StepTimeout(p)) \/ Finished

Spec == Init /\ [][Next]_vars

\* asyncio resumes every coroutine that can run, its semaphores are first come
\* first served, and each attempt is bounded by the deadline of its call.
FairSpec == Spec /\ \A p \in Prospect : WF_vars(Advance(p))

-----------------------------------------------------------------------------
(* Properties.                                                             *)

CallState == [ticket : Nat, made : Nat, retries : Nat, repaired : BOOLEAN]

\* The variables have their types.
TypeOK ==
    /\ phase \in [Prospect -> {"queued", "ready", "waiting", "flight", "done"}]
    /\ place \in [Prospect -> Place]
    /\ tries \in [Prospect -> Nat]
    /\ hits \in [Prospect -> BOOLEAN]
    /\ call \in [Prospect -> CallState]
    /\ used \in [Metered -> Nat]
    /\ DOMAIN issued = Metered
    /\ \A k \in Metered : issued[k] \in [1..Cap[k] -> Nat]
    /\ spent \in Nat
    /\ late \in [Prospect -> Nat]
    /\ free \in [Pool -> Nat]

Holds(p, k, t) == phase[p] # "done" /\ Kind(p) = k /\ call[p].ticket = t

\* Whoever races for the last place of a budget, every reservation is within
\* the cap, belongs to one logical call, and covers one attempt and its retries:
\* this, not the cap, bounds what the provider sees.
VolumeIsBounded ==
    \A k \in Metered :
        /\ used[k] <= Cap[k]
        /\ \A t \in 1..Cap[k] :
            /\ issued[k][t] <= 1 + TransportRetries[PoolOf(k)]
            /\ \A p, q \in Prospect : Holds(p, k, t) /\ Holds(q, k, t) => p = q

\* Once the threshold is reached, each prospect ends at most the call it was
\* in, and what the run spends beyond is that much for each running prospect; a
\* repair brings no fresh transport retries: 1 + T + 1 attempts, not (1 + T) * 2.
OverrunIsBounded ==
    /\ \A p \in Prospect : call[p].made <= MaxAttempts(Kind(p))
    /\ \A p \in Prospect : late[p] <= MaxAttempts("llm")
    /\ spent < SoftLimit + MaxConcurrent * MaxAttempts("llm")

\* The hard budgets bound what is asked of the providers, the soft one what is
\* spent beyond it, whoever races whom.
BudgetsHold == VolumeIsBounded /\ OverrunIsBounded

\* Whatever is cancelled where, no permit of a semaphore is lost or made up.
PermitsAreKept ==
    \A q \in Pool :
        free[q] + Cardinality({p \in Prospect : phase[p] = "flight" /\ PoolOf(Kind(p)) = q})
            = Slots[q]

\* Nobody waits for ever for a place or a permit.
EveryProspectEnds == \A p \in Prospect : <>(phase[p] = "done")
-----------------------------------------------------------------------------
(* The inductive invariant behind BudgetsHold and PermitsAreKept.          *)

InCall(p) == phase[p] \in {"waiting", "flight"}
Repairs(p) == IF call[p].repaired THEN 1 ELSE 0
Flying(p) == IF phase[p] = "flight" THEN 1 ELSE 0

\* The counters of a call say how many attempts it has made; only an LLM call
\* is repaired, and nobody without a call has counters.
CallsAreCounted ==
    \A p \in Prospect :
        /\ phase[p] # "done" => place[p] < End
        /\ ~InCall(p) => call[p] = NoCall
        /\ InCall(p) =>
              /\ call[p].retries <= TransportRetries[PoolOf(Kind(p))]
              /\ call[p].repaired => Kind(p) = "llm"
              /\ call[p].made = call[p].retries + Repairs(p) + Flying(p)

\* A metered call holds a ticket of its own, under which its attempts were made.
TicketsAreHeld ==
    /\ \A p \in Prospect :
           InCall(p) /\ Kind(p) \in Metered =>
               /\ call[p].ticket \in 1..used[Kind(p)]
               /\ issued[Kind(p)][call[p].ticket] = call[p].made
    /\ \A p, q \in Prospect :
           InCall(p) /\ InCall(q) /\ Kind(p) \in Metered /\ Kind(p) = Kind(q)
               /\ call[p].ticket = call[q].ticket => p = q
    /\ \A k \in Metered :
           /\ used[k] <= Cap[k]
           /\ \A t \in 1..Cap[k] :
                 /\ issued[k][t] <= 1 + TransportRetries[PoolOf(k)]
                 /\ t > used[k] => issued[k][t] = 0

\* Attempts after the trip belong to the one call the prospect was in.
LateIsOneCall ==
    \A p \in Prospect :
        /\ late[p] > 0 => Tripped
        /\ late[p] <= MaxAttempts("llm")
        /\ InCall(p) /\ Kind(p) = "llm" => late[p] <= call[p].made

\* The attempts the LLM calls under way may still charge.
Due ==
    {d \in Running \X (1..MaxAttempts("llm")) :
        LET p == d[1] IN
        /\ InCall(p) /\ Kind(p) = "llm"
        /\ d[2] > call[p].made - Flying(p)}

OverrunIsDue ==
    /\ Cardinality(Running) <= MaxConcurrent
    /\ Tripped => spent + Cardinality(Due) < SoftLimit + MaxConcurrent * MaxAttempts("llm")

IInv ==
    /\ TypeOK /\ CallsAreCounted /\ TicketsAreHeld /\ LateIsOneCall
    /\ OverrunIsDue /\ PermitsAreKept
==============================================================================
