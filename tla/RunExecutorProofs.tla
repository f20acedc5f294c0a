-------------------------- MODULE RunExecutorProofs --------------------------
(***************************************************************************)
(* Proofs about RunExecutor, for any number of prospects, any keys, retries *)
(* and concurrency.                                                         *)
(*                                                                          *)
(* The argument: a row is written by its own coroutine, once and from       *)
(* RUNNING, or by execute_run when every coroutine is gone; so a verdict    *)
(* never replaces a loss, and the outcomes execute_run counts are the rows. *)
(***************************************************************************)
EXTENDS RunExecutor, FiniteSetTheorems, TLAPS

LEMMA StepFacts ==
    /\ Len(Steps) = 8
    /\ \A i \in 1..8 : Steps[i] \in StepName
    /\ \A i \in 1..8 : Steps[i] = "review" <=> i = 8
    /\ "review" \notin Optional
BY DEF Steps, StepName, Optional

\* The disjointness of the kinds of status the proofs rest on.
LEMMA StatusFacts ==
    /\ Reviewed \intersect Lost = {}
    /\ \A s \in {"NONE", "RUNNING", "DUPLICATE"} : s \notin Reviewed /\ s \notin Lost
    /\ "FAILED" \in Lost /\ "TIMED_OUT" \in Lost
    /\ Reviewed \subseteq ProspectStatus /\ Lost \subseteq ProspectStatus
    /\ "RUNNING" \in ProspectStatus /\ "DUPLICATE" \in ProspectStatus /\ "NONE" \notin ProspectStatus
BY DEF Reviewed, Lost, ProspectStatus

LEMMA InitIInv == Init => IInv
<1> SUFFICES ASSUME Init PROVE IInv
  OBVIOUS
<1>1. TypeOK
  <2>1. \A p \in Prospect : attempt[p] <= Retries[StepOf(p)]
    BY StepFacts, ExecutorAssumption DEF Init, StepOf
  <2> QED
    BY <2>1, StepFacts, StatusFacts DEF Init, TypeOK
<1> QED
  BY <1>1, StatusFacts DEF Init, IInv, DiscoveryComesFirst, CoroutineMatchesRow, OutcomeIsRow,
     OneOriginalPerKey, NobodyIsLeft, ReviewedIsPersisted, Going, Done

LEMMA DiscoveryStep ==
    ASSUME IInv, FanOut \/ DiscoveryRaises \/ \E p \in Prospect : CreateProspect(p)
    PROVE  IInv'
<1> USE StatusFacts DEF IInv
<1>1. CASE \E p \in Prospect : CreateProspect(p)
  <2> PICK p \in Prospect : CreateProspect(p)
    BY <1>1
  <2>1. TypeOK' /\ UNCHANGED <<runVars, pc, workVars, announced, outcome>>
    BY DEF CreateProspect, TypeOK, runVars, workVars, StepOf
  <2>2. /\ phase = "discovering" /\ row[p] = "NONE"
        /\ row'[p] \in {"RUNNING", "DUPLICATE"}
        /\ row'[p] = "RUNNING" =>
              \A q \in Prospect : row[q] \notin {"NONE", "DUPLICATE"} => KeyOf[q] # KeyOf[p]
        /\ \A q \in Prospect \ {p} : row'[q] = row[q]
    BY DEF CreateProspect, FindDuplicate, Seeds, TypeOK
  <2>3. OneOriginalPerKey'
    BY <2>2 DEF OneOriginalPerKey
  <2> QED
    BY <2>1, <2>2, <2>3 DEF runVars, workVars, DiscoveryComesFirst, CoroutineMatchesRow,
       OutcomeIsRow, NobodyIsLeft, ReviewedIsPersisted, Going, Done
<1>2. CASE FanOut \/ DiscoveryRaises
  <2>1. /\ UNCHANGED <<run, counters, early, row, workVars, announced, outcome>>
        /\ phase = "discovering"
        /\ \/ /\ phase' = "gathering"
              /\ pc' = [p \in Prospect |-> IF row[p] # "NONE" THEN "ready" ELSE "none"]
           \/ phase' = "raised" /\ pc' = pc
    BY <1>2 DEF FanOut, DiscoveryRaises, Seeds
  <2>2. TypeOK'
    BY <2>1 DEF TypeOK, workVars, StepOf
  <2> QED
    BY <2>1, <2>2 DEF workVars, DiscoveryComesFirst, CoroutineMatchesRow, OutcomeIsRow,
       OneOriginalPerKey, NobodyIsLeft, ReviewedIsPersisted, Going, Done
<1> QED
  BY <1>1, <1>2

\* A step of a coroutine changes nothing of another prospect's.
OthersKept(p) ==
    \A q \in Prospect \ {p} :
        /\ row'[q] = row[q] /\ pc'[q] = pc[q] /\ verdict'[q] = verdict[q]
        /\ persisted'[q] = persisted[q] /\ outcome'[q] = outcome[q]

\* All the ways a coroutine changes its own prospect's state.
OwnChange(p) ==
    \/ /\ pc[p] = "ready" /\ row[p] = "DUPLICATE"
       /\ pc'[p] = "writing" /\ verdict'[p] = "DUPLICATE"
       /\ row'[p] = row[p] /\ persisted'[p] = persisted[p] /\ outcome'[p] = outcome[p]
    \/ /\ pc[p] = "ready" /\ row[p] # "DUPLICATE" /\ pc'[p] = "waiting"
       /\ row'[p] = row[p] /\ persisted'[p] = persisted[p] /\ outcome'[p] = outcome[p]
    \/ /\ pc[p] \in {"waiting", "stepping"} /\ pc'[p] = "stepping"
       /\ row'[p] = row[p] /\ persisted'[p] = persisted[p] /\ outcome'[p] = outcome[p]
    \/ /\ pc[p] = "stepping" /\ pc'[p] = "saving" /\ verdict'[p] \in Reviewed
       /\ row'[p] = row[p] /\ persisted'[p] = persisted[p] /\ outcome'[p] = outcome[p]
    \/ /\ pc[p] = "stepping" /\ pc'[p] = "writing" /\ verdict'[p] = "FAILED"
       /\ row'[p] = row[p] /\ persisted'[p] = persisted[p] /\ outcome'[p] = outcome[p]
    \/ /\ pc[p] = "saving" /\ verdict'[p] = verdict[p]
       /\ \/ pc'[p] = "saving"
          \/ pc'[p] = "writing" /\ persisted'[p] = "all"
       /\ row'[p] = row[p] /\ outcome'[p] = outcome[p]
    \/ /\ pc[p] = "writing" /\ pc'[p] = "telling" /\ row'[p] = verdict[p]
       /\ verdict'[p] = verdict[p] /\ persisted'[p] = persisted[p] /\ outcome'[p] = outcome[p]
    \/ /\ pc[p] = "telling" /\ pc'[p] = "told" /\ row'[p] = row[p]
       /\ verdict'[p] = verdict[p] /\ persisted'[p] = persisted[p] /\ outcome'[p] = outcome[p]
    \/ /\ pc[p] = "told" /\ pc'[p] = "returned" /\ row'[p] = row[p] /\ outcome'[p] = verdict[p]
       /\ verdict'[p] = verdict[p] /\ persisted'[p] = persisted[p]
    \/ /\ pc[p] \in {"ready", "saving", "writing", "telling"} /\ pc'[p] = "raised"
       /\ row'[p] = row[p] /\ persisted'[p] = persisted[p] /\ outcome'[p] = outcome[p]

\* The attempts of a step stay within its retries.
AttemptsInBounds == \A q \in Prospect : attempt[q] <= Retries[StepOf(q)]

\* What the variables of a coroutine are typed by, the bound aside.
WorkType ==
    /\ pc \in [Prospect -> {"none", "ready", "waiting", "stepping", "saving",
                            "writing", "telling", "told", "returned", "raised", "cancelled"}]
    /\ step \in [Prospect -> 1..8]
    /\ attempt \in [Prospect -> Nat]
    /\ emails \in [Prospect -> Nat]
    /\ verdict \in [Prospect -> ProspectStatus \union {"NONE"}]
    /\ persisted \in [Prospect -> {"nothing", "part", "all"}]

\* What its coroutine and execute_run write of a prospect.
RowType ==
    /\ row \in [Prospect -> ProspectStatus \union {"NONE"}]
    /\ announced \in [Prospect -> ProspectStatus \union {"NONE"}]
    /\ outcome \in [Prospect -> ProspectStatus \union {"NONE"}]

LEMMA TypeParts ==
    TypeOK <=> /\ WorkType /\ RowType /\ AttemptsInBounds
               /\ run \in {"RUNNING", "COMPLETED", "PARTIAL", "INTERRUPTED"}
               /\ counters \in {<<>>} \union [ProspectStatus -> Nat]
               /\ early \in [ProspectStatus -> Nat]
               /\ phase \in {"discovering", "gathering", "settling_failed",
                             "settling_timed_out", "raised", "done", "failed"}
BY StepFacts DEF TypeOK, WorkType, RowType, AttemptsInBounds, Done

LEMMA OneWorkType ==
    ASSUME NEW p \in Prospect, WorkType, One(p)
    PROVE  WorkType'
<1> USE StepFacts, StatusFacts DEF WorkType, Goto, workVars
<1>1. CASE Discovered(p)
  BY <1>1 DEF Discovered
<1>2. CASE EnterGate(p) \/ Raise(p)
  BY <1>2 DEF EnterGate, Raise
<1>3. CASE Save(p)
  BY <1>3 DEF Save
<1>4. CASE WriteVerdict(p) \/ Announce(p) \/ Return(p)
  BY <1>4 DEF WriteVerdict, Announce, Return
<1>5. CASE StepSucceeds(p)
  <2>1. \E s \in ProspectStatus \union {"NONE"} : verdict' = [verdict EXCEPT ![p] = s]
    BY <1>5, ExecutorAssumption DEF StepSucceeds
  <2>2. Drafted(p) \in Nat
    BY DEF Drafted
  <2>3. step[p] \in 1..8 /\ (step[p] # 8 => step[p] + 1 \in 1..8)
    OBVIOUS
  <2>4. step' \in [Prospect -> 1..8] /\ attempt' \in [Prospect -> Nat]
    BY <1>5, <2>3 DEF StepSucceeds, Advance
  <2>5. pc' \in [Prospect -> {"none", "ready", "waiting", "stepping", "saving",
                            "writing", "telling", "told", "returned", "raised", "cancelled"}]
    BY <1>5 DEF StepSucceeds, Advance, NextStep
  <2>6. emails' \in [Prospect -> Nat]
    BY <1>5, <2>2 DEF StepSucceeds
  <2>7. verdict' \in [Prospect -> ProspectStatus \union {"NONE"}] /\ persisted' = persisted
    BY <1>5, <2>1 DEF StepSucceeds
  <2> QED
    BY <2>4, <2>5, <2>6, <2>7
<1>6. CASE StepRetries(p)
  <2>1. DraftedBeforeFailing(p) \subseteq Nat
    BY DEF DraftedBeforeFailing
  <2> QED
    BY <1>6, <2>1 DEF StepRetries
<1>7. CASE StepDegrades(p)
  <2>1. DraftedBeforeFailing(p) \subseteq Nat
    BY DEF DraftedBeforeFailing
  <2>2. step[p] \in 1..8 /\ (step[p] # 8 => step[p] + 1 \in 1..8)
    OBVIOUS
  <2>3. step' \in [Prospect -> 1..8] /\ attempt' \in [Prospect -> Nat]
    BY <1>7, <2>2 DEF StepDegrades, Advance
  <2>4. pc' \in [Prospect -> {"none", "ready", "waiting", "stepping", "saving",
                            "writing", "telling", "told", "returned", "raised", "cancelled"}]
    BY <1>7 DEF StepDegrades, Advance, NextStep
  <2>5. emails' \in [Prospect -> Nat]
    BY <1>7, <2>1 DEF StepDegrades
  <2> QED
    BY <1>7, <2>3, <2>4, <2>5 DEF StepDegrades
<1>8. CASE StepFails(p)
  BY <1>8 DEF StepFails
<1> QED
  BY <1>1, <1>2, <1>3, <1>4, <1>5, <1>6, <1>7, <1>8 DEF One

LEMMA OneRowType ==
    ASSUME NEW p \in Prospect, WorkType, RowType, One(p)
    PROVE  RowType'
<1>1. CASE UNCHANGED <<row, announced, outcome>>
  BY <1>1 DEF RowType
<1>2. CASE WriteVerdict(p) \/ Announce(p) \/ Return(p)
  BY <1>2 DEF WriteVerdict, Announce, Return, RowType, WorkType
<1> QED
  BY <1>1, <1>2 DEF One, Discovered, EnterGate, Save, Raise,
     StepSucceeds, StepRetries, StepDegrades, StepFails

LEMMA OneAttempts ==
    ASSUME NEW p \in Prospect, WorkType, AttemptsInBounds, One(p)
    PROVE  AttemptsInBounds'
<1>1. CASE UNCHANGED <<step, attempt>>
  BY <1>1 DEF AttemptsInBounds, StepOf
<1>2. CASE StepRetries(p)
  <2>1. /\ step' = step
        /\ attempt' = [attempt EXCEPT ![p] = @ + 1]
        /\ attempt[p] < Retries[StepOf(p)]
    BY <1>2 DEF StepRetries, CanRetry
  <2>2. Retries[StepOf(p)] \in Nat /\ attempt[p] \in Nat
    BY ExecutorAssumption, StepFacts DEF StepOf, WorkType
  <2>3. attempt'[p] <= Retries[StepOf(p)]
    BY <2>1, <2>2 DEF WorkType
  <2> QED
    BY <2>1, <2>3 DEF AttemptsInBounds, StepOf, WorkType
<1>3. CASE Advance(p)
  <2>1. attempt'[p] = 0 /\ step'[p] \in 1..8
    BY <1>3, StepFacts DEF Advance, WorkType
  <2>2. attempt'[p] <= Retries[StepOf(p)']
    BY <2>1, ExecutorAssumption, StepFacts DEF StepOf
  <2>3. \A q \in Prospect \ {p} : attempt'[q] = attempt[q] /\ step'[q] = step[q]
    BY <1>3 DEF Advance, WorkType
  <2> QED
    BY <2>2, <2>3 DEF AttemptsInBounds, StepOf
<1> QED
  BY <1>1, <1>2, <1>3 DEF One, Discovered, EnterGate, Save, WriteVerdict, Announce, Return, Raise,
     StepSucceeds, StepDegrades, StepFails, workVars

LEMMA OneType ==
    ASSUME NEW p \in Prospect, TypeOK, One(p)
    PROVE  TypeOK'
<1>1. UNCHANGED runVars
  BY DEF One, Discovered, EnterGate, Save, WriteVerdict, Announce, Return, Raise,
     StepSucceeds, StepRetries, StepDegrades, StepFails
<1> QED
  <2>1. WorkType' /\ RowType' /\ AttemptsInBounds'
    BY TypeParts, OneWorkType, OneRowType, OneAttempts
  <2> QED
    BY <1>1, <2>1, TypeParts, StepFacts
       DEF runVars, TypeOK, WorkType, RowType, AttemptsInBounds, Done

LEMMA OneChanges ==
    ASSUME NEW p \in Prospect, TypeOK, One(p)
    PROVE  OwnChange(p) /\ OthersKept(p) /\ UNCHANGED runVars
<1> DEFINE Functions == /\ DOMAIN row = Prospect /\ DOMAIN pc = Prospect
                        /\ DOMAIN verdict = Prospect /\ DOMAIN persisted = Prospect
                        /\ DOMAIN outcome = Prospect
<1>0. Functions
  BY DEF TypeOK
<1>a. UNCHANGED runVars
  BY DEF One, Discovered, EnterGate, Save, WriteVerdict, Announce, Return, Raise,
     StepSucceeds, StepRetries, StepDegrades, StepFails
<1> SUFFICES OwnChange(p) /\ OthersKept(p)
  BY <1>a
<1> HIDE DEF Functions
<1> USE DEF Goto, workVars
<1>1. CASE Discovered(p)
  <2>1. OthersKept(p)
    BY <1>0, <1>1 DEF Functions, Discovered, OthersKept
  <2>2. CASE row[p] = "DUPLICATE"
    <3>1. pc'[p] = "writing" /\ verdict'[p] = "DUPLICATE"
      BY <1>0, <1>1, <2>2 DEF Functions, Discovered
    <3> QED
      BY <1>1, <2>1, <2>2, <3>1 DEF Discovered, OwnChange
  <2>3. CASE row[p] # "DUPLICATE"
    <3>1. pc'[p] = "waiting"
      BY <1>0, <1>1, <2>3 DEF Functions, Discovered
    <3> QED
      BY <1>1, <2>1, <2>3, <3>1 DEF Discovered, OwnChange
  <2> QED
    BY <2>2, <2>3
<1>2. CASE EnterGate(p) \/ Raise(p)
  <2>1. OthersKept(p)
    BY <1>0, <1>2 DEF Functions, EnterGate, Raise, OthersKept
  <2>2. OwnChange(p)
    BY <1>0, <1>2 DEF Functions, EnterGate, Raise, OwnChange
  <2> QED
    BY <2>1, <2>2
<1>3. CASE Save(p)
  <2>1. OthersKept(p)
    BY <1>0, <1>3 DEF Functions, Save, OthersKept
  <2>2. OwnChange(p)
    BY <1>0, <1>3 DEF Functions, Save, OwnChange
  <2> QED
    BY <2>1, <2>2
<1>4. CASE WriteVerdict(p) \/ Announce(p) \/ Return(p)
  <2>1. OthersKept(p)
    BY <1>0, <1>4 DEF Functions, WriteVerdict, Announce, Return, OthersKept
  <2>2. OwnChange(p)
    BY <1>0, <1>4 DEF Functions, WriteVerdict, Announce, Return, OwnChange
  <2> QED
    BY <2>1, <2>2
<1> USE StepFacts, StatusFacts, ExecutorAssumption DEF TypeOK, StepOf, OthersKept, OwnChange
<1>5. CASE StepSucceeds(p)
  BY <1>5 DEF StepSucceeds, Advance, NextStep
<1>6. CASE StepRetries(p)
  BY <1>6 DEF StepRetries
<1>7. CASE StepDegrades(p)
  BY <1>7 DEF StepDegrades, Advance, NextStep
<1>8. CASE StepFails(p)
  BY <1>8 DEF StepFails
<1> QED
  BY <1>1, <1>2, <1>3, <1>4, <1>5, <1>6, <1>7, <1>8 DEF One

LEMMA CoroutineStep ==
    ASSUME NEW p \in Prospect, IInv, One(p)
    PROVE  IInv'
<1>1. TypeOK' /\ OwnChange(p) /\ OthersKept(p) /\ UNCHANGED runVars
  BY OneType, OneChanges DEF IInv
<1>2. p \in Going
  BY <1>1 DEF OwnChange, Going, Done
<1>3. DiscoveryComesFirst'
  BY <1>1, <1>2 DEF IInv, DiscoveryComesFirst, Going, runVars
<1>4. CoroutineMatchesRow'
  <2> SUFFICES ASSUME NEW q \in Prospect PROVE CoroutineMatchesRow!(q)'
    BY DEF CoroutineMatchesRow
  <2> QED
    BY <1>1, StatusFacts DEF IInv, CoroutineMatchesRow, OwnChange, OthersKept
<1>5. OutcomeIsRow'
  BY <1>1, <1>2, StatusFacts DEF IInv, OutcomeIsRow, CoroutineMatchesRow, OwnChange, OthersKept,
     Going, Done, runVars
<1>6. OneOriginalPerKey'
  <2>1. \A q \in Prospect : row'[q] \in {"RUNNING"} \union Reviewed =>
            row[q] \in {"RUNNING"} \union Reviewed
    BY <1>1, StatusFacts DEF IInv, CoroutineMatchesRow, OwnChange, OthersKept
  <2> QED
    BY <2>1 DEF IInv, OneOriginalPerKey
<1>7. NobodyIsLeft'
  BY <1>1, <1>2 DEF IInv, NobodyIsLeft, Going, Done, OwnChange, OthersKept, runVars
<1>8. ReviewedIsPersisted'
  BY <1>1, StatusFacts DEF IInv, ReviewedIsPersisted, CoroutineMatchesRow, OwnChange, OthersKept
<1> QED
  BY <1>1, <1>3, <1>4, <1>5, <1>6, <1>7, <1>8 DEF IInv

-----------------------------------------------------------------------------
(* execute_run around the coroutines.                                      *)

LEMMA GatherStep ==
    ASSUME IInv, GatherReturns \/ TimeOut
    PROVE  IInv'
<1>1. /\ UNCHANGED <<run, counters, early, row, workVars, announced, outcome>>
      /\ phase = "gathering" /\ phase' \in {"settling_failed", "settling_timed_out"}
      /\ \/ pc' = pc /\ Going = {}
         \/ pc' = [p \in Prospect |-> IF p \in Going THEN "cancelled" ELSE pc[p]]
  BY DEF GatherReturns, TimeOut, CancelAll
<1>2. TypeOK'
  BY <1>1 DEF IInv, TypeOK, workVars, StepOf, Done
<1>3. Going' = {}
  BY <1>1 DEF Going, Done, IInv, TypeOK
<1>4. \A p \in Prospect : pc'[p] = pc[p] \/ (p \in Going /\ pc'[p] = "cancelled")
  BY <1>1
<1>5. DiscoveryComesFirst' /\ OneOriginalPerKey' /\ ReviewedIsPersisted'
  BY <1>1 DEF IInv, DiscoveryComesFirst, OneOriginalPerKey, ReviewedIsPersisted, workVars
<1>6. CoroutineMatchesRow'
  BY <1>1, <1>4 DEF IInv, CoroutineMatchesRow, workVars
<1>7. OutcomeIsRow' /\ NobodyIsLeft'
  BY <1>1, <1>3, <1>4 DEF IInv, OutcomeIsRow, NobodyIsLeft, Going, Done
<1> QED
  BY <1>2, <1>5, <1>6, <1>7 DEF IInv

LEMMA SettleStep ==
    ASSUME NEW p \in Prospect, IInv, Settle(p)
    PROVE  /\ IInv'
           /\ row'[p] \in Lost
           /\ \A q \in Prospect \ {p} : row'[q] = row[q]
<1>1. /\ UNCHANGED <<runVars, pc, workVars, announced>>
      /\ row[p] # "NONE" /\ outcome[p] = "NONE"
      /\ phase \in {"settling_failed", "settling_timed_out"}
      /\ outcome'[p] \in Lost /\ row'[p] = outcome'[p]
      /\ \A q \in Prospect \ {p} : row'[q] = row[q] /\ outcome'[q] = outcome[q]
  BY StatusFacts DEF Settle, Seeds, IInv, TypeOK
<1>2. TypeOK'
  <2>1. row' \in [Prospect -> ProspectStatus \union {"NONE"}]
    BY <1>1, StatusFacts DEF Settle, IInv, TypeOK
  <2>2. outcome' \in [Prospect -> ProspectStatus \union {"NONE"}]
    BY StatusFacts DEF Settle, IInv, TypeOK
  <2> QED
    BY <1>1, <2>1, <2>2 DEF IInv, TypeOK, runVars, workVars, StepOf
<1>3. pc[p] \in Done
  BY <1>1 DEF IInv, OutcomeIsRow, NobodyIsLeft, Going
<1>4. DiscoveryComesFirst' /\ ReviewedIsPersisted'
  BY <1>1, StatusFacts DEF IInv, DiscoveryComesFirst, ReviewedIsPersisted, runVars, workVars
<1>5. CoroutineMatchesRow' /\ OutcomeIsRow' /\ NobodyIsLeft'
  BY <1>1, <1>3, StatusFacts DEF IInv, CoroutineMatchesRow, OutcomeIsRow, NobodyIsLeft, Going, Done,
     runVars, workVars
<1>6. OneOriginalPerKey'
  BY <1>1, StatusFacts DEF IInv, OneOriginalPerKey
<1> QED
  BY <1>1, <1>2, <1>4, <1>5, <1>6 DEF IInv

LEMMA TallyType ==
    ASSUME NEW rows \in SUBSET Prospect
    PROVE  Tally(rows) \in [ProspectStatus -> Nat]
<1>1. \A s \in ProspectStatus : Cardinality({p \in rows : outcome[p] = s}) \in Nat
  <2> TAKE s \in ProspectStatus
  <2>1. IsFiniteSet({p \in rows : outcome[p] = s})
    BY FS_Subset, ExecutorAssumption
  <2> QED
    BY <2>1, FS_CardinalityType
<1> QED
  BY <1>1 DEF Tally

LEMMA TimesOutStep ==
    ASSUME IInv, StoreTimesOut
    PROVE  IInv' /\ row' = row
<1>1. /\ UNCHANGED <<run, counters, row, pc, workVars, announced>>
      /\ phase = "settling_failed" /\ phase' = "settling_timed_out"
      /\ outcome' = [p \in Prospect |-> IF pc[p] = "returned" THEN outcome[p] ELSE "NONE"]
  BY DEF StoreTimesOut
<1>2. early' \in [ProspectStatus -> Nat]
  <2>1. PICK rows \in SUBSET Prospect : early' = Tally(rows)
    BY DEF StoreTimesOut, Seeds
  <2> QED
    BY <2>1, TallyType
<1>3. TypeOK'
  BY <1>1, <1>2 DEF IInv, TypeOK, workVars, StepOf
<1>4. counters = <<>>
  BY <1>1 DEF IInv, NobodyIsLeft
<1>5. /\ DiscoveryComesFirst' /\ CoroutineMatchesRow' /\ OneOriginalPerKey'
      /\ ReviewedIsPersisted'
  BY <1>1 DEF IInv, DiscoveryComesFirst, CoroutineMatchesRow, OneOriginalPerKey,
     ReviewedIsPersisted, workVars
<1>6. OutcomeIsRow'
  BY <1>1 DEF IInv, OutcomeIsRow
<1>7. NobodyIsLeft'
  BY <1>1, <1>4 DEF IInv, NobodyIsLeft, Going
<1> QED
  BY <1>1, <1>3, <1>5, <1>6, <1>7 DEF IInv

LEMMA EndStep ==
    ASSUME IInv, SettleRaises \/ FinalizeRun \/ FailRun
    PROVE  IInv'
<1>1. /\ UNCHANGED <<row, pc, workVars, announced, outcome>>
      /\ phase \in {"settling_failed", "settling_timed_out", "raised"}
      /\ early' = early
      /\ \/ counters' = counters /\ phase' \in {"raised", "failed", "done"}
         \/ /\ counters' = [s \in ProspectStatus |-> early[s] + Tally(Seeds)[s]]
            /\ phase' = "done"
            /\ \A p \in Prospect : row[p] # "NONE" => outcome[p] # "NONE"
  BY DEF SettleRaises, FinalizeRun, FailRun, Seeds
<1>2. run' \in {"RUNNING", "COMPLETED", "PARTIAL", "INTERRUPTED"}
  BY DEF SettleRaises, FinalizeRun, FailRun, RunStatusOf, IInv, TypeOK
<1>3. TypeOK'
  <2>1. Tally(Seeds) \in [ProspectStatus -> Nat]
    BY TallyType DEF Seeds
  <2>2. counters' \in {<<>>} \union [ProspectStatus -> Nat]
    BY <1>1, <2>1 DEF IInv, TypeOK
  <2> QED
    BY <1>1, <1>2, <2>2 DEF IInv, TypeOK, workVars, StepOf
<1>4. DiscoveryComesFirst' /\ CoroutineMatchesRow' /\ OneOriginalPerKey' /\ ReviewedIsPersisted'
  BY <1>1 DEF IInv, DiscoveryComesFirst, CoroutineMatchesRow, OneOriginalPerKey,
     ReviewedIsPersisted, workVars
<1>5. NobodyIsLeft'
  <2>1. Going' = {}
    BY <1>1 DEF IInv, NobodyIsLeft, Going
  <2>2. counters' # <<>> =>
            /\ phase' = "done"
            /\ counters' = [s \in ProspectStatus |-> early'[s] + Tally(Seeds)'[s]]
            /\ \A p \in Prospect : row'[p] = outcome'[p]
    BY <1>1 DEF IInv, NobodyIsLeft, OutcomeIsRow, Tally, Seeds
  <2> QED
    BY <2>1, <2>2 DEF NobodyIsLeft
<1>6. OutcomeIsRow'
  <2>1. phase = "raised" => phase' \in {"raised", "failed"}
    BY DEF SettleRaises, FinalizeRun, FailRun
  <2> QED
    BY <1>1, <2>1 DEF IInv, OutcomeIsRow
<1> QED
  BY <1>3, <1>4, <1>5, <1>6 DEF IInv
-----------------------------------------------------------------------------
LEMMA InductiveStep == IInv /\ [Next]_vars => IInv'
<1> SUFFICES ASSUME IInv, [Next]_vars PROVE IInv'
  OBVIOUS
<1>1. CASE UNCHANGED vars
  <2> USE <1>1 DEF vars, runVars, workVars, IInv
  <2>1. TypeOK'
    BY DEF TypeOK, StepOf
  <2>2. DiscoveryComesFirst' /\ CoroutineMatchesRow'
    BY DEF DiscoveryComesFirst, CoroutineMatchesRow
  <2>3. OutcomeIsRow' /\ OneOriginalPerKey' /\ ReviewedIsPersisted'
    BY DEF OutcomeIsRow, OneOriginalPerKey, ReviewedIsPersisted
  <2>4. NobodyIsLeft'
    BY DEF NobodyIsLeft, Tally, Seeds, Going
  <2> QED
    BY <2>1, <2>2, <2>3, <2>4
<1>2. CASE FanOut \/ DiscoveryRaises \/ \E p \in Prospect : CreateProspect(p)
  BY <1>2, DiscoveryStep
<1>3. CASE \E p \in Prospect : One(p)
  BY <1>3, CoroutineStep
<1>4. CASE GatherReturns \/ TimeOut
  BY <1>4, GatherStep
<1>5. CASE \E p \in Prospect : Settle(p)
  BY <1>5, SettleStep
<1>6. CASE SettleRaises \/ FinalizeRun \/ FailRun
  BY <1>6, EndStep
<1>7. CASE StoreTimesOut
  BY <1>7, TimesOutStep
<1> QED
  BY <1>1, <1>2, <1>3, <1>4, <1>5, <1>6, <1>7 DEF Next, Ended

THEOREM Inductive == Spec => []IInv
<1>1. Init => IInv
  BY InitIInv
<1>2. IInv /\ [Next]_vars => IInv'
  BY InductiveStep
<1> QED
  BY <1>1, <1>2, PTL DEF Spec

\* The variables have their types, whatever the discovery returns.
THEOREM TypeCorrect == Spec => []TypeOK
<1>1. IInv => TypeOK
  BY DEF IInv
<1> QED
  BY <1>1, Inductive, PTL

\* The counters a run ends with are the statuses of its prospect rows, and what
\* was listed twice.
THEOREM CountersAreTheRowsHolds == Spec => []CountersAreTheRows
<1>1. IInv => CountersAreTheRows
  <2> SUFFICES ASSUME IInv, counters # <<>>, NEW s \in ProspectStatus
               PROVE  counters[s] = RowsWith(s) + early[s]
    BY DEF CountersAreTheRows
  <2>1. counters[s] = early[s] + Cardinality({p \in Seeds : outcome[p] = s})
    BY DEF IInv, NobodyIsLeft, Tally
  <2>2. {p \in Seeds : outcome[p] = s} = {p \in Prospect : row[p] = s}
    BY StatusFacts DEF IInv, NobodyIsLeft, Seeds
  <2>3. IsFiniteSet({p \in Prospect : row[p] = s})
    BY FS_Subset, ExecutorAssumption
  <2>4. RowsWith(s) \in Nat
    BY <2>3, FS_CardinalityType DEF RowsWith
  <2>5. early[s] \in Nat
    BY DEF IInv, TypeOK
  <2>6. counters[s] = early[s] + RowsWith(s)
    BY <2>1, <2>2 DEF RowsWith
  <2> QED
    BY <2>4, <2>5, <2>6
<1> QED
  BY <1>1, Inductive, PTL

\* A prospect with a verdict has everything it was judged by in the database.
THEOREM ReviewedIsPersistedHolds == Spec => []ReviewedIsPersisted
<1>1. IInv => ReviewedIsPersisted
  BY DEF IInv
<1> QED
  BY <1>1, Inductive, PTL

\* Two seeds of one company never both get a verdict.
THEOREM OneVerdictPerKeyHolds == Spec => []OneVerdictPerKey
<1>1. IInv => OneVerdictPerKey
  BY DEF IInv, OneOriginalPerKey, OneVerdictPerKey
<1> QED
  BY <1>1, Inductive, PTL

\* A prospect that was written off never becomes one that can be acted upon:
\* a coroutine that still writes found its row RUNNING or DUPLICATE.
THEOREM LossIsFinalHolds == Spec => LossIsFinal
<1> DEFINE Keeps == \A p \in Prospect : row[p] \in Lost => row'[p] \in Lost
<1>1. IInv /\ [Next]_vars => [Keeps]_vars
  <2> SUFFICES ASSUME IInv, Next, NEW q \in Prospect, row[q] \in Lost
               PROVE  row'[q] \in Lost
    OBVIOUS
  <2>1. CASE \E p \in Prospect : CreateProspect(p)
    BY <2>1, StatusFacts DEF CreateProspect, Seeds, IInv, TypeOK
  <2>2. CASE \E p \in Prospect : One(p)
    <3> PICK p \in Prospect : One(p)
      BY <2>2
    <3>1. OwnChange(p) /\ OthersKept(p)
      BY OneChanges DEF IInv
    <3> QED
      BY <3>1, StatusFacts DEF IInv, CoroutineMatchesRow, OwnChange, OthersKept
  <2>3. CASE \E p \in Prospect : Settle(p)
    BY <2>3, SettleStep
  <2>4. CASE UNCHANGED row \/ StoreTimesOut
    BY <2>4, TimesOutStep
  <2> QED
    BY <2>1, <2>2, <2>3, <2>4 DEF Next, FanOut, DiscoveryRaises, GatherReturns, TimeOut,
       SettleRaises, FinalizeRun, FailRun, Ended, vars
<1> QED
  BY <1>1, Inductive, PTL DEF Spec, LossIsFinal

\* When execute_run has returned or raised, nothing is written any more: its
\* coroutines are all gone by then.
THEOREM NobodyOutlivesTheRunHolds == Spec => NobodyOutlivesTheRun
<1> DEFINE Quiet == (phase \in {"done", "raised", "failed"}) => UNCHANGED <<row, announced, persisted>>
<1>1. IInv /\ [Next]_vars => [Quiet]_vars
  <2> SUFFICES ASSUME IInv, Next, phase \in {"done", "raised", "failed"}
               PROVE  UNCHANGED <<row, announced, persisted>>
    OBVIOUS
  <2>1. ~ \E p \in Prospect : One(p)
    <3> SUFFICES ASSUME NEW p \in Prospect, One(p) PROVE FALSE
      OBVIOUS
    <3>1. OwnChange(p)
      BY OneChanges DEF IInv
    <3>2. p \in Going
      BY <3>1 DEF OwnChange, Going, Done
    <3> QED
      BY <3>2 DEF IInv, NobodyIsLeft
  <2> QED
    BY <2>1 DEF Next, CreateProspect, Settle, FanOut, DiscoveryRaises, GatherReturns, TimeOut,
       StoreTimesOut, SettleRaises, FinalizeRun, FailRun, Ended, vars, workVars
<1> QED
  BY <1>1, Inductive, PTL DEF Spec, NobodyOutlivesTheRun

-----------------------------------------------------------------------------
(* The drafts of personalize.                                              *)

\* Which step is personalize, and whom it can write to.
LEMMA PersonalizeFacts ==
    /\ \A i \in 1..8 : Steps[i] = "personalize" <=> i = 7
    /\ Retries["personalize"] \in Nat
    /\ \A p \in Prospect : Reach[p] \in {"nobody", "email", "both"}
<1>1. "personalize" \in StepName
  BY StepFacts DEF Steps
<1>2. \A i \in 1..8 : Steps[i] = "personalize" <=> i = 7
  BY DEF Steps
<1> QED
  BY <1>1, <1>2, ExecutorAssumption

\* An attempt of a step of p that ends it or is retried leaves p's drafts bounded.
LEMMA DraftsStep ==
    ASSUME NEW p \in Prospect, IInv, DraftsByStep,
           StepSucceeds(p) \/ StepRetries(p) \/ StepDegrades(p)
    PROVE  DraftsByStep'
<1>1. PICK n \in {0, 1} :
        /\ emails' = [emails EXCEPT ![p] = @ + n]
        /\ n = 1 => step[p] = 7 /\ Reach[p] # "nobody"
        /\ n = 1 /\ Reach[p] # "both" => StepSucceeds(p)
  BY StepFacts, PersonalizeFacts DEF StepSucceeds, StepRetries, StepDegrades, Drafted,
     DraftedBeforeFailing, StepOf, IInv, TypeOK
<1>2. /\ \A q \in Prospect : step[q] \in 1..8 /\ attempt[q] \in Nat /\ emails[q] \in Nat
      /\ step[p] = 7 => attempt[p] <= Retries["personalize"]
  BY StepFacts, PersonalizeFacts DEF IInv, TypeOK, StepOf
<1>3. /\ emails'[p] = emails[p] + n
      /\ \A q \in Prospect \ {p} :
            emails'[q] = emails[q] /\ step'[q] = step[q] /\ attempt'[q] = attempt[q]
      /\ \/ StepRetries(p) /\ step'[p] = step[p] /\ attempt'[p] = attempt[p] + 1
         \/ /\ ~StepRetries(p) /\ attempt'[p] = 0
            /\ step'[p] = IF step[p] = 8 THEN 8 ELSE step[p] + 1
  <2>1. CASE StepRetries(p)
    BY <1>1, <2>1 DEF StepRetries, IInv, TypeOK
  <2>2. CASE ~StepRetries(p)
    <3>1. Advance(p)
      BY <2>2 DEF StepSucceeds, StepDegrades
    <3> QED
      BY <1>1, <2>2, <3>1, StepFacts DEF Advance, IInv, TypeOK
  <2> QED
    BY <2>1, <2>2
<1>4. ~(StepRetries(p) /\ StepSucceeds(p))
  <2>1. StepRetries(p) => attempt'[p] = attempt[p] + 1
    BY DEF StepRetries, IInv, TypeOK
  <2>2. StepSucceeds(p) => attempt'[p] = 0
    BY DEF StepSucceeds, Advance, IInv, TypeOK
  <2> QED
    BY <1>2, <2>1, <2>2
<1>5. ASSUME NEW q \in Prospect PROVE DraftsByStep!(q)'
  <2>1. CASE q = p
    <3>1. /\ Reach[p] = "nobody" \/ step'[p] < 7 => emails'[p] = 0
          /\ step'[p] = 7 => emails'[p] <= IF Reach[p] = "both" THEN attempt'[p] ELSE 0
          /\ step'[p] = 8 =>
                emails'[p] <= IF Reach[p] = "both" THEN 1 + Retries["personalize"] ELSE 1
      <4> USE <1>2, <1>3, PersonalizeFacts DEF DraftsByStep
      <4>1. CASE n = 0
        BY <4>1
      <4>2. CASE n = 1
        BY <1>1, <1>4, <4>2
      <4> QED
        BY <4>1, <4>2
    <3> QED
      BY <2>1, <3>1
  <2>2. CASE q # p
    BY <1>2, <1>3, <2>2, PersonalizeFacts DEF DraftsByStep
  <2> QED
    BY <2>1, <2>2
<1> QED
  BY <1>5 DEF DraftsByStep

\* engine/retry.py repeats the whole step and personalize appends to the context it
\* shares with its earlier attempts: whatever fails, is retried, degraded or
\* cancelled, a prospect ends with no more e-mail drafts than its attempts explain.
THEOREM DraftsFollowAttemptsHolds == Spec => []DraftsFollowAttempts
<1>1. Init => DraftsByStep
  BY DEF Init, DraftsByStep
<1>2. IInv /\ DraftsByStep => DraftsFollowAttempts
  <2> SUFFICES ASSUME IInv, DraftsByStep, NEW p \in Prospect
               PROVE  DraftsFollowAttempts!(p)
    BY DEF DraftsFollowAttempts
  <2>1. step[p] \in 1..8 /\ attempt[p] \in Nat /\ emails[p] \in Nat
    BY StepFacts DEF IInv, TypeOK
  <2>2. step[p] = 7 => attempt[p] <= Retries["personalize"]
    BY <2>1, PersonalizeFacts DEF IInv, TypeOK, StepOf
  <2> QED
    BY <2>1, <2>2, PersonalizeFacts DEF DraftsByStep
<1>3. IInv /\ DraftsByStep /\ [Next]_vars => DraftsByStep'
  <2> SUFFICES ASSUME IInv, DraftsByStep, [Next]_vars PROVE DraftsByStep'
    OBVIOUS
  <2>1. CASE UNCHANGED <<step, attempt, emails>>
    BY <2>1 DEF DraftsByStep
  <2>2. CASE \E p \in Prospect : StepSucceeds(p) \/ StepRetries(p) \/ StepDegrades(p)
    BY <2>2, DraftsStep
  <2> QED
    BY <2>1, <2>2 DEF Next, One, CreateProspect, Settle, FanOut, DiscoveryRaises, GatherReturns,
       TimeOut, StoreTimesOut, SettleRaises, FinalizeRun, FailRun, Ended, Discovered, EnterGate,
       Save, WriteVerdict, Announce, Return, Raise, StepFails, vars, workVars
<1> QED
  BY <1>1, <1>2, <1>3, Inductive, PTL DEF Spec
==============================================================================
