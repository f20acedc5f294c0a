-------------------------- MODULE LivePartsProofs --------------------------
(***************************************************************************)
(* Proofs about the parts of Live mode that step by themselves, each for    *)
(* any value of its constants: the allowance of dispatches (any executions,  *)
(* cap, window and attempts), the answers of the providers (any number of     *)
(* retries of a call and of a step), the intake of runs (any requests, caps,   *)
(* window, session lifetime and discoveries), the reads of a report (any        *)
(* prospects and lives), the discovery of companies (anything served, proposed  *)
(* and found), the verdict on a prospect (any facts, evidence and Play), the     *)
(* comparison of a contact (any names, over any alphabet) and the sources of a   *)
(* company (any queries, pages, limits and answers).                            *)
(***************************************************************************)
EXTENDS ProviderAnswers, RunIntake, RunMetrics, SendAllowance, LiveDiscovery, Verdicts, ContactMatch,
        SourceSelection, FiniteSetTheorems, SequenceTheorems, WellFoundedInduction, TLAPS

-----------------------------------------------------------------------------
(* SendAllowance: the cap over reservations in every window, in whatever     *)
(* order they commit, and over the dispatches that follow them.              *)

\* A part of a finite set of rows has a size, which the whole bounds.
LEMMA PartOfRows ==
    ASSUME NEW S, IsFiniteSet(S), NEW T, T \subseteq S
    PROVE  /\ IsFiniteSet(T)
           /\ Cardinality(T) \in Nat /\ Cardinality(S) \in Nat
           /\ Cardinality(T) <= Cardinality(S)
BY FS_Subset, FS_CardinalityType

\* At the start nothing is reserved, and the guard is free.
LEMMA InitInvariant == Init => IInv
<1> SUFFICES ASSUME Init PROVE IInv
  OBVIOUS
<1>1. TypeOK /\ GuardIsExclusive /\ CountStillHolds /\ StampsMatch
  BY CapAssumption DEF Init, TypeOK, GuardIsExclusive, CountStillHolds, StampsMatch
<1>2. IsFiniteSet(reservations)
  BY FS_EmptySet DEF Init
<1>3. ASSUME NEW first \in 0 .. MaxTime
      PROVE  Cardinality(Within(reservations, first, first + Window)) <= Limit
  <2>1. Within(reservations, first, first + Window) = {}
    BY DEF Init, Within
  <2> QED
    BY <2>1, FS_EmptySet, CapAssumption
<1> QED
  BY <1>1, <1>2, <1>3 DEF IInv, WindowWithinCap

-----------------------------------------------------------------------------
(* The steps that store nothing.                                           *)

\* The clock and the processes, a claim, and every step of the transaction but
\* its INSERT (live_send_allowance.py:104-129).
Quiet(x) ==
    \/ Claim(x) \/ UpdateGuard(x) \/ GuardMissing(x) \/ LockContended(x)
    \/ CountReservations(x) \/ Dispatch(x) \/ GiveUp(x)

\* Every step keeps the types.
LEMMA TypesPreserved == IInv /\ [Next]_vars => TypeOK'
<1> SUFFICES ASSUME IInv, [Next]_vars PROVE TypeOK'
  OBVIOUS
<1> USE CapAssumption DEF IInv, TypeOK
<1>1. CASE Seed \/ Tick \/ UNCHANGED vars
  <2>1. CASE Tick
    BY <2>1 DEF Tick
  <2>2. CASE Seed \/ UNCHANGED vars
    BY <2>2 DEF Seed, vars
  <2> QED
    BY <1>1, <2>1, <2>2
<1>2. ASSUME NEW x \in Execution, Claim(x) PROVE TypeOK'
  BY <1>2 DEF Claim, Goto
<1>3. ASSUME NEW x \in Execution, UpdateGuard(x) \/ GuardMissing(x) PROVE TypeOK'
  BY <1>3 DEF UpdateGuard, GuardMissing, Goto
<1>4. ASSUME NEW x \in Execution, LockContended(x) PROVE TypeOK'
  BY <1>4 DEF LockContended, Goto
<1>5. ASSUME NEW x \in Execution, CountReservations(x) PROVE TypeOK'
  BY <1>5 DEF CountReservations, Goto
<1>6. ASSUME NEW x \in Execution, InsertReservation(x) PROVE TypeOK'
  <2>1. reservations' \in SUBSET Stamped
    BY <1>6 DEF InsertReservation, Stamped
  <2> QED
    BY <1>6, <2>1 DEF InsertReservation, Goto
<1>7. ASSUME NEW x \in Execution, Dispatch(x) PROVE TypeOK'
  <2>1. dispatches' \in SUBSET Stamped
    BY <1>7 DEF Dispatch, Stamped
  <2> QED
    BY <1>7, <2>1 DEF Dispatch, Goto
<1>8. ASSUME NEW x \in Execution, GiveUp(x) PROVE TypeOK'
  BY <1>8 DEF GiveUp, Goto
<1> QED
  BY <1>1, <1>2, <1>3, <1>4, <1>5, <1>6, <1>7, <1>8 DEF Next

\* Only one transaction counts or inserts at a time.
LEMMA GuardPreserved == IInv /\ [Next]_vars => GuardIsExclusive'
<1> SUFFICES ASSUME IInv, [Next]_vars PROVE GuardIsExclusive'
  OBVIOUS
<1> USE DEF IInv, TypeOK, GuardIsExclusive
<1>1. CASE Seed \/ Tick \/ UNCHANGED vars
  BY <1>1 DEF Seed, Tick, vars
<1>2. ASSUME NEW x \in Execution, Quiet(x) PROVE GuardIsExclusive'
  BY <1>2, NilAssumption
  DEF Quiet, Claim, UpdateGuard, GuardMissing, LockContended, CountReservations, Dispatch,
      GiveUp, Goto
<1>3. ASSUME NEW x \in Execution, InsertReservation(x) PROVE GuardIsExclusive'
  BY <1>3 DEF InsertReservation, Goto
<1> QED
  BY <1>1, <1>2, <1>3 DEF Next, Quiet

\* What was counted still holds when the row is inserted.
LEMMA CountPreserved == IInv /\ [Next]_vars => CountStillHolds'
<1> SUFFICES ASSUME IInv, [Next]_vars, NEW y \in Execution, pc'[y] = "insert"
             PROVE  Cardinality(Counted(claimedAt[y])') < Limit
  BY DEF CountStillHolds, Counted
<1> USE DEF IInv, TypeOK
<1>1. CASE Seed \/ Tick \/ UNCHANGED vars
  BY <1>1 DEF Seed, Tick, vars, CountStillHolds, Counted
<1>2. ASSUME NEW x \in Execution, CountReservations(x)
      PROVE  Cardinality(Counted(claimedAt[y])') < Limit
  <2>1. Counted(claimedAt[y])' = Counted(claimedAt[y])
    BY <1>2 DEF CountReservations, Counted
  <2>2. CASE y = x
    <3>1. ~(Cardinality(Counted(claimedAt[x])) >= Limit)
      BY <1>2, <2>2 DEF CountReservations, Goto
    <3>2. Cardinality(Counted(claimedAt[x])) \in Nat
      BY PartOfRows DEF Counted
    <3> QED
      BY <2>1, <2>2, <3>1, <3>2, CapAssumption
  <2>3. CASE y # x
    BY <1>2, <2>1, <2>3 DEF CountReservations, Goto, CountStillHolds
  <2> QED
    BY <2>2, <2>3
<1>3. ASSUME NEW x \in Execution,
             Claim(x) \/ UpdateGuard(x) \/ GuardMissing(x) \/ LockContended(x) \/ Dispatch(x)
               \/ GiveUp(x)
      PROVE  Cardinality(Counted(claimedAt[y])') < Limit
  <2>1. pc[y] = "insert" /\ claimedAt'[y] = claimedAt[y] /\ reservations' = reservations
    BY <1>3
    DEF Claim, UpdateGuard, GuardMissing, LockContended, Dispatch, GiveUp, Goto
  <2> QED
    BY <2>1 DEF CountStillHolds, Counted
<1>4. ASSUME NEW x \in Execution, InsertReservation(x)
      PROVE  FALSE
  BY <1>4 DEF InsertReservation, Goto, GuardIsExclusive
<1> QED
  BY <1>1, <1>2, <1>3, <1>4 DEF Next

\* Every dispatch has its reservation, and none is stamped after now.
LEMMA StampsPreserved == IInv /\ [Next]_vars => StampsMatch'
<1> SUFFICES ASSUME IInv, [Next]_vars PROVE StampsMatch'
  OBVIOUS
<1> USE DEF IInv, TypeOK, StampsMatch, Stamped
<1>1. CASE Seed \/ Tick \/ UNCHANGED vars
  BY <1>1 DEF Seed, Tick, vars
<1>2. ASSUME NEW x \in Execution, Claim(x) PROVE StampsMatch'
  <2>1. /\ pc[x] = "idle" /\ clock' = clock /\ clock \in Nat
        /\ claimedAt' = [claimedAt EXCEPT ![x] = clock] /\ pc' = [pc EXCEPT ![x] = "reserve"]
        /\ reservations' = reservations /\ dispatches' = dispatches
    BY <1>2 DEF Claim, Goto
  <2>2. \A y \in Execution : pc[y] # "idle" => pc'[y] = pc[y] /\ claimedAt'[y] = claimedAt[y]
    BY <2>1
  <2>3. \A r \in reservations : r.execution \in Execution /\ pc[r.execution] # "idle"
    OBVIOUS
  <2>4. \A s \in dispatches : s.execution \in Execution /\ pc[s.execution] # "idle"
    OBVIOUS
  <2>5. ASSUME NEW y \in Execution
        PROVE  /\ claimedAt'[y] <= clock
               /\ pc'[y] = "reserved" => pc[y] = "reserved" /\ claimedAt'[y] = claimedAt[y]
    <3>1. CASE y = x
      BY <2>1, <3>1
    <3>2. CASE y # x
      <4>1. claimedAt'[y] = claimedAt[y] /\ pc'[y] = pc[y]
        BY <2>1, <3>2
      <4> QED
        BY <4>1
    <3> QED
      BY <3>1, <3>2
  <2> QED
    BY <2>1, <2>2, <2>3, <2>4, <2>5
<1>3. ASSUME NEW x \in Execution, UpdateGuard(x) \/ GuardMissing(x) PROVE StampsMatch'
  BY <1>3 DEF UpdateGuard, GuardMissing, Goto
<1>4. ASSUME NEW x \in Execution, LockContended(x) PROVE StampsMatch'
  BY <1>4 DEF LockContended, Goto
<1>5. ASSUME NEW x \in Execution, CountReservations(x) PROVE StampsMatch'
  BY <1>5 DEF CountReservations, Goto
<1>6. ASSUME NEW x \in Execution, InsertReservation(x) PROVE StampsMatch'
  BY <1>6 DEF InsertReservation, Goto
<1>7. ASSUME NEW x \in Execution, Dispatch(x) PROVE StampsMatch'
  <2> DEFINE message == [execution |-> x, at |-> clock]
  <2>1. /\ pc[x] = "reserved" /\ pc' = [pc EXCEPT ![x] = "sent"]
        /\ dispatches' = dispatches \union {message}
        /\ UNCHANGED <<clock, claimedAt, reservations>>
    BY <1>7 DEF Dispatch, Goto
  <2>2. \A s \in dispatches : s.execution \in Execution /\ s.execution # x
    BY <2>1
  <2>3. \A r \in reservations :
            r.at = claimedAt[r.execution] /\ pc'[r.execution] \in {"reserved", "sent", "gone"}
    BY <2>1
  <2>4. ASSUME NEW s \in dispatches'
        PROVE  /\ pc'[s.execution] = "sent"
               /\ [execution |-> s.execution, at |-> claimedAt[s.execution]] \in reservations
               /\ claimedAt[s.execution] <= s.at
               /\ s.at <= clock
    <3>1. CASE s = message
      BY <2>1, <3>1
    <3>2. CASE s \in dispatches
      BY <2>1, <2>2, <3>2
    <3> QED
      BY <2>1, <3>1, <3>2
  <2>5. \A s, t \in dispatches' : s.execution = t.execution => s = t
    BY <2>1, <2>2
  <2>6. \A y \in Execution : pc'[y] = "reserved" => pc[y] = "reserved"
    BY <2>1
  <2> QED
    BY <2>1, <2>3, <2>4, <2>5, <2>6
<1>8. ASSUME NEW x \in Execution, GiveUp(x) PROVE StampsMatch'
  BY <1>8 DEF GiveUp, Goto
<1> QED
  BY <1>1, <1>2, <1>3, <1>4, <1>5, <1>6, <1>7, <1>8 DEF Next

-----------------------------------------------------------------------------
(* The INSERT.                                                             *)

\* Whatever window the new row falls into, its others were all counted: the
\* count starts a window before the row's own date and has no end
\* (live_send_allowance.py:117-127).
LEMMA InsertKeepsCap ==
    ASSUME IInv, NEW x \in Execution, InsertReservation(x)
    PROVE  IsFiniteSet(reservations)' /\ WindowWithinCap'
<1> DEFINE row == [execution |-> x, at |-> claimedAt[x]]
<1>1. /\ pc[x] = "insert" /\ reservations' = reservations \union {row}
      /\ claimedAt[x] \in Nat /\ IsFiniteSet(reservations) /\ reservations \subseteq Stamped
      /\ Limit \in Nat /\ Window \in Nat /\ MaxTime \in Nat
  BY CapAssumption DEF InsertReservation, IInv, TypeOK
<1>2. IsFiniteSet(reservations')
  BY <1>1, FS_AddElement
<1>3. Cardinality(Counted(claimedAt[x])) < Limit
  BY <1>1 DEF IInv, CountStillHolds
<1>4. ASSUME NEW first \in 0 .. MaxTime
      PROVE  Cardinality(Within(reservations', first, first + Window)) <= Limit
  <2> DEFINE before == Within(reservations, first, first + Window)
  <2> DEFINE after == Within(reservations', first, first + Window)
  <2>1. before \subseteq reservations
    BY DEF Within
  <2>2. IsFiniteSet(before)
    BY <1>1, <2>1, PartOfRows
  <2>3. CASE row.at >= first /\ row.at <= first + Window
    <3>1. before \subseteq Counted(claimedAt[x])
      BY <1>1, <2>3 DEF Within, Counted, Stamped
    <3>2. /\ Cardinality(before) \in Nat /\ Cardinality(Counted(claimedAt[x])) \in Nat
          /\ Cardinality(before) <= Cardinality(Counted(claimedAt[x]))
      <4>1. IsFiniteSet(Counted(claimedAt[x]))
        BY <1>1, PartOfRows DEF Counted
      <4> QED
        BY <3>1, <4>1, PartOfRows
    <3>3. after = before \union {row}
      BY <1>1, <2>3 DEF Within
    <3>4. Cardinality(after) <= Cardinality(before) + 1
      <4>1. Cardinality(before \union {row})
              = IF row \in before THEN Cardinality(before) ELSE Cardinality(before) + 1
        BY <2>2, FS_AddElement
      <4> HIDE DEF before, after, row
      <4> QED
        BY <3>2, <3>3, <4>1
    <3> HIDE DEF before, after
    <3>5. Cardinality(after) \in Nat
      BY <2>2, <3>3, FS_AddElement, FS_CardinalityType
    <3>6. Cardinality(after) <= Limit
      BY <1>1, <1>3, <3>2, <3>4, <3>5
    <3> QED
      BY <3>6 DEF after
  <2>4. CASE ~(row.at >= first /\ row.at <= first + Window)
    <3>1. after = before
      BY <1>1, <2>4 DEF Within
    <3>2. Cardinality(before) <= Limit
      BY DEF IInv, WindowWithinCap
    <3> QED
      BY <3>1, <3>2
  <2> QED
    BY <2>3, <2>4
<1> QED
  BY <1>2, <1>4 DEF WindowWithinCap, Within

\* No step takes a window over the cap.
LEMMA CapPreserved ==
    IInv /\ [Next]_vars => IsFiniteSet(reservations)' /\ WindowWithinCap'
<1> SUFFICES ASSUME IInv, [Next]_vars
             PROVE  IsFiniteSet(reservations)' /\ WindowWithinCap'
  OBVIOUS
<1>1. ASSUME NEW x \in Execution, InsertReservation(x)
      PROVE  IsFiniteSet(reservations)' /\ WindowWithinCap'
  BY <1>1, InsertKeepsCap
<1>2. CASE reservations' = reservations
  BY <1>2 DEF IInv, WindowWithinCap, Within
<1>3. (\E x \in Execution : InsertReservation(x)) \/ reservations' = reservations
  BY DEF Next, vars, Seed, Tick, Claim, UpdateGuard, GuardMissing, LockContended,
         CountReservations, Dispatch, GiveUp
<1> QED
  BY <1>1, <1>2, <1>3

-----------------------------------------------------------------------------

\* The inductive invariant holds in every state of the transactions
\* (live_send_allowance.py:85-129).
THEOREM Inductive == Spec => []IInv
<1>1. IInv /\ [Next]_vars => IInv'
  BY TypesPreserved, GuardPreserved, CountPreserved, StampsPreserved, CapPreserved DEF IInv
<1> QED
  BY InitInvariant, <1>1, PTL DEF Spec

\* The variables keep their types, and no reservation is attempted more often
\* than configured (live_send_allowance.py:85-102).
THEOREM TypeCorrect == Spec => []TypeOK
<1>1. IInv => TypeOK
  BY DEF IInv
<1> QED
  BY <1>1, Inductive, PTL

\* No window holds more reservations than the cap, for any cap, window and
\* number of processes (live_send_allowance.py:104-129).
THEOREM WindowWithinCapHolds == Spec => []WindowWithinCap
<1>1. IInv => WindowWithinCap
  BY DEF IInv
<1> QED
  BY <1>1, Inductive, PTL

\* The prompt dispatches of a window have their reservations, one each, in that
\* window or in the one that ends where it starts (live_send_orchestration.py:72, :129-143).
LEMMA TwoWindows == IInv => PromptWithinTwiceCap
<1> SUFFICES ASSUME IInv, NEW first \in 0 .. MaxTime
             PROVE  Cardinality(Within(Prompt, first, first + Window)) <= 2 * Limit
  BY DEF PromptWithinTwiceCap
<1> DEFINE sent == Within(Prompt, first, first + Window)
<1> DEFINE earlier == IF first > Window THEN first - Window ELSE 0
<1> DEFINE old == Within(reservations, earlier, earlier + Window)
<1> DEFINE new == Within(reservations, first, first + Window)
<1> DEFINE own == [s \in sent |-> [execution |-> s.execution, at |-> claimedAt[s.execution]]]
<1>1. Limit \in Nat /\ Window \in Nat /\ first \in Nat /\ MaxTime \in Nat
  BY CapAssumption
<1>2. earlier \in 0 .. MaxTime
  BY <1>1
<1>3. IsFiniteSet(old) /\ IsFiniteSet(new)
  <2>1. old \subseteq reservations /\ new \subseteq reservations
    BY DEF Within
  <2> QED
    BY <2>1, PartOfRows DEF IInv
<1>4. Cardinality(old) <= Limit /\ Cardinality(new) <= Limit
  BY <1>2 DEF IInv, WindowWithinCap
<1>5. IsFiniteSet(old \union new) /\ Cardinality(old \union new) <= 2 * Limit
  <2>1. /\ IsFiniteSet(old \union new)
        /\ Cardinality(old \union new)
             = Cardinality(old) + Cardinality(new) - Cardinality(old \cap new)
    BY <1>3, FS_Union
  <2>2. Cardinality(old) \in Nat /\ Cardinality(new) \in Nat /\ Cardinality(old \cap new) \in Nat
    BY <1>3, FS_CardinalityType, FS_Intersection
  <2> HIDE DEF old, new
  <2> QED
    BY <1>1, <1>4, <2>1, <2>2
<1>6. ASSUME NEW s \in sent PROVE own[s] \in old \union new
  <2>1. /\ s \in dispatches /\ s.at <= claimedAt[s.execution] + Window
        /\ s.at >= first /\ s.at <= first + Window
    BY DEF Within, Prompt
  <2>2. /\ s.execution \in Execution /\ s.at \in Nat
        /\ claimedAt[s.execution] \in Nat /\ claimedAt[s.execution] <= s.at
        /\ own[s] \in reservations /\ own[s].at = claimedAt[s.execution]
    BY <2>1 DEF IInv, TypeOK, StampsMatch, Stamped
  <2>3. CASE claimedAt[s.execution] >= first
    BY <1>1, <2>1, <2>2, <2>3 DEF Within
  <2>4. CASE claimedAt[s.execution] < first
    <3>1. earlier <= claimedAt[s.execution] /\ claimedAt[s.execution] <= earlier + Window
      BY <1>1, <2>1, <2>2, <2>4
    <3> QED
      BY <1>1, <2>2, <3>1 DEF Within
  <2> QED
    BY <1>1, <2>2, <2>3, <2>4
<1>7. own \in Injection(sent, old \union new)
  <2>1. own \in [sent -> old \union new]
    BY <1>6
  <2>2. ASSUME NEW s \in sent, NEW t \in sent, own[s] = own[t] PROVE s = t
    <3>1. s \in dispatches /\ t \in dispatches /\ s.execution = t.execution
      BY <2>2 DEF Within, Prompt
    <3> QED
      BY <3>1 DEF IInv, StampsMatch
  <2> QED
    BY <2>1, <2>2 DEF Injection, IsInjective
<1>8. /\ IsFiniteSet(sent)
      /\ Cardinality(sent) <= Cardinality(old \union new)
  <2> HIDE DEF own, sent, old, new
  <2> QED
    BY <1>5, <1>7, FS_Injection
<1>9. Cardinality(sent) \in Nat /\ Cardinality(old \union new) \in Nat
  <2> HIDE DEF sent, old, new
  <2> QED
    BY <1>5, <1>8, FS_CardinalityType
<1>10. Cardinality(sent) <= 2 * Limit
  <2> HIDE DEF sent, old, new
  <2> QED
    BY <1>1, <1>5, <1>8, <1>9
<1> QED
  BY <1>10

\* Dispatches that follow their claim within a window exceed the cap at most
\* twofold, for any cap and window (live_send_orchestration.py:72, :129-143).
THEOREM PromptWithinTwiceCapHolds == Spec => []PromptWithinTwiceCap
BY TwoWindows, Inductive, PTL

-----------------------------------------------------------------------------
(* ProviderAnswers: what each answer may lead to, and what pays for a request. *)

\* What the classification of each client makes of the answers it can get.
LEMMA StatusOfAnswer ==
    ASSUME NEW p \in Provider, NEW a \in AnswerOf(p)
    PROVE  /\ Status(p, a) \notin {"asking", "value"}
           /\ a \in Firm(p) => Status(p, a) \notin Usable(p) \cup Repairable \cup Transient
           /\ Status(p, a) \in Usable(p) => a \in {"good", "empty", "some failed"}
           /\ Status(p, a) \in Repairable => p = "openai"
           /\ Status(p, a) = "LEGAL_RESTRICTION" <=> p = "hunter" /\ a = "451"
<1> USE DEF Provider, AnswerOf, NoResponse, Refusing, BodyOf, Firm, Usable, Transient,
        Repairable, Status
<1>1. CASE p = "openai"
  BY <1>1 DEF OpenAIStatus
<1>2. CASE p = "tavily"
  BY <1>2 DEF TavilyStatus
<1>3. CASE p = "hunter"
  BY <1>3 DEF HunterStatus
<1>4. CASE p = "apollo"
  BY <1>4 DEF ApolloStatus
<1> QED
  BY <1>1, <1>2, <1>3, <1>4

\* A retry of the step pays for one whole call more.
LEMMA OneCallMore ==
    ASSUME NEW n \in Nat, NEW m \in Nat, NEW c \in Nat, n <= m
    PROVE  /\ n * c \in Nat /\ (1 + m) * c \in Nat
           /\ (n + 1) * c = n * c + c
           /\ n * c + c <= (1 + m) * c
<1>1. PICK d \in Nat : m = n + d
  BY m - n \in Nat
<1>2. (1 + m) * c = (1 + n) * c + d * c /\ d * c \in Nat /\ (1 + n) * c \in Nat
  BY <1>1
<1> QED
  BY <1>2

\* Every way a request can go on, and what it leaves of the two loops.
LEMMA AskCases ==
    ASSUME NEW a \in AnswerOf(provider), AnswersIInv, Ask(a)
    PROVE  /\ outcome = "asking" /\ requests' = requests + 1 /\ last' = a /\ provider' = provider
           /\ \/ /\ outcome' = "value" /\ Status(provider, a) \in Usable(provider)
                 /\ UNCHANGED <<retries, repaired, tries>>
              \/ /\ outcome' = "asking" /\ Status(provider, a) \in Repairable
                 /\ ~repaired /\ repaired' = TRUE /\ UNCHANGED <<retries, tries>>
              \/ /\ outcome' = "asking" /\ Status(provider, a) \in Transient
                 /\ retries < MaxTransport /\ retries' = retries + 1
                 /\ UNCHANGED <<repaired, tries>>
              \/ /\ outcome' = "asking" /\ Status(provider, a) \in Transient
                 /\ tries < MaxTries /\ tries' = tries + 1
                 /\ retries' = 0 /\ repaired' = FALSE
              \/ /\ \/ outcome' = Status(provider, a)
                    \/ outcome' = "SCHEMA_VIOLATION" /\ Status(provider, a) \in Repairable
                 /\ Status(provider, a) \notin Usable(provider)
                 /\ UNCHANGED <<retries, repaired, tries>>
<1> DEFINE st == Status(provider, a)
<1>1. /\ outcome = "asking" /\ requests' = requests + 1 /\ last' = a /\ provider' = provider
      /\ CASE st \in Usable(provider) -> GiveValue
           [] st \in Repairable       -> RepairOnce(st)
           [] st \in Transient        -> RetryOrRaise(st)
           [] OTHER                   -> Raise(st)
  BY DEF Ask
<1>2. Usable(provider) \subseteq {"OK", "EMPTY_RESULT", "PARTIAL_EXTRACTION"}
  BY DEF Usable
<1> HIDE DEF st
<1>3. CASE st \in Usable(provider)
  BY <1>1, <1>2, <1>3 DEF GiveValue, callVars, Repairable, Transient, st
<1>4. CASE st \in Repairable
  <2>1. st \notin Usable(provider) /\ RepairOnce(st)
    BY <1>1, <1>2, <1>4 DEF Repairable, Transient
  <2> QED
    BY <1>1, <1>4, <2>1 DEF RepairOnce, Raise, StepRetryable, Transient, callVars, st
<1>5. CASE st \in Transient
  <2>1. st \notin Usable(provider) /\ RetryOrRaise(st)
    BY <1>1, <1>2, <1>5 DEF Repairable, Transient
  <2> QED
    BY <1>1, <1>5, <2>1 DEF RetryOrRaise, Raise, callVars, st
<1>6. CASE st \notin Usable(provider) \cup Repairable \cup Transient
  <2>1. Raise(st)
    BY <1>1, <1>6
  <2> QED
    BY <1>1, <1>6, <2>1 DEF Raise, StepRetryable, callVars, st
<1> QED
  BY <1>3, <1>4, <1>5, <1>6

\* What the current call has paid for, now ...
LEMMA SpentIs ==
    ASSUME retries \in Nat
    PROVE  /\ Spent \in Nat
           /\ repaired => Spent = retries + 1
           /\ ~repaired => Spent = retries
BY DEF Spent

\* ... and after a step.
LEMMA SpentWillBe ==
    /\ repaired' => Spent' = retries' + 1
    /\ retries' \in Nat /\ ~repaired' => Spent' = retries'
BY DEF Spent

\* What a request costs, and what pays for it.
LEMMA AskIsPaidFor ==
    ASSUME NEW a \in AnswerOf(provider), AnswersIInv, Ask(a)
    PROVE  /\ Spent \in Nat /\ Closing = 0 /\ repaired' \in BOOLEAN
           /\ retries' \in 0..MaxTransport /\ tries' \in 0..MaxTries
           /\ repaired' => repaired \/ Status(provider, a) \in Repairable
           /\ \/ tries' = tries /\ Spent' = Spent + 1
              \/ tries' = tries + 1 /\ Spent' = 0
              \/ tries' = tries /\ Spent' = Spent /\ outcome' # "asking"
<1> USE AnswersAssumption DEF AnswersIInv, RequestsArePaidFor
<1>1. /\ Spent \in Nat
      /\ repaired => Spent = retries + 1
      /\ ~repaired => Spent = retries
      /\ repaired' => Spent' = retries' + 1
      /\ retries' \in Nat /\ ~repaired' => Spent' = retries'
  <2>1. retries \in Nat
    OBVIOUS
  <2> QED
    BY <2>1, SpentIs, SpentWillBe
<1>2. outcome = "asking" /\ Closing = 0
  BY AskCases DEF Closing
<1>3. CASE outcome' # "asking" /\ UNCHANGED <<retries, repaired, tries>>
  <2>1. Spent' = Spent
    BY <1>3 DEF Spent
  <2> QED
    BY <1>1, <1>2, <1>3, <2>1
<1>4. CASE /\ Status(provider, a) \in Repairable
           /\ ~repaired /\ repaired' = TRUE /\ UNCHANGED <<retries, tries>>
  BY <1>1, <1>2, <1>4
<1>5. CASE retries < MaxTransport /\ retries' = retries + 1 /\ UNCHANGED <<repaired, tries>>
  <2>1. Spent' = Spent + 1
    BY <1>5 DEF Spent
  <2>2. retries' \in 0..MaxTransport
    BY <1>5
  <2> QED
    BY <1>1, <1>2, <1>5, <2>1, <2>2
<1>6. CASE tries < MaxTries /\ tries' = tries + 1 /\ retries' = 0 /\ repaired' = FALSE
  <2>1. ~repaired' /\ repaired' \in BOOLEAN
    BY <1>6
  <2>2. Spent' = 0 /\ tries' \in 0..MaxTries /\ retries' \in 0..MaxTransport
    BY <1>1, <1>6, <2>1
  <2> QED
    BY <1>1, <1>2, <1>6, <2>1, <2>2
<1>7. Status(provider, a) \notin {"asking", "value"}
  BY StatusOfAnswer
<1> QED
  BY AskCases, <1>3, <1>4, <1>5, <1>6, <1>7

\* One request keeps the invariant.
LEMMA AskKeepsIInv ==
    ASSUME NEW a \in AnswerOf(provider), AnswersIInv, Ask(a)
    PROVE  AnswersIInv'
<1> USE AnswersAssumption
<1>1. /\ Status(provider, a) \notin {"asking", "value"}
      /\ a \in Firm(provider) =>
            Status(provider, a) \notin Usable(provider) \cup Repairable \cup Transient
      /\ Status(provider, a) \in Usable(provider) => a \in {"good", "empty", "some failed"}
      /\ Status(provider, a) \in Repairable => provider = "openai"
      /\ Status(provider, a) = "LEGAL_RESTRICTION" <=> provider = "hunter" /\ a = "451"
  BY StatusOfAnswer DEF AnswersIInv
<1>2. "LEGAL_RESTRICTION" \notin Usable(provider) \cup Repairable \cup Transient
  BY DEF Usable, Repairable, Transient
<1>3. OutcomeFollowsAnswer'
  BY AskCases, <1>1, <1>2 DEF OutcomeFollowsAnswer, Firm
<1>4. /\ PerCall \in Nat /\ PerCall' = PerCall
      /\ PerCall = 1 + MaxTransport + (IF provider = "openai" THEN 1 ELSE 0)
  <2>1. provider' = provider
    BY AskCases
  <2> QED
    BY <2>1 DEF PerCall
<1>5. Spent \in Nat /\ Spent + 1 <= PerCall
  <2>1. repaired => PerCall = 2 + MaxTransport
    BY <1>4 DEF AnswersIInv, RequestsArePaidFor
  <2> QED
    BY <1>4, <2>1 DEF AnswersIInv, RequestsArePaidFor, Spent
<1>6. requests' <= tries' * PerCall' + Spent' + Closing' /\ requests' \in Nat
  <2> DEFINE t == tries * PerCall
  <2>0. t \in Nat
    BY <1>4, OneCallMore DEF AnswersIInv, RequestsArePaidFor
  <2>1. requests \in Nat /\ requests <= t + Spent /\ t \in Nat /\ requests' = requests + 1
    <3>1. Closing = 0 /\ requests' = requests + 1
      BY AskCases, AskIsPaidFor
    <3>2. requests \in Nat /\ requests <= t + Spent + Closing
      BY DEF AnswersIInv, RequestsArePaidFor
    <3> HIDE DEF t
    <3> QED
      BY <1>5, <2>0, <3>1, <3>2
  <2>2. tries' = tries => tries' * PerCall' = t
    BY <1>4
  <2>3. tries' = tries + 1 => tries' * PerCall' = t + PerCall
    BY <1>4, OneCallMore DEF AnswersIInv, RequestsArePaidFor
  <2>4. Closing' \in {0, 1} /\ (outcome' # "asking" => Closing' = 1)
    BY DEF Closing
  <2>5. tries \in Nat
    BY DEF AnswersIInv, RequestsArePaidFor
  <2> HIDE DEF t
  <2> QED
    BY AskIsPaidFor, <1>4, <1>5, <2>1, <2>2, <2>3, <2>4, <2>5
<1>7. RequestsArePaidFor'
  <2>1. repaired' => provider' = "openai"
    BY AskCases, AskIsPaidFor, <1>1 DEF AnswersIInv, RequestsArePaidFor
  <2> QED
    BY AskIsPaidFor, <1>6, <2>1 DEF RequestsArePaidFor
<1> QED
  BY AskCases, <1>3, <1>7 DEF AnswersIInv

\* Whatever comes back, in whatever order: a firm answer ends the step, its requests
\* are bounded by its two loops and one repair per call, a value has a usable
\* answer, and only Hunter's 451 is a legal restriction (providers/live/*.py).
THEOREM AnswersAreRespectedHolds == AnswersSpec => []AnswersAreRespected
<1> USE AnswersAssumption
<1>1. AnswersInit => AnswersIInv
  <2> SUFFICES ASSUME AnswersInit PROVE AnswersIInv
    OBVIOUS
  <2>1. last \notin Firm(provider)
    BY DEF AnswersInit, Provider, Firm
  <2>2. PerCall \in Nat
    BY DEF PerCall
  <2>3. requests <= tries * PerCall + Spent + Closing
    BY <2>2 DEF AnswersInit, Spent, Closing
  <2>4. RequestsArePaidFor
    <3>1. ~repaired /\ repaired \in BOOLEAN
      BY DEF AnswersInit
    <3> QED
      BY <2>3, <3>1 DEF AnswersInit, RequestsArePaidFor
  <2> QED
    BY <2>1, <2>4 DEF AnswersInit, AnswersIInv, OutcomeFollowsAnswer
<1>2. AnswersIInv /\ [AnswersNext]_answerVars => AnswersIInv'
  <2>1. CASE UNCHANGED answerVars
    BY <2>1 DEF answerVars, AnswersIInv, RequestsArePaidFor, OutcomeFollowsAnswer, Spent, Closing,
       PerCall
  <2> QED
    BY <2>1, AskKeepsIInv DEF AnswersNext
<1>3. AnswersIInv => AnswersAreRespected
  <2> SUFFICES ASSUME AnswersIInv PROVE AnswersAreRespected
    OBVIOUS
  <2>1. PerCall \in Nat /\ Spent + Closing <= PerCall /\ Spent + Closing \in Nat
    BY DEF PerCall, Spent, Closing, AnswersIInv, RequestsArePaidFor
  <2>2. tries * PerCall \in Nat /\ tries * PerCall + PerCall <= (1 + MaxTries) * PerCall
        /\ (1 + MaxTries) * PerCall \in Nat
    BY <2>1, OneCallMore DEF AnswersIInv, RequestsArePaidFor
  <2>3. requests <= tries * PerCall + PerCall
    BY <2>1, <2>2 DEF AnswersIInv, RequestsArePaidFor, Spent, Closing
  <2>4. requests <= (1 + MaxTries) * PerCall
    BY <2>1, <2>2, <2>3 DEF AnswersIInv, RequestsArePaidFor
  <2> QED
    BY <2>4 DEF AnswersAreRespected, AnswersIInv, OutcomeFollowsAnswer
<1> QED
  BY <1>1, <1>2, <1>3, PTL DEF AnswersSpec

-----------------------------------------------------------------------------
(* RunIntake: the rows of the runs table and how discovery moves one on.      *)

Prospects == Seq([domain : Domain, duplicate : BOOLEAN])

\* What a row keeps when discovery moves it on: all that its admission said.
SameRun(q, s) ==
    q.mode = s.mode /\ q.gate = s.gate /\ q.age = s.age /\ q.begun = s.begun /\ q.process = s.process

\* A row after a look-up, ...
LEMMA LookedRow ==
    ASSUME NEW q \in RunRow, NEW v \in {"no", "stored", "absent", "added"}
    PROVE  LET s == [q EXCEPT !.looked = v] IN
           /\ s \in RunRow /\ SameRun(q, s) /\ s.looked = v
           /\ s.status = q.status /\ s.todo = q.todo /\ s.lost = q.lost /\ s.prospects = q.prospects
BY DEF RunRow, SameRun

\* ... after its end, ...
LEMMA EndedRow ==
    ASSUME NEW q \in RunRow, NEW v \in {"COMPLETED", "INTERRUPTED"}
    PROVE  LET s == [q EXCEPT !.status = v] IN
           /\ s \in RunRow /\ SameRun(q, s) /\ s.status = v
           /\ s.looked = q.looked /\ s.todo = q.todo /\ s.lost = q.lost /\ s.prospects = q.prospects
BY DEF RunRow, SameRun

\* ... after a collision, ...
LEMMA LostRow ==
    ASSUME NEW q \in RunRow
    PROVE  LET s == [q EXCEPT !.status = "FAILED", !.lost = TRUE] IN
           /\ s \in RunRow /\ SameRun(q, s) /\ s.status = "FAILED"
           /\ s.looked = q.looked /\ s.todo = q.todo /\ s.prospects = q.prospects
BY DEF RunRow, SameRun

\* ... and after a prospect was stored.
LEMMA StoredRow ==
    ASSUME NEW q \in RunRow, q.todo # <<>>, NEW b \in BOOLEAN
    PROVE  LET p == [domain |-> Head(q.todo), duplicate |-> b]
               s == [q EXCEPT !.prospects = Append(@, p), !.todo = Tail(@), !.looked = "no"] IN
           /\ s \in RunRow /\ SameRun(q, s) /\ s.looked = "no"
           /\ s.status = q.status /\ s.lost = q.lost
           /\ s.todo = Tail(q.todo) /\ s.prospects = Append(q.prospects, p)
<1> DEFINE p == [domain |-> Head(q.todo), duplicate |-> b]
<1>1. p \in [domain : Domain, duplicate : BOOLEAN]
  BY DEF RunRow
<1>2. Append(q.prospects, p) \in Prospects
  BY <1>1 DEF RunRow, Prospects
<1>3. Tail(q.todo) \in Seq(Domain)
  BY DEF RunRow
<1> HIDE DEF p
<1> QED
  BY <1>2, <1>3 DEF RunRow, SameRun, Prospects, p

\* A step of one run leaves every other row as it is.
LEMMA RowReplaced ==
    ASSUME NEW i \in DOMAIN runs, runs \in Seq(RunRow), NEW q \in RunRow,
           runs' = [runs EXCEPT ![i] = q]
    PROVE  /\ runs' \in Seq(RunRow) /\ DOMAIN runs' = DOMAIN runs
           /\ runs'[i] = q /\ \A j \in DOMAIN runs : j # i => runs'[j] = runs[j]
OBVIOUS

\* The row a step of the discovery leaves, by the step.
LookedUp(i) ==
    /\ runs[i].todo # <<>> /\ companies' = companies
    /\ runs'[i].looked \in {"stored", "absent"}
    /\ runs'[i].looked = "stored" <=> Next1(i) \in companies
    /\ runs'[i].status = runs[i].status /\ runs'[i].lost = runs[i].lost
    /\ runs'[i].todo = runs[i].todo /\ runs'[i].prospects = runs[i].prospects

Inserted(i) ==
    /\ runs[i].looked = "absent" /\ runs[i].status = "RUNNING"
    /\ \/ /\ Next1(i) \in companies /\ companies' = companies
          /\ runs'[i].status = "FAILED" /\ runs'[i].looked = runs[i].looked
       \/ /\ companies' = companies \cup {Next1(i)} /\ runs'[i].looked = "added"
          /\ runs'[i].status = runs[i].status /\ runs'[i].lost = runs[i].lost
    /\ runs'[i].todo = runs[i].todo /\ runs'[i].prospects = runs[i].prospects

Added(i) ==
    /\ runs[i].looked \in {"stored", "added"} /\ runs[i].status = "RUNNING"
    /\ companies' = companies
    /\ runs'[i].looked = "no" /\ runs'[i].todo = Tail(runs[i].todo)
    /\ runs'[i].prospects = Append(runs[i].prospects,
                                   [domain |-> Next1(i), duplicate |-> Seen(i, Next1(i))])
    /\ runs'[i].status = runs[i].status /\ runs'[i].lost = runs[i].lost

Ended(i) ==
    /\ companies' = companies
    /\ runs[i].status = "RUNNING"
    /\ \/ runs'[i].status = "COMPLETED" /\ runs[i].todo = <<>>
       \/ runs'[i].status = "INTERRUPTED"
    /\ runs'[i].looked = runs[i].looked /\ runs'[i].lost = runs[i].lost
    /\ runs'[i].todo = runs[i].todo /\ runs'[i].prospects = runs[i].prospects

\* Every step of a discovery is one of the four, on one row.
LEMMA DriveRow ==
    ASSUME NEW i \in DOMAIN runs, IntakeTypeOK, DiscoveryInOrder, Drive(i)
    PROVE  /\ runs' \in Seq(RunRow) /\ DOMAIN runs' = DOMAIN runs
           /\ \A j \in DOMAIN runs : j # i => runs'[j] = runs[j]
           /\ SameRun(runs[i], runs'[i]) /\ UNCHANGED <<session, request>>
           /\ companies' \subseteq Domain
           /\ LookedUp(i) \/ Inserted(i) \/ Added(i) \/ Ended(i)
<1> DEFINE q == runs[i]
<1>1. runs \in Seq(RunRow) /\ q \in RunRow /\ companies \subseteq Domain
  <2>1. runs \in Seq(RunRow) /\ companies \subseteq Domain
    BY DEF IntakeTypeOK
  <2> QED
    BY <2>1
<1>2. ASSUME NEW s \in RunRow, runs' = [runs EXCEPT ![i] = s], SameRun(q, s)
      PROVE  /\ runs' \in Seq(RunRow) /\ DOMAIN runs' = DOMAIN runs
             /\ \A j \in DOMAIN runs : j # i => runs'[j] = runs[j]
             /\ SameRun(runs[i], runs'[i]) /\ runs'[i] = s
  BY <1>1, <1>2, RowReplaced
<1>3. CASE LookUp(i)
  <2>1. PICK v \in {"stored", "absent"} :
          /\ runs' = [runs EXCEPT ![i] = [q EXCEPT !.looked = v]]
          /\ v = "stored" <=> Next1(i) \in companies
    BY <1>3 DEF LookUp
  <2> DEFINE s == [q EXCEPT !.looked = v]
  <2>2. /\ s \in RunRow /\ SameRun(q, s) /\ s.looked = v
        /\ s.status = q.status /\ s.todo = q.todo /\ s.lost = q.lost /\ s.prospects = q.prospects
    <3>1. v \in {"no", "stored", "absent", "added"}
      OBVIOUS
    <3> QED
      BY <1>1, <3>1, LookedRow
  <2>3. UNCHANGED <<session, request>> /\ companies' = companies /\ q.todo # <<>>
    BY <1>3 DEF LookUp
  <2> HIDE DEF s
  <2> QED
    BY <1>1, <1>2, <2>1, <2>2, <2>3 DEF LookedUp, s
<1>4. CASE Insert(i)
  <2>1. UNCHANGED <<session, request>> /\ q.looked = "absent" /\ q.status = "RUNNING"
    BY <1>4 DEF Insert, Driving
  <2>2. Next1(i) \in Domain
    <3>1. q.todo # <<>> /\ q.todo \in Seq(Domain)
      BY <1>1, <2>1 DEF DiscoveryInOrder, RunRow
    <3> QED
      BY <3>1 DEF Next1
  <2>3. CASE Next1(i) \in companies
    <3> DEFINE s == [q EXCEPT !.status = "FAILED", !.lost = TRUE]
    <3>1. runs' = [runs EXCEPT ![i] = s] /\ companies' = companies
      BY <1>4, <2>3 DEF Insert
    <3>2. /\ s \in RunRow /\ SameRun(q, s) /\ s.status = "FAILED"
          /\ s.looked = q.looked /\ s.todo = q.todo /\ s.prospects = q.prospects
      BY <1>1, LostRow
    <3> HIDE DEF s
    <3> QED
      BY <1>1, <1>2, <2>1, <2>3, <3>1, <3>2 DEF Inserted
  <2>4. CASE Next1(i) \notin companies
    <3> DEFINE s == [q EXCEPT !.looked = "added"]
    <3>1. runs' = [runs EXCEPT ![i] = s] /\ companies' = companies \cup {Next1(i)}
      BY <1>4, <2>4 DEF Insert
    <3>2. /\ s \in RunRow /\ SameRun(q, s) /\ s.looked = "added"
          /\ s.status = q.status /\ s.todo = q.todo /\ s.lost = q.lost /\ s.prospects = q.prospects
      BY <1>1, LookedRow
    <3> HIDE DEF s
    <3> QED
      BY <1>1, <1>2, <2>1, <2>2, <3>1, <3>2 DEF Inserted
  <2> QED
    BY <2>3, <2>4
<1>5. CASE AddProspect(i)
  <2>1. PICK b \in BOOLEAN : b = Seen(i, Next1(i))
    BY DEF Seen
  <2> DEFINE p == [domain |-> Head(q.todo), duplicate |-> b]
             s == [q EXCEPT !.prospects = Append(@, p), !.todo = Tail(@), !.looked = "no"]
  <2>2. runs' = [runs EXCEPT ![i] = s]
    BY <1>5, <2>1 DEF AddProspect, Store, Next1
  <2>3. /\ UNCHANGED <<session, request>> /\ companies' = companies
        /\ q.looked \in {"stored", "added"} /\ q.status = "RUNNING"
    BY <1>5 DEF AddProspect, Store, Driving
  <2>4. q.todo # <<>>
    BY <2>3 DEF DiscoveryInOrder
  <2>5. /\ s \in RunRow /\ SameRun(q, s) /\ s.looked = "no"
        /\ s.status = q.status /\ s.lost = q.lost
        /\ s.todo = Tail(q.todo) /\ s.prospects = Append(q.prospects, p)
    BY <1>1, <2>4, StoredRow
  <2> HIDE DEF s
  <2>6. runs'[i] = s /\ p = [domain |-> Next1(i), duplicate |-> Seen(i, Next1(i))]
    BY <1>2, <2>1, <2>2, <2>5 DEF Next1
  <2> HIDE DEF p
  <2> QED
    BY <1>1, <1>2, <2>2, <2>3, <2>5, <2>6 DEF Added
<1>6. CASE Finish(i) \/ Reap(i)
  <2>1. PICK v \in {"COMPLETED", "INTERRUPTED"} :
          /\ runs' = [runs EXCEPT ![i] = [q EXCEPT !.status = v]]
          /\ v = "COMPLETED" => q.todo = <<>>
    BY <1>6 DEF Finish, Reap
  <2> DEFINE s == [q EXCEPT !.status = v]
  <2>2. /\ s \in RunRow /\ SameRun(q, s) /\ s.status = v
        /\ s.looked = q.looked /\ s.todo = q.todo /\ s.lost = q.lost /\ s.prospects = q.prospects
    BY <1>1, EndedRow
  <2>3. UNCHANGED <<session, request>> /\ companies' = companies /\ q.status = "RUNNING"
    BY <1>6 DEF Finish, Reap, Driving
  <2> HIDE DEF s
  <2> QED
    BY <1>1, <1>2, <2>1, <2>2, <2>3 DEF Ended, s
<1> QED
  BY <1>3, <1>4, <1>5, <1>6 DEF Drive

-----------------------------------------------------------------------------
(* Types.                                                                  *)

NewRow(r, seeds) ==
    [mode |-> request[r].mode, gate |-> request[r].gate, age |-> request[r].age,
     begun |-> now, process |-> started, status |-> "RUNNING", todo |-> seeds,
     looked |-> "no", lost |-> FALSE, prospects |-> <<>>]

\* The row start_run stores.
LEMMA NewRowFacts ==
    ASSUME NEW r \in Request, NEW seeds \in Seeds, IntakeTypeOK
    PROVE  LET s == NewRow(r, seeds) IN
           /\ s \in RunRow
           /\ s.mode = request[r].mode /\ s.gate = request[r].gate
           /\ s.age = request[r].age /\ s.begun = now
           /\ s.process = started /\ s.status = "RUNNING" /\ s.todo = seeds
           /\ s.looked = "no" /\ ~s.lost /\ s.prospects = <<>>
<1>1. seeds \in Seq(Domain)
  BY IntakeAssumption
<1>2. /\ request[r].mode \in Mode /\ request[r].gate \in Nat /\ request[r].age \in Nat
      /\ now \in Nat /\ started \in Nat
  BY DEF IntakeTypeOK
<1> QED
  BY <1>1, <1>2 DEF NewRow, RunRow

\* A new row goes to the end of the table.
LEMMA Appended ==
    ASSUME runs \in Seq(RunRow), NEW s \in RunRow, runs' = Append(runs, s)
    PROVE  /\ runs' \in Seq(RunRow) /\ DOMAIN runs' = DOMAIN runs \cup {Len(runs) + 1}
           /\ Len(runs) + 1 \notin DOMAIN runs
           /\ runs'[Len(runs) + 1] = s /\ \A j \in DOMAIN runs : runs'[j] = runs[j]
<1>1. Len(runs) \in Nat /\ DOMAIN runs = 1..Len(runs)
  OBVIOUS
<1>2. Append(runs, s) \in Seq(RunRow) /\ Len(Append(runs, s)) = Len(runs) + 1
  OBVIOUS
<1>3. DOMAIN runs' = 1..(Len(runs) + 1)
  BY <1>2
<1>4. Append(runs, s)[Len(runs) + 1] = s /\ \A j \in 1..Len(runs) : Append(runs, s)[j] = runs[j]
  OBVIOUS
<1> QED
  BY <1>1, <1>2, <1>3, <1>4

\* What a request does to its own record.
LEMMA RequestStep ==
    ASSUME IntakeTypeOK, KeyIsKnown, NEW r \in Request,
           \/ \E play \in Mode, body \in Mode \cup {"none"} : Enter(r, play, body)
           \/ CountActive(r) \/ CountRecent(r) \/ \E seeds \in Seeds : Create(r, seeds)
    PROVE  /\ DOMAIN request' = Request
           /\ \A q \in Request : q # r => request'[q] = request[q]
           /\ request'[r] \in [pc : {"idle", "count active", "count recent", "create"},
                               mode : Mode, gate : Nat, age : Nat]
           /\ \/ request'[r] = Idle
              \/ /\ request[r].pc = "idle" /\ request'[r].mode = "live" /\ SessionValid
                 /\ request'[r].pc = "count active" /\ request'[r].gate = cookie.key
                 /\ request'[r].age = now - cookie.issued
              \/ request[r].pc = "idle" /\ request'[r].mode = "demo" /\ request'[r].pc = "create"
              \/ /\ request[r].pc \in {"count active", "count recent"}
                 /\ request'[r].mode = request[r].mode /\ request'[r].gate = request[r].gate
                 /\ request'[r].age = request[r].age
                 /\ request'[r].pc = IF request[r].pc = "count active" THEN "count recent" ELSE "create"
<1> DEFINE q == request[r]
           Req == [pc : {"idle", "count active", "count recent", "create"}, mode : Mode, gate : Nat, age : Nat]
<1>1. q \in Req /\ request \in [Request -> Req] /\ Idle \in Req
  BY DEF IntakeTypeOK, Idle, Mode
<1>2. ASSUME NEW s \in Req, request' = [request EXCEPT ![r] = s]
      PROVE  /\ DOMAIN request' = Request
             /\ \A p \in Request : p # r => request'[p] = request[p]
             /\ request'[r] = s /\ request'[r] \in Req
  BY <1>1, <1>2
<1>3. CASE Leave(r)
  BY <1>1, <1>2, <1>3 DEF Leave
<1>4. ASSUME NEW v \in {"count recent", "create"}, Move(r, v)
      PROVE  /\ DOMAIN request' = Request
             /\ \A p \in Request : p # r => request'[p] = request[p]
             /\ request'[r] \in Req /\ request'[r].pc = v
             /\ request'[r].mode = request[r].mode /\ request'[r].gate = request[r].gate
             /\ request'[r].age = request[r].age
  <2>1. request' = [request EXCEPT ![r] = [q EXCEPT !.pc = v]]
    BY <1>4 DEF Move
  <2>2. /\ [q EXCEPT !.pc = v] \in Req /\ [q EXCEPT !.pc = v].pc = v
        /\ [q EXCEPT !.pc = v].mode = q.mode /\ [q EXCEPT !.pc = v].gate = q.gate
        /\ [q EXCEPT !.pc = v].age = q.age
    BY <1>1
  <2> QED
    BY <1>2, <2>1, <2>2
<1>5. ASSUME NEW play \in Mode, NEW body \in Mode \cup {"none"}, Enter(r, play, body)
      PROVE  /\ DOMAIN request' = Request
             /\ \A p \in Request : p # r => request'[p] = request[p]
             /\ request[r].pc = "idle"
             /\ request'[r] \in Req
             /\ \/ /\ request'[r].mode = "live" /\ SessionValid
                   /\ request'[r].pc = "count active" /\ request'[r].gate = cookie.key
                   /\ request'[r].age = now - cookie.issued
                \/ request'[r].mode = "demo" /\ request'[r].pc = "create"
  <2> DEFINE mode == IF body = "none" THEN play ELSE body
             s == [pc |-> IF mode = "live" THEN "count active" ELSE "create", mode |-> mode,
                   gate |-> IF mode = "live" THEN cookie.key ELSE 0,
                   age |-> IF mode = "live" THEN now - cookie.issued ELSE 0]
  <2>1. mode \in Mode /\ cookie.key \in Nat /\ now - cookie.issued \in Nat
    <3>1. /\ now \in Nat /\ cookie \in [key : Nat, issued : Nat] /\ cookie.issued <= now
          /\ play \in Mode /\ body \in Mode \cup {"none"}
      BY DEF IntakeTypeOK, KeyIsKnown
    <3>2. now - cookie.issued \in Nat
      BY <3>1
    <3>3. mode \in Mode
      BY <3>1
    <3> QED
      BY <3>1, <3>2, <3>3
  <2>2. /\ q.pc = "idle" /\ (mode = "live" => SessionValid)
        /\ request' = [request EXCEPT ![r] = s]
    BY <1>5 DEF Enter
  <2>3. /\ s \in Req /\ s.mode = mode
        /\ s.pc = (IF mode = "live" THEN "count active" ELSE "create")
        /\ s.gate = IF mode = "live" THEN cookie.key ELSE 0
        /\ s.age = IF mode = "live" THEN now - cookie.issued ELSE 0
    <3> HIDE DEF mode
    <3> QED
      BY <2>1
  <2>4. mode = "live" \/ mode = "demo"
    BY <2>1 DEF Mode
  <2> HIDE DEF s, mode
  <2> QED
    BY <1>2, <2>2, <2>3, <2>4
<1>6. CASE CountActive(r)
  BY <1>3, <1>4, <1>6 DEF CountActive
<1>7. CASE CountRecent(r)
  BY <1>3, <1>4, <1>7 DEF CountRecent
<1>8. CASE \E seeds \in Seeds : Create(r, seeds)
  BY <1>3, <1>8 DEF Create
<1> QED
  BY <1>5, <1>6, <1>7, <1>8

\* The steps that leave the tables alone: time, sessions, and a request's counting.
Aside ==
    \/ TimePasses \/ Login \/ WrongPassphrase \/ Logout \/ Restart
    \/ \E r \in Request : CountActive(r) \/ CountRecent(r)
    \/ \E r \in Request, play \in Mode, body \in Mode \cup {"none"} : Enter(r, play, body)

\* They do leave them alone.
LEMMA AsideKeepsTables ==
    ASSUME Aside PROVE UNCHANGED tables
BY DEF Aside, TimePasses, Login, WrongPassphrase, Logout, Restart, CountActive, CountRecent, Enter

\* Every step is one of those, the creation of a run, or a step of a discovery.
LEMMA IntakeCases ==
    ASSUME [IntakeNext]_intakeVars
    PROVE  \/ Aside \/ UNCHANGED intakeVars
           \/ \E r \in Request, seeds \in Seeds : Create(r, seeds)
           \/ \E i \in DOMAIN runs : Drive(i)
BY DEF IntakeNext, Serve, Aside

\* Every step keeps the types.
LEMMA IntakeTypesKept ==
    ASSUME IntakeTypeOK, KeyIsKnown, DiscoveryInOrder, [IntakeNext]_intakeVars
    PROVE  IntakeTypeOK'
<1> DEFINE Req == [pc : {"idle", "count active", "count recent", "create"}, mode : Mode, gate : Nat, age : Nat]
<1>1. CASE UNCHANGED intakeVars
  BY <1>1 DEF IntakeTypeOK, intakeVars, session, tables
<1>2. CASE \E i \in DOMAIN runs : Drive(i)
  BY <1>2, DriveRow DEF IntakeTypeOK, session
<1>3. ASSUME NEW r \in Request,
             \/ \E play \in Mode, body \in Mode \cup {"none"} : Enter(r, play, body)
             \/ CountActive(r) \/ CountRecent(r) \/ \E seeds \in Seeds : Create(r, seeds)
      PROVE  IntakeTypeOK'
  <2>1. request' \in [Request -> Req]
    <3>1. /\ \A q \in Request : q # r => request'[q] = request[q]
          /\ request'[r] \in Req
      BY <1>3, RequestStep
    <3>2. request \in [Request -> Req]
      BY DEF IntakeTypeOK
    <3>3. \E f : request' = [request EXCEPT ![r] = f]
      BY <1>3 DEF Enter, CountActive, CountRecent, Create, Move, Leave
    <3> QED
      BY <3>1, <3>2, <3>3
  <2>2. UNCHANGED <<session, companies>>
    BY <1>3 DEF Enter, CountActive, CountRecent, Create, tables
  <2>3. runs' \in Seq(RunRow)
    <3>1. CASE runs' = runs
      BY <3>1 DEF IntakeTypeOK
    <3>2. ASSUME NEW seeds \in Seeds, Create(r, seeds) PROVE runs' \in Seq(RunRow)
      <4>1. runs' = Append(runs, NewRow(r, seeds))
        BY <3>2 DEF Create, NewRow
      <4> QED
        BY <4>1, NewRowFacts, Appended DEF IntakeTypeOK
    <3> QED
      BY <1>3, <3>1, <3>2 DEF Enter, CountActive, CountRecent, tables
  <2> QED
    BY <2>1, <2>2, <2>3 DEF IntakeTypeOK, session
<1>4. CASE TimePasses \/ WrongPassphrase \/ Login \/ Logout
  <2>1. /\ UNCHANGED <<started, request, runs, companies>>
        /\ now' = now \/ now' = now + 1
        /\ \/ cookie' = cookie \/ cookie' = NoCookie
           \/ cookie' = [key |-> started, issued |-> now]
    BY <1>4 DEF TimePasses, WrongPassphrase, Login, Logout, tables
  <2>2. cookie' \in [key : Nat, issued : Nat] /\ now' \in Nat
    <3>1. /\ cookie \in [key : Nat, issued : Nat] /\ NoCookie \in [key : Nat, issued : Nat]
          /\ started \in Nat /\ now \in Nat
      BY DEF IntakeTypeOK, NoCookie
    <3>2. [key |-> started, issued |-> now] \in [key : Nat, issued : Nat]
      BY <3>1
    <3> QED
      BY <2>1, <3>1, <3>2
  <2> QED
    BY <2>1, <2>2 DEF IntakeTypeOK
<1>5. CASE Restart
  <2>1. /\ UNCHANGED <<now, cookie, runs, companies>> /\ started' = started + 1
        /\ request' = [q \in Request |-> Idle]
    BY <1>5 DEF Restart, tables
  <2>2. Idle \in Req
    BY DEF Idle, Mode
  <2>3. request' \in [Request -> Req]
    <3> HIDE DEF Req
    <3> QED
      BY <2>1, <2>2
  <2>4. started' \in Nat \ {0}
    <3>1. started \in Nat \ {0}
      BY DEF IntakeTypeOK
    <3> QED
      BY <2>1, <3>1
  <2> QED
    BY <2>1, <2>3, <2>4 DEF IntakeTypeOK
<1> QED
  BY <1>1, <1>2, <1>3, <1>4, <1>5 DEF IntakeNext, Serve

-----------------------------------------------------------------------------
(* Sessions.                                                               *)

\* No step lets a request or a run in without a session that was valid.
LEMMA SessionsKept ==
    ASSUME IntakeTypeOK, DiscoveryInOrder, SessionsLetIn, [IntakeNext]_intakeVars
    PROVE  SessionsLetIn'
<1>1. /\ KeyIsKnown /\ RequestsAreLetIn /\ RunsAreLetIn
      /\ started \in Nat \ {0} /\ now \in Nat /\ cookie.issued \in Nat
  BY DEF SessionsLetIn, IntakeTypeOK
<1>2. \A i \in DOMAIN runs : runs[i] \in RunRow /\ runs[i].begun \in Nat
  <2>1. \A q \in RunRow : q.begun \in Nat
    BY DEF RunRow
  <2>2. runs \in Seq(RunRow)
    BY DEF IntakeTypeOK
  <2> QED
    BY <2>1, <2>2
<1>3. ASSUME UNCHANGED runs, now' = now \/ now' = now + 1 PROVE RunsAreLetIn'
  <2> SUFFICES ASSUME NEW i \in DOMAIN runs PROVE runs[i].begun <= now'
    BY <1>1, <1>3 DEF RunsAreLetIn, Live
  <2>1. runs[i].begun <= now /\ runs[i].begun \in Nat
    BY <1>1, <1>2 DEF RunsAreLetIn
  <2> QED
    BY <1>1, <1>3, <2>1
<1>4. CASE UNCHANGED intakeVars
  BY <1>1, <1>4 DEF intakeVars, session, tables, SessionsLetIn, KeyIsKnown, RequestsAreLetIn,
     RunsAreLetIn, Live
<1>5. CASE \E i \in DOMAIN runs : Drive(i)
  <2> PICK i \in DOMAIN runs : Drive(i)
    BY <1>5
  <2>1. /\ DOMAIN runs' = DOMAIN runs /\ SameRun(runs[i], runs'[i])
        /\ \A j \in DOMAIN runs : j # i => runs'[j] = runs[j]
        /\ UNCHANGED <<now, started, cookie, request>>
    BY DriveRow DEF session
  <2>2. RunsAreLetIn'
    BY <1>1, <2>1 DEF RunsAreLetIn, Live, SameRun
  <2>3. KeyIsKnown' /\ RequestsAreLetIn'
    BY <1>1, <2>1 DEF KeyIsKnown, RequestsAreLetIn
  <2> QED
    BY <2>2, <2>3 DEF SessionsLetIn
<1>6. ASSUME NEW r \in Request,
             \/ \E play \in Mode, body \in Mode \cup {"none"} : Enter(r, play, body)
             \/ CountActive(r) \/ CountRecent(r) \/ \E seeds \in Seeds : Create(r, seeds)
      PROVE  SessionsLetIn'
  <2>1. UNCHANGED <<now, started, cookie>>
    BY <1>6 DEF Enter, CountActive, CountRecent, Create, session
  <2>2. RequestsAreLetIn'
    <3>1. SessionValid =>
             cookie.key # 0 /\ cookie.key >= started - 1 /\ now - cookie.issued <= Lifetime
      BY <1>1 DEF SessionValid, KeyIsKnown
    <3>2. ASSUME NEW q \in Request, q # r PROVE request'[q] = request[q]
      BY <1>1, <1>6, <3>2, RequestStep
    <3>3. /\ request'[r].pc \in {"count active", "count recent"} => request'[r].mode = "live"
          /\ request'[r].pc # "idle" /\ request'[r].mode = "live" =>
                request'[r].gate # 0 /\ request'[r].gate >= started - 1 /\ request'[r].age <= Lifetime
      <4>1. Idle.pc = "idle" /\ Idle.mode = "demo"
        BY DEF Idle
      <4>2. /\ request[r].pc \in {"count active", "count recent"} => request[r].mode = "live"
            /\ request[r].pc # "idle" /\ request[r].mode = "live" =>
                  request[r].gate # 0 /\ request[r].gate >= started - 1 /\ request[r].age <= Lifetime
        BY <1>1 DEF RequestsAreLetIn
      <4> QED
        BY <1>1, <1>6, <3>1, <4>1, <4>2, RequestStep
    <3>4. ASSUME NEW q \in Request PROVE RequestsAreLetIn!(q)'
      <4>1. CASE q = r
        BY <2>1, <3>3, <4>1
      <4>2. CASE q # r
        BY <1>1, <2>1, <3>2, <4>2 DEF RequestsAreLetIn
      <4> QED
        BY <4>1, <4>2
    <3> QED
      BY <3>4 DEF RequestsAreLetIn
  <2>3. RunsAreLetIn'
    <3>1. CASE UNCHANGED runs
      BY <1>3, <2>1, <3>1
    <3>2. ASSUME NEW seeds \in Seeds, Create(r, seeds) PROVE RunsAreLetIn'
      <4>1. runs' = Append(runs, NewRow(r, seeds)) /\ request[r].pc = "create"
        BY <3>2 DEF Create, NewRow
      <4>2. PICK s \in RunRow : /\ s = NewRow(r, seeds) /\ s.mode = request[r].mode
                                /\ s.gate = request[r].gate /\ s.age = request[r].age
                                /\ s.begun = now /\ s.process = started
        BY NewRowFacts
      <4>3. /\ DOMAIN runs' = DOMAIN runs \cup {Len(runs) + 1}
            /\ runs'[Len(runs) + 1] = s /\ \A j \in DOMAIN runs : runs'[j] = runs[j]
        BY <4>1, <4>2, Appended DEF IntakeTypeOK
      <4>4. s.mode = "live" => s.gate # 0 /\ s.gate >= s.process - 1 /\ s.age <= Lifetime
        BY <1>1, <4>1, <4>2 DEF RequestsAreLetIn
      <4>5. s.begun <= now'
        BY <1>1, <2>1, <4>2
      <4> QED
        BY <1>1, <2>1, <4>3, <4>4, <4>5 DEF RunsAreLetIn, Live
    <3> QED
      BY <1>6, <3>1, <3>2 DEF Enter, CountActive, CountRecent, tables
  <2>4. KeyIsKnown'
    BY <1>1, <2>1 DEF KeyIsKnown
  <2> QED
    BY <2>2, <2>3, <2>4 DEF SessionsLetIn
<1>7. CASE TimePasses \/ WrongPassphrase \/ Login \/ Logout
  <2>1. /\ UNCHANGED <<started, request, runs>>
        /\ now' = now \/ now' = now + 1
        /\ \/ cookie' = cookie \/ cookie' = NoCookie
           \/ cookie' = [key |-> started, issued |-> now]
    BY <1>7 DEF TimePasses, WrongPassphrase, Login, Logout, tables
  <2>2. KeyIsKnown'
    BY <1>1, <2>1 DEF KeyIsKnown, NoCookie
  <2>3. RequestsAreLetIn'
    BY <1>1, <2>1 DEF RequestsAreLetIn
  <2> QED
    BY <1>3, <2>1, <2>2, <2>3 DEF SessionsLetIn
<1>8. CASE Restart
  <2>1. /\ UNCHANGED <<now, cookie, runs>> /\ started' = started + 1
        /\ request' = [q \in Request |-> Idle]
    BY <1>8 DEF Restart, tables
  <2>2. KeyIsKnown'
    BY <1>1, <2>1 DEF KeyIsKnown
  <2>3. RequestsAreLetIn'
    BY <2>1 DEF RequestsAreLetIn, Idle
  <2> QED
    BY <1>3, <2>1, <2>2, <2>3 DEF SessionsLetIn
<1> QED
  BY <1>4, <1>5, <1>6, <1>7, <1>8 DEF IntakeNext, Serve

-----------------------------------------------------------------------------
(* Discovery, row by row.                                                  *)

\* What the invariant says of one row of the runs table, given the companies:
\* what it has stored and what it has left make up one of the sequences found, ...
InSeedOrder(mine, todo) ==
    \E s \in Seeds :
        /\ Len(s) = Len(mine) + Len(todo)
        /\ \A n \in 1..Len(mine) : mine[n].domain = s[n]
        /\ \A n \in 1..Len(todo) : todo[n] = s[Len(mine) + n]

\* ... each prospect has its company and is a DUPLICATE of an earlier one or is not, ...
Marked(mine, known) ==
    \A n \in 1..Len(mine) :
        /\ mine[n].domain \in known
        /\ mine[n].duplicate <=> \E m \in 1..(n - 1) : mine[m].domain = mine[n].domain

Has(mine, domain) == \E n \in DOMAIN mine : mine[n].domain = domain

\* ... and what it knows of the next domain is so.
RowInOrder(q, known) ==
    /\ InSeedOrder(q.prospects, q.todo) /\ Marked(q.prospects, known)
    /\ q.looked # "no" => q.todo # <<>>
    /\ q.looked \in {"stored", "added"} => Head(q.todo) \in known
    /\ q.looked = "absent" => ~Has(q.prospects, Head(q.todo))
    /\ q.lost => /\ q.status = "FAILED" /\ Head(q.todo) \in known
                 /\ ~Has(q.prospects, Head(q.todo))
    /\ q.status = "COMPLETED" => q.todo = <<>>

\* The invariant row by row, now ...
LEMMA OrderByRow ==
    DiscoveryInOrder <=> \A i \in DOMAIN runs : RowInOrder(runs[i], companies)
BY DEF DiscoveryInOrder, RowInOrder, InSeedOrder, Marked, Has, Next1, Seen

\* ... and after a step.
LEMMA OrderByRowNext ==
    DiscoveryInOrder' <=> \A i \in DOMAIN runs' : RowInOrder(runs'[i], companies')
BY DEF DiscoveryInOrder, RowInOrder, InSeedOrder, Marked, Has, Next1, Seen

\* A row stays in order when more companies are known.
LEMMA MoreKnown ==
    ASSUME NEW q, NEW known, NEW more, known \subseteq more, RowInOrder(q, known)
    PROVE  RowInOrder(q, more)
BY DEF RowInOrder, Marked

\* Appending the head of what is left to what is stored keeps the row in order.
LEMMA StoredInOrder ==
    ASSUME NEW mine \in Prospects, NEW todo \in Seq(Domain), todo # <<>>, NEW known,
           InSeedOrder(mine, todo), Marked(mine, known), Head(todo) \in known,
           NEW p \in [domain : Domain, duplicate : BOOLEAN],
           p.domain = Head(todo), p.duplicate <=> Has(mine, Head(todo))
    PROVE  InSeedOrder(Append(mine, p), Tail(todo)) /\ Marked(Append(mine, p), known)
<1> DEFINE k == Len(mine)
           l == Len(todo)
           more == Append(mine, p)
           rest == Tail(todo)
<1>1. k \in Nat /\ DOMAIN mine = 1..k /\ l \in Nat \ {0} /\ Head(todo) = todo[1]
  BY DEF Prospects
<1>2. Len(rest) = l - 1 /\ \A n \in 1..(l - 1) : rest[n] = todo[n + 1]
  OBVIOUS
<1>3. Len(more) = k + 1 /\ more[k + 1] = p /\ \A n \in 1..k : more[n] = mine[n]
  BY DEF Prospects
<1>4. PICK d \in Seeds :
         /\ Len(d) = k + l
         /\ \A n \in 1..k : mine[n].domain = d[n]
         /\ \A n \in 1..l : todo[n] = d[k + n]
  BY DEF InSeedOrder
<1>5. p.domain = todo[1] /\ (p.duplicate <=> \E n \in 1..k : mine[n].domain = todo[1])
  BY <1>1 DEF Has
<1>6. todo[1] \in known
  BY <1>1
<1> HIDE DEF k, l, more, rest
<1>7. /\ Len(d) = Len(more) + Len(rest)
      /\ \A n \in 1..Len(more) : more[n].domain = d[n]
      /\ \A n \in 1..Len(rest) : rest[n] = d[Len(more) + n]
  <2>1. ASSUME NEW n \in 1..(l - 1) PROVE rest[n] = d[(k + 1) + n]
    <3>1. n + 1 \in 1..l /\ k + (n + 1) = (k + 1) + n
      BY <1>1
    <3> QED
      BY <1>2, <1>4, <3>1
  <2>2. ASSUME NEW n \in 1..(k + 1) PROVE more[n].domain = d[n]
    <3>1. CASE n = k + 1
      <4>1. 1 \in 1..l
        BY <1>1
      <4> QED
        BY <1>3, <1>4, <1>5, <3>1, <4>1
    <3>2. CASE n \in 1..k
      BY <1>3, <1>4, <3>2
    <3> QED
      BY <1>1, <3>1, <3>2
  <2>3. Len(d) = Len(more) + Len(rest)
    BY <1>1, <1>2, <1>3, <1>4
  <2> QED
    BY <1>2, <1>3, <2>1, <2>2, <2>3
<1>8. ASSUME NEW n \in 1..(k + 1)
      PROVE  /\ more[n].domain \in known
             /\ more[n].duplicate <=> \E m \in 1..(n - 1) : more[m].domain = more[n].domain
  <2>1. CASE n \in 1..k
    <3>1. \A m \in 1..(n - 1) : m \in 1..k
      BY <1>1, <2>1
    <3>2. /\ mine[n].domain \in known
          /\ mine[n].duplicate <=> \E m \in 1..(n - 1) : mine[m].domain = mine[n].domain
      BY <2>1 DEF Marked, k
    <3> QED
      BY <1>3, <2>1, <3>1, <3>2
  <2>2. CASE n = k + 1
    <3>1. 1..(n - 1) = 1..k
      BY <1>1, <2>2
    <3> QED
      BY <1>1, <1>3, <1>5, <1>6, <2>2, <3>1
  <2> QED
    BY <1>1, <2>1, <2>2
<1> QED
  BY <1>3, <1>7, <1>8 DEF InSeedOrder, Marked, more, rest

\* Every step keeps every row in order: what others add to the companies harms none.
LEMMA OrderKept ==
    ASSUME IntakeTypeOK, DiscoveryInOrder, [IntakeNext]_intakeVars
    PROVE  DiscoveryInOrder'
<1>1. CASE UNCHANGED tables
  BY <1>1, OrderByRow, OrderByRowNext DEF tables
<1>2. runs \in Seq(RunRow) /\ \A i \in DOMAIN runs : runs[i] \in RunRow
  <2>1. runs \in Seq(RunRow)
    BY DEF IntakeTypeOK
  <2> QED
    BY <2>1
<1>3. \A i \in DOMAIN runs : RowInOrder(runs[i], companies)
  BY OrderByRow
<1>4. ASSUME NEW r \in Request, NEW seeds \in Seeds, Create(r, seeds) PROVE DiscoveryInOrder'
  <2>1. runs' = Append(runs, NewRow(r, seeds)) /\ companies' = companies
    BY <1>4 DEF Create, NewRow
  <2>2. PICK s \in RunRow : /\ s = NewRow(r, seeds) /\ s.status = "RUNNING" /\ s.todo = seeds
                            /\ s.looked = "no" /\ ~s.lost /\ s.prospects = <<>>
    BY NewRowFacts
  <2>3. /\ DOMAIN runs' = DOMAIN runs \cup {Len(runs) + 1}
        /\ runs'[Len(runs) + 1] = s /\ \A j \in DOMAIN runs : runs'[j] = runs[j]
    BY <1>2, <2>1, <2>2, Appended
  <2>4. RowInOrder(s, companies)
    <3>1. seeds \in Seq(Domain)
      BY IntakeAssumption
    <3>2. Len(seeds) = 0 + Len(seeds) /\ \A n \in 1..Len(seeds) : seeds[n] = seeds[0 + n]
      BY <3>1
    <3>3. Len(s.prospects) = 0 /\ s.todo = seeds
      BY <2>2
    <3> QED
      BY <2>2, <3>2, <3>3 DEF RowInOrder, InSeedOrder, Marked
  <2> QED
    BY <1>3, <2>1, <2>3, <2>4, OrderByRowNext
<1>5. ASSUME NEW i \in DOMAIN runs, Drive(i) PROVE DiscoveryInOrder'
  <2>1. /\ runs' \in Seq(RunRow) /\ DOMAIN runs' = DOMAIN runs
        /\ \A j \in DOMAIN runs : j # i => runs'[j] = runs[j]
        /\ LookedUp(i) \/ Inserted(i) \/ Added(i) \/ Ended(i)
    BY <1>5, DriveRow
  <2>2. companies \subseteq companies'
    BY <2>1 DEF LookedUp, Inserted, Added, Ended
  <2>3. ASSUME NEW j \in DOMAIN runs, j # i PROVE RowInOrder(runs'[j], companies')
    BY <1>2, <1>3, <2>1, <2>2, <2>3, MoreKnown
  <2>4. PICK q \in RunRow, s \in RunRow : q = runs[i] /\ s = runs'[i]
    BY <1>2, <2>1
  <2>5. RowInOrder(q, companies) /\ RowInOrder(q, companies')
    BY <1>3, <2>2, <2>4, MoreKnown
  <2>6. RowInOrder(s, companies')
    <3>1. CASE LookedUp(i)
      <4>1. /\ q.todo # <<>> /\ companies' = companies /\ s.looked \in {"stored", "absent"}
            /\ s.looked = "stored" <=> Head(q.todo) \in companies
            /\ s.status = q.status /\ s.lost = q.lost /\ s.todo = q.todo /\ s.prospects = q.prospects
        BY <2>4, <3>1 DEF LookedUp, Next1
      <4>2. Head(q.todo) \notin companies => ~Has(q.prospects, Head(q.todo))
        <5>1. DOMAIN q.prospects = 1..Len(q.prospects)
          BY DEF RunRow
        <5> QED
          BY <2>5, <5>1 DEF RowInOrder, Marked, Has
      <4> QED
        BY <2>5, <4>1, <4>2 DEF RowInOrder
    <3>2. CASE Inserted(i)
      <4>1. /\ q.looked = "absent" /\ q.status = "RUNNING"
            /\ \/ /\ Head(q.todo) \in companies /\ companies' = companies
                  /\ s.status = "FAILED" /\ s.looked = q.looked
               \/ /\ companies' = companies \cup {Head(q.todo)} /\ s.looked = "added"
                  /\ s.status = q.status /\ s.lost = q.lost
            /\ s.todo = q.todo /\ s.prospects = q.prospects
        BY <2>4, <3>2 DEF Inserted, Next1
      <4> QED
        BY <2>5, <4>1 DEF RowInOrder
    <3>3. CASE Added(i)
      <4>1. /\ q.looked \in {"stored", "added"} /\ q.status = "RUNNING"
            /\ companies' = companies /\ s.looked = "no" /\ s.todo = Tail(q.todo)
            /\ s.prospects = Append(q.prospects, [domain |-> Head(q.todo),
                                                  duplicate |-> Has(q.prospects, Head(q.todo))])
            /\ s.status = q.status /\ s.lost = q.lost
        BY <2>4, <3>3 DEF Added, Next1, Seen, Has
      <4>2. /\ q.prospects \in Prospects /\ q.todo \in Seq(Domain) /\ q.todo # <<>>
            /\ Head(q.todo) \in companies /\ ~q.lost
            /\ InSeedOrder(q.prospects, q.todo) /\ Marked(q.prospects, companies)
        BY <2>5, <4>1 DEF RowInOrder, RunRow, Prospects
      <4>3. PICK p \in [domain : Domain, duplicate : BOOLEAN] :
              /\ p = [domain |-> Head(q.todo), duplicate |-> Has(q.prospects, Head(q.todo))]
              /\ p.domain = Head(q.todo) /\ p.duplicate <=> Has(q.prospects, Head(q.todo))
        <5>1. PICK b \in BOOLEAN : b = Has(q.prospects, Head(q.todo))
          BY DEF Has
        <5>2. [domain |-> Head(q.todo), duplicate |-> b] \in [domain : Domain, duplicate : BOOLEAN]
          BY <4>2
        <5> QED
          BY <5>1, <5>2
      <4>4. InSeedOrder(s.prospects, s.todo) /\ Marked(s.prospects, companies)
        BY <4>1, <4>2, <4>3, StoredInOrder
      <4> QED
        BY <4>1, <4>2, <4>4 DEF RowInOrder
    <3>4. CASE Ended(i)
      <4>1. /\ companies' = companies /\ q.status = "RUNNING"
            /\ \/ s.status = "COMPLETED" /\ q.todo = <<>>
               \/ s.status = "INTERRUPTED"
            /\ s.looked = q.looked /\ s.lost = q.lost /\ s.todo = q.todo /\ s.prospects = q.prospects
        BY <2>4, <3>4 DEF Ended
      <4> QED
        BY <2>5, <4>1 DEF RowInOrder
    <3> QED
      BY <2>1, <3>1, <3>2, <3>3, <3>4
  <2> QED
    BY <2>1, <2>3, <2>4, <2>6, OrderByRowNext
<1> QED
  BY <1>1, <1>4, <1>5, IntakeCases, AsideKeepsTables DEF intakeVars

-----------------------------------------------------------------------------
(* The two caps.                                                           *)

\* Every set that is counted is finite.
LEMMA CapFacts ==
    ASSUME IntakeTypeOK
    PROVE  /\ IsFiniteSet(Active) /\ Cardinality(Active) \in Nat
           /\ IsFiniteSet(Recent) /\ Cardinality(Recent) \in Nat
           /\ \A t : IsFiniteSet(BegunFrom(t)) /\ Cardinality(BegunFrom(t)) \in Nat
           /\ IsFiniteSet(PastActive) /\ Cardinality(PastActive) \in Nat
           /\ IsFiniteSet(PastRecent) /\ Cardinality(PastRecent) \in Nat
           /\ IsFiniteSet(Request) /\ Cardinality(Request) \in Nat \ {0}
           /\ MaxActive \in Nat /\ Allowance \in Nat /\ Day \in Nat /\ now \in Nat
<1>1. IsFiniteSet(DOMAIN runs)
  <2>1. DOMAIN runs = 1..Len(runs) /\ Len(runs) \in Nat
    <3>1. runs \in Seq(RunRow)
      BY DEF IntakeTypeOK
    <3> QED
      BY <3>1
  <2> QED
    BY <2>1, FS_Interval
<1>2. IsFiniteSet(Request) /\ Cardinality(Request) \in Nat \ {0}
  BY IntakeAssumption, FS_EmptySet, FS_CardinalityType
<1>3. /\ Active \subseteq DOMAIN runs /\ Recent \subseteq DOMAIN runs
      /\ \A t : BegunFrom(t) \subseteq DOMAIN runs
      /\ PastActive \subseteq Request /\ PastRecent \subseteq Request
  BY DEF Active, Recent, BegunFrom, PastActive, PastRecent
<1>4. IsFiniteSet(Active) /\ IsFiniteSet(Recent) /\ IsFiniteSet(PastActive) /\ IsFiniteSet(PastRecent)
  BY <1>1, <1>2, <1>3, FS_Subset
<1>5. \A t : IsFiniteSet(BegunFrom(t))
  BY <1>1, <1>3, FS_Subset
<1>6. MaxActive \in Nat /\ Allowance \in Nat /\ Day \in Nat /\ now \in Nat
  BY IntakeAssumption DEF IntakeTypeOK
<1> QED
  BY <1>2, <1>4, <1>5, <1>6, FS_CardinalityType

\* What the request's own step does to the two sets of requests.
LEMMA PastStep ==
    ASSUME IntakeTypeOK, KeyIsKnown, RequestsAreLetIn, NEW r \in Request
    PROVE  /\ (\E play \in Mode, body \in Mode \cup {"none"} : Enter(r, play, body)) =>
                 PastActive' \subseteq PastActive /\ PastRecent' \subseteq PastRecent
           /\ CountActive(r) =>
                 /\ PastActive' \subseteq PastActive \/ Cardinality(Active) < MaxActive
                 /\ PastRecent' \subseteq PastRecent
           /\ CountRecent(r) =>
                 /\ PastActive' \subseteq PastActive
                 /\ PastRecent' \subseteq PastRecent \/ Cardinality(Recent) < Allowance
           /\ (\E seeds \in Seeds : Create(r, seeds)) =>
                 PastActive' \subseteq PastActive \ {r} /\ PastRecent' \subseteq PastRecent \ {r}
<1>1. Idle.pc = "idle"
  BY DEF Idle
<1>2. request[r].pc \in {"count active", "count recent"} => request[r].mode = "live"
  BY DEF RequestsAreLetIn
<1>3. ~(Cardinality(Active) >= MaxActive) => Cardinality(Active) < MaxActive
  BY CapFacts
<1>4. ~(Cardinality(Recent) >= Allowance) => Cardinality(Recent) < Allowance
  BY CapFacts
<1>5. DOMAIN request = Request
  BY DEF IntakeTypeOK
<1>6. ASSUME Leave(r)
      PROVE  PastActive' \subseteq PastActive \ {r} /\ PastRecent' \subseteq PastRecent \ {r}
  <2>1. request'[r] = Idle /\ \A q \in Request : q # r => request'[q] = request[q]
    BY <1>5, <1>6 DEF Leave
  <2> QED
    BY <1>1, <2>1 DEF PastActive, PastRecent
<1>7. ASSUME NEW play \in Mode, NEW body \in Mode \cup {"none"}, Enter(r, play, body)
      PROVE  PastActive' \subseteq PastActive /\ PastRecent' \subseteq PastRecent
  <2>1. \A q \in Request : q # r => request'[q] = request[q]
    BY <1>7, RequestStep
  <2>2. request'[r].pc = "count active" \/ request'[r].mode = "demo"
    <3>1. request[r].pc = "idle" /\ request'[r] # Idle
      <4> DEFINE mode == IF body = "none" THEN play ELSE body
                 s == [pc |-> IF mode = "live" THEN "count active" ELSE "create", mode |-> mode,
                       gate |-> IF mode = "live" THEN cookie.key ELSE 0,
                       age |-> IF mode = "live" THEN now - cookie.issued ELSE 0]
      <4>1. request' = [request EXCEPT ![r] = s] /\ request[r].pc = "idle"
        BY <1>7 DEF Enter
      <4>2. s.pc # "idle"
        BY DEF s
      <4> HIDE DEF s
      <4> QED
        BY <1>1, <1>5, <4>1, <4>2
    <3> QED
      BY <1>7, <3>1, RequestStep
  <2> QED
    BY <2>1, <2>2 DEF PastActive, PastRecent
<1>8. ASSUME NEW v \in {"count recent", "create"}, Move(r, v)
      PROVE  /\ request'[r].pc = v /\ \A q \in Request : q # r => request'[q] = request[q]
             /\ request'[r].mode = request[r].mode
  <2>1. request' = [request EXCEPT ![r] = [request[r] EXCEPT !.pc = v]]
    BY <1>8 DEF Move
  <2>2. request[r] \in [pc : {"idle", "count active", "count recent", "create"}, mode : Mode, gate : Nat, age : Nat]
    BY DEF IntakeTypeOK
  <2>3. [request[r] EXCEPT !.pc = v].pc = v /\ [request[r] EXCEPT !.pc = v].mode = request[r].mode
    BY <2>2
  <2> QED
    BY <1>5, <2>1, <2>3
<1>9. ASSUME CountActive(r)
      PROVE  /\ PastActive' \subseteq PastActive \/ Cardinality(Active) < MaxActive
             /\ PastRecent' \subseteq PastRecent
  <2>1. CASE Cardinality(Active) >= MaxActive
    BY <1>6, <1>9, <2>1 DEF CountActive
  <2>2. CASE ~(Cardinality(Active) >= MaxActive)
    <3>1. Move(r, "count recent")
      BY <1>9, <2>2 DEF CountActive
    <3> QED
      BY <1>3, <1>8, <2>2, <3>1 DEF PastRecent
  <2> QED
    BY <2>1, <2>2
<1>10. ASSUME CountRecent(r)
       PROVE  /\ PastActive' \subseteq PastActive
              /\ PastRecent' \subseteq PastRecent \/ Cardinality(Recent) < Allowance
  <2>1. CASE Cardinality(Recent) >= Allowance
    BY <1>6, <1>10, <2>1 DEF CountRecent
  <2>2. CASE ~(Cardinality(Recent) >= Allowance)
    <3>1. Move(r, "create") /\ request[r].pc = "count recent"
      BY <1>10, <2>2 DEF CountRecent
    <3> QED
      BY <1>2, <1>4, <1>8, <2>2, <3>1 DEF PastActive
  <2> QED
    BY <2>1, <2>2
<1>11. ASSUME NEW seeds \in Seeds, Create(r, seeds)
       PROVE  PastActive' \subseteq PastActive \ {r} /\ PastRecent' \subseteq PastRecent \ {r}
  BY <1>6, <1>11 DEF Create
<1> QED
  BY <1>7, <1>9, <1>10, <1>11

ActiveBound == Cardinality(Active) + Cardinality(PastActive) <= MaxActive + Cardinality(Request) - 1

\* The bound of one window, of the runs there are and those about to be stored in it.
Coming(t) == IF now <= t + Day THEN Cardinality(PastRecent) ELSE 0
WindowBound(t) == Cardinality(BegunFrom(t)) + Coming(t) <= Allowance + Cardinality(Request) - 1

\* The two caps as bounds, now ...
LEMMA CapsAreBounds == CapsCountWhoIsPast <=> ActiveBound /\ \A t \in 0..now : WindowBound(t)
BY DEF CapsCountWhoIsPast, ActiveBound, WindowBound, Coming

\* ... and after a step.
LEMMA CapsAreBoundsNext == CapsCountWhoIsPast' <=> ActiveBound' /\ \A t \in 0..now' : WindowBound(t)'
BY DEF CapsCountWhoIsPast, ActiveBound, WindowBound, Coming

\* A run is added only for a request that leaves those that are past the cap.
LEMMA OneForOne ==
    ASSUME NEW A, NEW A1, NEW B, NEW B1, IsFiniteSet(A), IsFiniteSet(B),
           \/ A1 \subseteq A /\ B1 \subseteq B
           \/ \E n : \E b \in B : A1 \subseteq A \cup {n} /\ B1 \subseteq B \ {b}
    PROVE  /\ Cardinality(A1) \in Nat /\ Cardinality(B1) \in Nat
           /\ Cardinality(A1) + Cardinality(B1) <= Cardinality(A) + Cardinality(B)
<1>1. Cardinality(A) \in Nat /\ Cardinality(B) \in Nat
  BY FS_CardinalityType
<1>2. CASE A1 \subseteq A /\ B1 \subseteq B
  <2>1. /\ IsFiniteSet(A1) /\ Cardinality(A1) <= Cardinality(A)
        /\ IsFiniteSet(B1) /\ Cardinality(B1) <= Cardinality(B)
    BY <1>2, FS_Subset
  <2> QED
    BY <1>1, <2>1, FS_CardinalityType
<1>3. ASSUME NEW n, NEW b \in B, A1 \subseteq A \cup {n}, B1 \subseteq B \ {b}
      PROVE  /\ Cardinality(A1) \in Nat /\ Cardinality(B1) \in Nat
             /\ Cardinality(A1) + Cardinality(B1) <= Cardinality(A) + Cardinality(B)
  <2>1. IsFiniteSet(A \cup {n}) /\ Cardinality(A \cup {n}) <= Cardinality(A) + 1
    BY <1>1, FS_AddElement
  <2>2. IsFiniteSet(B \ {b}) /\ Cardinality(B \ {b}) = Cardinality(B) - 1
    BY FS_RemoveElement
  <2>3. /\ IsFiniteSet(A1) /\ Cardinality(A1) <= Cardinality(A \cup {n})
        /\ IsFiniteSet(B1) /\ Cardinality(B1) <= Cardinality(B \ {b})
    BY <1>3, <2>1, <2>2, FS_Subset
  <2>4. /\ Cardinality(A1) \in Nat /\ Cardinality(B1) \in Nat
        /\ Cardinality(A \cup {n}) \in Nat /\ Cardinality(B \ {b}) \in Nat
    BY <2>1, <2>2, <2>3, FS_CardinalityType
  <2> QED
    BY <1>1, <2>1, <2>2, <2>3, <2>4
<1> QED
  BY <1>2, <1>3

\* A cap that was counted below its limit leaves room for every other request.
LEMMA RoomForTheOthers ==
    ASSUME NEW A, NEW A1, NEW B1, NEW max \in Nat, IsFiniteSet(A), Cardinality(A) < max,
           IsFiniteSet(Request), A1 \subseteq A, B1 \subseteq Request
    PROVE  Cardinality(A1) + Cardinality(B1) <= max + Cardinality(Request) - 1
<1>1. /\ IsFiniteSet(A1) /\ Cardinality(A1) <= Cardinality(A)
      /\ IsFiniteSet(B1) /\ Cardinality(B1) <= Cardinality(Request)
  BY FS_Subset
<1>2. /\ Cardinality(A1) \in Nat /\ Cardinality(B1) \in Nat
      /\ Cardinality(A) \in Nat /\ Cardinality(Request) \in Nat
  BY <1>1, FS_CardinalityType
<1> QED
  BY <1>1, <1>2

\* What a step may do to the runs that count for the first cap, ...
ActiveMoves ==
    \/ Active' \subseteq Active /\ PastActive' \subseteq PastActive
    \/ Active' \subseteq Active /\ Cardinality(Active) < MaxActive
    \/ \E n : \E r \in PastActive : Active' \subseteq Active \cup {n} /\ PastActive' \subseteq PastActive \ {r}

\* ... and to those of the window of t.
RecentMoves(t) ==
    \/ BegunFrom(t)' \subseteq BegunFrom(t) /\ PastRecent' \subseteq PastRecent
    \/ BegunFrom(t)' \subseteq BegunFrom(t) /\ Cardinality(Recent) < Allowance
    \/ /\ now <= t + Day
       /\ \E n : \E r \in PastRecent :
             BegunFrom(t)' \subseteq BegunFrom(t) \cup {n} /\ PastRecent' \subseteq PastRecent \ {r}

\* The first cap survives each of those moves, ...
LEMMA ActiveCapKept ==
    ASSUME IntakeTypeOK, ActiveBound, ActiveMoves
    PROVE  ActiveBound'
<1>1. CASE Active' \subseteq Active /\ Cardinality(Active) < MaxActive
  <2>1. PastActive' \subseteq Request
    BY DEF PastActive
  <2> QED
    BY <1>1, <2>1, CapFacts, RoomForTheOthers DEF ActiveBound
<1>2. CASE ~(Active' \subseteq Active /\ Cardinality(Active) < MaxActive)
  <2>1. /\ Cardinality(Active') \in Nat /\ Cardinality(PastActive') \in Nat
        /\ Cardinality(Active') + Cardinality(PastActive')
              <= Cardinality(Active) + Cardinality(PastActive)
    BY <1>2, CapFacts, OneForOne DEF ActiveMoves
  <2> QED
    BY <2>1, CapFacts DEF ActiveBound
<1> QED
  BY <1>1, <1>2

\* ... and so does the second in every window.
LEMMA WindowCapKept ==
    ASSUME IntakeTypeOK, NEW t \in 0..now, WindowBound(t), now' = now, RecentMoves(t)
    PROVE  WindowBound(t)'
<1>1. /\ Cardinality(BegunFrom(t)) \in Nat /\ Cardinality(PastRecent) \in Nat
      /\ Cardinality(Request) \in Nat \ {0} /\ Allowance \in Nat /\ Day \in Nat /\ now \in Nat
      /\ IsFiniteSet(BegunFrom(t)) /\ IsFiniteSet(PastRecent) /\ IsFiniteSet(Recent)
      /\ IsFiniteSet(Request)
  BY CapFacts
<1>2. CASE ~(now <= t + Day)
  <2>1. BegunFrom(t)' \subseteq BegunFrom(t)
    BY <1>2 DEF RecentMoves
  <2>2. Cardinality(BegunFrom(t)') <= Cardinality(BegunFrom(t))
    BY <1>1, <2>1, FS_Subset
  <2>3. Cardinality(BegunFrom(t)') \in Nat
    BY <1>1, <2>1, FS_Subset, FS_CardinalityType
  <2>4. Coming(t) = 0 /\ Coming(t)' = 0
    BY <1>2 DEF Coming
  <2> QED
    BY <1>1, <2>2, <2>3, <2>4 DEF WindowBound
<1>3. CASE now <= t + Day
  <2>1. Coming(t) = Cardinality(PastRecent) /\ Coming(t)' = Cardinality(PastRecent')
    BY <1>3 DEF Coming
  <2>2. CASE BegunFrom(t)' \subseteq BegunFrom(t) /\ Cardinality(Recent) < Allowance
    <3>1. PastRecent' \subseteq Request
      BY DEF PastRecent
    <3>2. BegunFrom(t)' \subseteq Recent
      <4>1. t \in Nat /\ t >= now - Day
        BY <1>1, <1>3
      <4>2. ASSUME NEW i \in BegunFrom(t) PROVE i \in Recent
        BY <1>1, <4>1 DEF BegunFrom, Recent
      <4> QED
        BY <2>2, <4>2
    <3>3. Cardinality(BegunFrom(t)') + Cardinality(PastRecent') <= Allowance + Cardinality(Request) - 1
      BY <1>1, <2>2, <3>1, <3>2, RoomForTheOthers
    <3> QED
      BY <2>1, <3>3 DEF WindowBound
  <2>3. CASE ~(BegunFrom(t)' \subseteq BegunFrom(t) /\ Cardinality(Recent) < Allowance)
    <3>1. /\ Cardinality(BegunFrom(t)') \in Nat /\ Cardinality(PastRecent') \in Nat
          /\ Cardinality(BegunFrom(t)') + Cardinality(PastRecent')
                <= Cardinality(BegunFrom(t)) + Cardinality(PastRecent)
      BY <1>1, <2>3, OneForOne DEF RecentMoves
    <3> QED
      BY <1>1, <2>1, <3>1 DEF WindowBound
  <2> QED
    BY <2>2, <2>3
<1> QED
  BY <1>2, <1>3

\* Every step makes one of those moves, or lets the clock open a new window.
LEMMA CapsKept ==
    ASSUME IntakeTypeOK, DiscoveryInOrder, SessionsLetIn, CapsCountWhoIsPast, [IntakeNext]_intakeVars
    PROVE  CapsCountWhoIsPast'
<1>1. /\ KeyIsKnown /\ RequestsAreLetIn /\ RunsAreLetIn /\ ActiveBound /\ \A t \in 0..now : WindowBound(t)
  BY CapsAreBounds DEF SessionsLetIn
<1>2. runs \in Seq(RunRow) /\ now \in Nat
  BY DEF IntakeTypeOK
<1>3. ASSUME now' = now, ActiveMoves, \A t \in 0..now : RecentMoves(t) PROVE CapsCountWhoIsPast'
  BY <1>1, <1>3, ActiveCapKept, WindowCapKept, CapsAreBoundsNext
<1>4. ASSUME UNCHANGED <<now, runs>>
      PROVE  Active' = Active /\ \A t : BegunFrom(t)' = BegunFrom(t)
  BY <1>4 DEF Active, BegunFrom, Live
<1>5. CASE UNCHANGED intakeVars
  <2>1. UNCHANGED <<now, runs, request>>
    BY <1>5 DEF intakeVars, session, tables
  <2>2. PastActive' = PastActive /\ PastRecent' = PastRecent
    BY <2>1 DEF PastActive, PastRecent
  <2> QED
    BY <1>3, <1>4, <2>1, <2>2 DEF ActiveMoves, RecentMoves
<1>6. CASE Login \/ WrongPassphrase \/ Logout \/ Restart
  <2>1. UNCHANGED <<now, runs>> /\ (request' = request \/ request' = [r \in Request |-> Idle])
    BY <1>6 DEF Login, WrongPassphrase, Logout, Restart, tables
  <2>2. PastActive' \subseteq PastActive /\ PastRecent' \subseteq PastRecent
    <3>1. CASE request' = request
      BY <3>1 DEF PastActive, PastRecent
    <3>2. CASE request' = [r \in Request |-> Idle]
      <4>1. \A r \in Request : request'[r].pc = "idle"
        BY <3>2 DEF Idle
      <4> QED
        BY <4>1 DEF PastActive, PastRecent
    <3> QED
      BY <2>1, <3>1, <3>2
  <2> QED
    BY <1>3, <1>4, <2>1, <2>2 DEF ActiveMoves, RecentMoves
<1>7. CASE TimePasses
  <2>1. now' = now + 1 /\ UNCHANGED <<runs, request>>
    BY <1>7 DEF TimePasses, tables
  <2>2. /\ Active' = Active /\ PastActive' = PastActive /\ PastRecent' = PastRecent
        /\ \A t : BegunFrom(t)' = BegunFrom(t)
    BY <2>1 DEF Active, BegunFrom, Live, PastActive, PastRecent
  <2>3. ActiveBound'
    BY <1>1, <2>2 DEF ActiveBound
  <2>4. /\ Cardinality(PastRecent) \in Nat /\ Allowance \in Nat /\ Day \in Nat
        /\ Cardinality(Request) \in Nat \ {0} /\ \A t : Cardinality(BegunFrom(t)) \in Nat
    BY CapFacts
  <2>5. ASSUME NEW t \in 0..now PROVE WindowBound(t)'
    <3>1. Coming(t) \in Nat /\ Coming(t)' \in Nat /\ Coming(t)' <= Coming(t)
      <4>1. now' <= t + Day => now <= t + Day
        BY <1>2, <2>1, <2>4
      <4> QED
        BY <2>2, <2>4, <4>1 DEF Coming
    <3>2. WindowBound(t)
      BY <1>1
    <3> QED
      BY <2>2, <2>4, <3>1, <3>2 DEF WindowBound
  <2>6. ASSUME NEW t \in Nat, t = now + 1 PROVE WindowBound(t)'
    <3>1. BegunFrom(t) = {}
      <4>1. \A i \in DOMAIN runs : runs[i].begun <= now /\ runs[i].begun \in Nat
        <5>1. \A q \in RunRow : q.begun \in Nat
          BY DEF RunRow
        <5> QED
          BY <1>1, <1>2, <5>1 DEF RunsAreLetIn
      <4> QED
        BY <1>2, <2>4, <2>6, <4>1 DEF BegunFrom
    <3>2. Cardinality(BegunFrom(t)') = 0
      BY <2>2, <3>1, FS_EmptySet
    <3>3. Cardinality(PastRecent) <= Allowance + Cardinality(Request) - 1
      <4>1. now \in 0..now /\ now <= now + Day
        BY <1>2, <2>4
      <4>2. Coming(now) = Cardinality(PastRecent) /\ WindowBound(now)
        BY <1>1, <4>1 DEF Coming
      <4> QED
        BY <2>4, <4>2 DEF WindowBound
    <3>4. Coming(t)' = Cardinality(PastRecent) \/ Coming(t)' = 0
      BY <2>2 DEF Coming
    <3> QED
      BY <2>4, <3>2, <3>3, <3>4 DEF WindowBound
  <2>7. \A t \in 0..now' : WindowBound(t)'
    <3> SUFFICES ASSUME NEW t \in 0..(now + 1) PROVE WindowBound(t)'
      BY <2>1
    <3>1. t \in 0..now \/ (t \in Nat /\ t = now + 1)
      BY <1>2
    <3> QED
      BY <2>5, <2>6, <3>1
  <2> QED
    BY <2>3, <2>7, CapsAreBoundsNext
<1>8. ASSUME NEW r \in Request,
             \/ \E play \in Mode, body \in Mode \cup {"none"} : Enter(r, play, body)
             \/ CountActive(r) \/ CountRecent(r)
      PROVE  CapsCountWhoIsPast'
  <2>1. UNCHANGED <<now, runs>>
    BY <1>8 DEF Enter, CountActive, CountRecent, session, tables
  <2>2. /\ PastActive' \subseteq PastActive \/ Cardinality(Active) < MaxActive
        /\ PastRecent' \subseteq PastRecent \/ Cardinality(Recent) < Allowance
    BY <1>1, <1>8, PastStep
  <2> QED
    BY <1>3, <1>4, <2>1, <2>2 DEF ActiveMoves, RecentMoves
<1>9. ASSUME NEW r \in Request, NEW seeds \in Seeds, Create(r, seeds) PROVE CapsCountWhoIsPast'
  <2>1. runs' = Append(runs, NewRow(r, seeds)) /\ now' = now /\ request[r].pc = "create"
    BY <1>9 DEF Create, NewRow, session
  <2>2. PICK s \in RunRow : s = NewRow(r, seeds) /\ s.mode = request[r].mode /\ s.begun = now
    BY NewRowFacts
  <2> DEFINE n == Len(runs) + 1
  <2>3. /\ DOMAIN runs' = DOMAIN runs \cup {n}
        /\ runs'[n] = s /\ \A j \in DOMAIN runs : runs'[j] = runs[j]
    BY <1>2, <2>1, <2>2, Appended
  <2>4. PastActive' \subseteq PastActive \ {r} /\ PastRecent' \subseteq PastRecent \ {r}
    BY <1>1, <1>9, PastStep
  <2>5. Active' \subseteq Active \cup {n} /\ \A t : BegunFrom(t)' \subseteq BegunFrom(t) \cup {n}
    <3> HIDE DEF n
    <3>1. Active' \subseteq Active \cup {n}
      BY <2>3 DEF Active, Live
    <3>2. \A t : BegunFrom(t)' \subseteq BegunFrom(t) \cup {n}
      BY <2>3 DEF BegunFrom, Live
    <3> QED
      BY <3>1, <3>2
  <2>6. CASE request[r].mode = "live"
    <3>1. r \in PastActive /\ r \in PastRecent
      BY <2>1, <2>6 DEF PastActive, PastRecent
    <3>2. ASSUME NEW t \in 0..now, ~(now <= t + Day) PROVE BegunFrom(t)' \subseteq BegunFrom(t)
      <4>1. s.begun \notin t..(t + Day)
        BY <1>2, <2>2, <3>2, CapFacts
      <4> HIDE DEF n
      <4> QED
        BY <2>3, <4>1 DEF BegunFrom, Live
    <3> HIDE DEF n
    <3> QED
      BY <1>3, <2>1, <2>4, <2>5, <3>1, <3>2 DEF ActiveMoves, RecentMoves
  <2>7. CASE request[r].mode # "live"
    <3> HIDE DEF n
    <3>1. Active' \subseteq Active
      BY <2>2, <2>3, <2>7 DEF Active, Live
    <3>2. \A t : BegunFrom(t)' \subseteq BegunFrom(t)
      BY <2>2, <2>3, <2>7 DEF BegunFrom, Live
    <3> QED
      BY <1>3, <2>1, <2>4, <3>1, <3>2 DEF ActiveMoves, RecentMoves
  <2> QED
    BY <2>6, <2>7
<1>10. ASSUME NEW i \in DOMAIN runs, Drive(i) PROVE CapsCountWhoIsPast'
  <2>1. /\ DOMAIN runs' = DOMAIN runs /\ SameRun(runs[i], runs'[i])
        /\ \A j \in DOMAIN runs : j # i => runs'[j] = runs[j]
        /\ UNCHANGED <<now, request>>
        /\ LookedUp(i) \/ Inserted(i) \/ Added(i) \/ Ended(i)
    BY <1>10, DriveRow DEF session
  <2>2. PastActive' = PastActive /\ PastRecent' = PastRecent
    BY <2>1 DEF PastActive, PastRecent
  <2>3. runs'[i].status = runs[i].status \/ runs'[i].status # "RUNNING"
    BY <2>1 DEF LookedUp, Inserted, Added, Ended
  <2>4. Active' \subseteq Active
    BY <2>1, <2>3 DEF Active, Live, SameRun
  <2>5. \A t : BegunFrom(t)' \subseteq BegunFrom(t)
    BY <2>1 DEF BegunFrom, Live, SameRun
  <2> QED
    BY <1>3, <2>1, <2>2, <2>4, <2>5 DEF ActiveMoves, RecentMoves
<1> QED
  BY <1>5, <1>6, <1>7, <1>8, <1>9, <1>10 DEF IntakeNext, Serve

-----------------------------------------------------------------------------
(* The intake as a whole.                                                  *)

\* The empty tables satisfy it.
LEMMA IntakeBegins == IntakeInit => IntakeIInv
<1> SUFFICES ASSUME IntakeInit PROVE IntakeIInv
  OBVIOUS
<1>1. IntakeTypeOK
  BY DEF IntakeInit, IntakeTypeOK, Idle, NoCookie, Mode
<1>2. /\ now = 0 /\ cookie = NoCookie /\ DOMAIN runs = {}
      /\ \A r \in Request : request[r].pc = "idle"
  BY DEF IntakeInit, Idle
<1>3. SessionsLetIn
  <2>1. cookie.issued <= now
    BY <1>2 DEF NoCookie
  <2> QED
    BY <1>2, <2>1 DEF SessionsLetIn, KeyIsKnown, RequestsAreLetIn, RunsAreLetIn
<1>4. CapsCountWhoIsPast
  <2>1. Active = {} /\ PastActive = {} /\ PastRecent = {} /\ \A t : BegunFrom(t) = {}
    BY <1>2 DEF Active, PastActive, PastRecent, BegunFrom
  <2>2. Cardinality({}) = 0
    BY FS_EmptySet
  <2>3. \A t : Coming(t) = 0
    BY <2>1, <2>2 DEF Coming
  <2>4. ActiveBound
    BY <1>1, <2>1, <2>2, CapFacts DEF ActiveBound
  <2>5. \A t : WindowBound(t)
    BY <1>1, <2>1, <2>2, <2>3, CapFacts DEF WindowBound
  <2> QED
    BY <2>4, <2>5, CapsAreBounds
<1>5. DiscoveryInOrder
  BY DEF IntakeInit, DiscoveryInOrder
<1> QED
  BY <1>1, <1>3, <1>4, <1>5 DEF IntakeIInv

\* The invariant of the intake holds of every state, whatever requests are served
\* together and whenever the process restarts (api/routers/runs.py, engine/discovery).
THEOREM IntakeInductive == IntakeSpec => []IntakeIInv
<1>1. IntakeIInv /\ [IntakeNext]_intakeVars => IntakeIInv'
  BY IntakeTypesKept, SessionsKept, CapsKept, OrderKept DEF IntakeIInv, SessionsLetIn
<1> QED
  BY <1>1, IntakeBegins, PTL DEF IntakeSpec

\* No Live run without a session of the current or the previous key, not expired
\* when it let the run in, and never more
\* active runs, or runs of a day, than the cap and the other requests that were
\* counting with it (start_run counts before it stores).
THEOREM AdmissionHoldsAlways == IntakeSpec => []AdmissionHolds
<1>1. IntakeIInv => AdmissionHolds
  <2> SUFFICES ASSUME IntakeIInv PROVE AdmissionHolds
    OBVIOUS
  <2>1. IntakeTypeOK /\ RunsAreLetIn /\ ActiveBound /\ \A t \in 0..now : WindowBound(t)
    BY CapsAreBounds DEF IntakeIInv, SessionsLetIn
  <2>2. \A i \in DOMAIN runs : Live(i) =>
            runs[i].gate # 0 /\ runs[i].gate >= runs[i].process - 1 /\ runs[i].age <= Lifetime
    BY <2>1 DEF RunsAreLetIn
  <2>3. Cardinality(Active) <= MaxActive + (Cardinality(Request) - 1)
    BY <2>1, CapFacts DEF ActiveBound
  <2>4. ASSUME NEW t \in 0..now
        PROVE  Cardinality(BegunFrom(t)) <= Allowance + (Cardinality(Request) - 1)
    <3>1. Coming(t) \in Nat /\ WindowBound(t)
      BY <2>1, CapFacts DEF Coming
    <3> QED
      BY <2>1, <3>1, CapFacts DEF WindowBound
  <2> QED
    BY <2>2, <2>3, <2>4 DEF AdmissionHolds
<1> QED
  BY <1>1, IntakeInductive, PTL

\* However the discoveries of several runs interleave over the companies table: one
\* account per domain, DUPLICATE exactly for a run's own repetition, a collision only
\* over a company stored meanwhile, and every company found in a run that completes.
THEOREM OneAccountPerDomainHolds == IntakeSpec => []OneAccountPerDomain
<1>1. IntakeIInv => OneAccountPerDomain
  <2> SUFFICES ASSUME IntakeIInv, NEW i \in DOMAIN runs PROVE OneAccountPerDomain!(i)
    BY DEF OneAccountPerDomain
  <2> DEFINE mine == runs[i].prospects
  <2>1. runs[i] \in RunRow /\ RowInOrder(runs[i], companies)
    <3>1. runs \in Seq(RunRow) /\ DiscoveryInOrder
      BY DEF IntakeIInv, IntakeTypeOK
    <3> QED
      BY <3>1, OrderByRow
  <2>2. mine \in Prospects /\ DOMAIN mine = 1..Len(mine) /\ Len(mine) \in Nat
    BY <2>1 DEF RunRow, Prospects
  <2>3. runs[i].lost => Next1(i) \in companies /\ ~Seen(i, Next1(i))
    BY <2>1 DEF RowInOrder, Has, Next1, Seen
  <2>4. \A n \in 1..Len(mine) :
           /\ mine[n].domain \in companies
           /\ mine[n].duplicate <=> \E m \in 1..(n - 1) : mine[m].domain = mine[n].domain
    BY <2>1 DEF RowInOrder, Marked
  <2>5. ASSUME runs[i].status = "COMPLETED"
        PROVE  [n \in DOMAIN mine |-> mine[n].domain] \in Seeds
    <3>1. runs[i].todo = <<>> /\ InSeedOrder(mine, runs[i].todo)
      BY <2>1, <2>5 DEF RowInOrder
    <3>2. PICK s \in Seeds : Len(s) = Len(mine) + 0 /\ \A n \in 1..Len(mine) : mine[n].domain = s[n]
      BY <3>1 DEF InSeedOrder
    <3>3. s \in Seq(Domain)
      BY IntakeAssumption
    <3>4. s = [n \in DOMAIN mine |-> mine[n].domain]
      <4> HIDE DEF mine
      <4>1. Len(s) = Len(mine)
        BY <2>2, <3>2
      <4> QED
        BY <2>2, <3>2, <3>3, <4>1
    <3> QED
      BY <3>4
  <2> QED
    BY <2>2, <2>3, <2>4, <2>5
<1> QED
  BY <1>1, IntakeInductive, PTL

-----------------------------------------------------------------------------
(* RunMetrics: reads of one report, in their order, while the run commits.    *)

\* The tables of a report are read once each, the prospects first.
LEMMA OrderOfReads ==
    /\ Len(ReadOrder) = 12 /\ DOMAIN ReadOrder = 1..12
    /\ \A j, k \in 1..12 : ReadOrder[j] = ReadOrder[k] => j = k
    /\ Tables = {ReadOrder[k] : k \in 1..12}
    /\ ReadOrder[1] = "prospects"
<1>1. ReadOrder[1] = "prospects"
  BY DEF ReadOrder
<1>4. Len(ReadOrder) = 12
  BY DEF ReadOrder
<1>5. DOMAIN ReadOrder = 1..12
  BY DEF ReadOrder
<1>2. \A j, k \in 1..12 : ReadOrder[j] = ReadOrder[k] => j = k
  BY DEF ReadOrder
<1> QED
  BY <1>1, <1>2, <1>4, <1>5 DEF Tables, ToSet

\* What the wall clock leaves of a life is one, too.
LEMMA LivesAreSequences ==
    ASSUME NEW l \in Lives, NEW m \in LifeOf(l) PROVE m \in Seq(Transaction)
<1>1. l \in Seq(Transaction)
  BY MetricsAssumption
<1>2. ASSUME NEW n \in 1..(Len(l) - 1) PROVE CutShort(l, n) \in Seq(Transaction)
  <2>1. SubSeq(l, 1, n) \in Seq(Transaction)
    BY <1>1, SubSeqProperties
  <2>2. [kind |-> "status", status |-> "TIMED_OUT"] \in Transaction
    <3>1. [kind |-> "status", status |-> "TIMED_OUT"] \in Standing
      BY DEF Standing
    <3> QED
      BY <3>1, Zenon DEF Transaction
  <2> QED
    BY <2>1, <2>2 DEF CutShort
<1> QED
  BY <1>1, <1>2 DEF LifeOf

\* A report that has not begun has shown nothing, and nothing is committed.
LEMMA MetricsBegin == MetricsInit => MetricsIInv
<1> SUFFICES ASSUME MetricsInit PROVE MetricsIInv
  OBVIOUS
<1>1. life \in [Prospect -> Seq(Transaction)]
  BY LivesAreSequences DEF MetricsInit
<1>2. MetricsTypeOK
  BY <1>1, OrderOfReads DEF MetricsInit, MetricsTypeOK
<1>3. NoneIsAhead
  BY <1>1 DEF MetricsInit, NoneIsAhead
<1>4. ReadsAreOrdered
  BY OrderOfReads DEF MetricsInit, ReadsAreOrdered
<1> QED
  BY <1>2, <1>3, <1>4 DEF MetricsIInv

\* A commit leaves what was read behind it; a read shows what is committed, hence no
\* less than any earlier one.
LEMMA MetricsKept == MetricsIInv /\ [MetricsNext]_metricsVars => MetricsIInv'
<1> SUFFICES ASSUME MetricsIInv, [MetricsNext]_metricsVars PROVE MetricsIInv'
  OBVIOUS
<1> USE OrderOfReads DEF MetricsIInv
<1>1. ASSUME NEW p \in Prospect, Commit(p) PROVE MetricsIInv'
  <2>1. MetricsTypeOK'
    BY <1>1 DEF Commit, MetricsTypeOK
  <2>2. NoneIsAhead'
    BY <1>1 DEF Commit, MetricsTypeOK, NoneIsAhead
  <2>3. \A q \in Prospect : committed[q] <= committed'[q]
    BY <1>1 DEF Commit, MetricsTypeOK
  <2>4. ReadsAreOrdered'
    <3> SUFFICES ASSUME NEW j \in 1..12, NEW k \in 1..12, j <= k, k < reading, NEW q \in Prospect
                 PROVE  /\ seen[ReadOrder[j]][q] <= seen[ReadOrder[k]][q]
                        /\ seen[ReadOrder[k]][q] <= committed'[q]
      BY <1>1 DEF Commit, ReadsAreOrdered
    <3>1. seen[ReadOrder[j]][q] <= seen[ReadOrder[k]][q] /\ seen[ReadOrder[k]][q] <= committed[q]
      BY DEF ReadsAreOrdered
    <3>2. seen[ReadOrder[k]] \in [Prospect -> Nat]
      BY DEF MetricsTypeOK
    <3>3. seen[ReadOrder[k]][q] \in Nat /\ committed[q] \in Nat /\ committed'[q] \in Nat
      BY <2>1, <3>2 DEF MetricsTypeOK
    <3> QED
      BY <2>3, <3>1, <3>3
  <2> QED
    BY <2>1, <2>2, <2>4
<1>2. CASE AskForReport
  BY <1>2 DEF AskForReport, MetricsTypeOK, NoneIsAhead, ReadsAreOrdered
<1>3. CASE Read
  <2>1. reading \in 1..12 /\ ReadOrder[reading] \in Tables
    BY <1>3 DEF Read
  <2>2. MetricsTypeOK'
    BY <1>3, <2>1 DEF Read, MetricsTypeOK
  <2>3. NoneIsAhead'
    BY <1>3 DEF Read, NoneIsAhead
  <2>4. ASSUME NEW j \in 1..12, NEW k \in 1..12, j <= k, k < reading', NEW p \in Prospect
        PROVE  /\ seen'[ReadOrder[j]][p] <= seen'[ReadOrder[k]][p]
               /\ seen'[ReadOrder[k]][p] <= committed'[p]
    <3>1. \A i \in 1..12 : ReadOrder[i] \in Tables
      OBVIOUS
    <3>2. \A i \in 1..12 : i # reading => seen'[ReadOrder[i]] = seen[ReadOrder[i]]
      BY <1>3, <2>1, <3>1 DEF Read, MetricsTypeOK
    <3>3. seen'[ReadOrder[reading]] = committed /\ committed' = committed
      BY <1>3, <2>1 DEF Read, MetricsTypeOK
    <3>4. CASE k = reading
      <4>1. committed[p] \in Nat
        BY DEF MetricsTypeOK
      <4>2. CASE j = reading
        BY <3>3, <3>4, <4>1, <4>2
      <4>3. CASE j # reading
        <5>1. seen[ReadOrder[j]][p] <= committed[p]
          BY <2>4, <3>4, <4>3, <2>1 DEF ReadsAreOrdered
        <5> QED
          BY <3>2, <3>3, <3>4, <4>1, <4>3, <5>1
      <4> QED
        BY <4>2, <4>3
    <3>5. CASE k # reading
      <4>1. k < reading /\ j # reading
        BY <1>3, <2>1, <2>4, <3>5 DEF Read
      <4>2. seen[ReadOrder[j]][p] <= seen[ReadOrder[k]][p] /\ seen[ReadOrder[k]][p] <= committed[p]
        BY <2>4, <4>1 DEF ReadsAreOrdered
      <4> QED
        BY <3>2, <3>3, <3>5, <4>1, <4>2
    <3> QED
      BY <3>4, <3>5
  <2>5. ReadsAreOrdered'
    BY <2>4 DEF ReadsAreOrdered
  <2> QED
    BY <2>2, <2>3, <2>5
<1>4. CASE UNCHANGED metricsVars
  BY <1>4 DEF metricsVars, MetricsTypeOK, NoneIsAhead, ReadsAreOrdered
<1> QED
  BY <1>1, <1>2, <1>3, <1>4 DEF MetricsNext

\* Of two tables of one report, the one read later shows no less of any prospect, and
\* neither shows what is not committed (the order of compute_run_evaluation's reads).
THEOREM ReadsAreOrderedHolds == MetricsSpec => []ReadsAreOrdered
<1>1. MetricsIInv => ReadsAreOrdered
  BY DEF MetricsIInv
<1> QED
  BY <1>1, MetricsBegin, MetricsKept, PTL DEF MetricsSpec

\* What the first read showed whole, every later read shows whole.
LEMMA SettledIsShown ==
    ASSUME MetricsIInv, Reported PROVE Shown(Settled, seen) = Shown(Settled, Whole)
<1>1. ASSUME NEW t \in Tables, NEW p \in Settled PROVE seen[t][p] = Len(life[p])
  <2>1. PICK k \in 1..12 : t = ReadOrder[k]
    BY OrderOfReads
  <2>2. p \in Prospect /\ seen["prospects"][p] = Len(life[p])
    BY DEF Settled
  <2>3. 1 <= k /\ k < reading
    BY OrderOfReads DEF Reported
  <2>4. seen["prospects"][p] <= seen[t][p] /\ seen[t][p] <= committed[p]
    BY <2>1, <2>2, <2>3, OrderOfReads DEF MetricsIInv, ReadsAreOrdered
  <2>5. committed[p] <= Len(life[p])
    BY <2>2 DEF MetricsIInv, NoneIsAhead
  <2>6. seen[t][p] \in Nat /\ committed[p] \in Nat /\ Len(life[p]) \in Nat
    BY <2>2 DEF MetricsIInv, MetricsTypeOK
  <2> QED
    BY <2>2, <2>4, <2>5, <2>6
<1>2. \A t \in Tables : \A p \in Settled : Whole[t][p] = Len(life[p])
  BY DEF Whole, Settled
<1> QED
  BY <1>1, <1>2 DEF Shown

\* What a report says of the prospects that were final when it was begun does not
\* depend on what was written between its reads (evaluation/metrics.py).
THEOREM SettledIsExactHolds == MetricsSpec => []SettledIsExact
<1>1. MetricsIInv => SettledIsExact
  BY SettledIsShown DEF SettledIsExact
<1> QED
  BY <1>1, MetricsBegin, MetricsKept, PTL DEF MetricsSpec

-----------------------------------------------------------------------------
(* The rates of a report: what each counts above its line and below it.       *)

\* A finite number of finite sets makes a finite set.
LEMMA FiniteUnion ==
    ASSUME NEW f, IsFiniteSet(DOMAIN f), \A x \in DOMAIN f : IsFiniteSet(f[x])
    PROVE  IsFiniteSet(UNION {f[x] : x \in DOMAIN f})
<1> DEFINE image == {f[x] : x \in DOMAIN f}
           g == [x \in DOMAIN f |-> f[x]]
<1>1. g \in Surjection(DOMAIN f, image)
  BY DEF Surjection
<1>2. IsFiniteSet(image)
  BY <1>1, FS_Surjection
<1> QED
  BY <1>2, FS_UNION

\* A list has finitely many places.
LEMMA ListsAreFinite ==
    ASSUME NEW S, NEW s \in Seq(S) PROVE IsFiniteSet(DOMAIN s)
<1>1. DOMAIN s = 1..Len(s) /\ Len(s) \in Int /\ 1 \in Int
  OBVIOUS
<1>2. IsFiniteSet(1..Len(s))
  BY <1>1, FS_Interval
<1> QED
  BY <1>1, <1>2

\* A pair of one thing and any of a finite set.
LEMMA PairsAreFinite ==
    ASSUME NEW x, NEW S, IsFiniteSet(S) PROVE IsFiniteSet({x} \X S)
BY FS_Product, FS_Singleton

\* The rows of a table are finitely many transactions of the kind asked for.
LEMMA RowsAreFinite ==
    ASSUME NEW shown, NEW t, NEW kind, IsFiniteSet(Asked(shown)),
           \A p \in Asked(shown) : shown[t][p] \in Seq(Transaction)
    PROVE  /\ IsFiniteSet(Rows(shown, t, kind))
           /\ \A row \in Rows(shown, t, kind) :
                  /\ row[1] \in Asked(shown) /\ row[2] \in DOMAIN shown[t][row[1]]
                  /\ row = <<row[1], row[2]>>
                  /\ RowOf(shown, t, row) \in Transaction /\ RowOf(shown, t, row).kind = kind
<1> DEFINE places(p) == {i \in DOMAIN shown[t][p] : shown[t][p][i].kind = kind}
           f == [p \in Asked(shown) |-> {p} \X places(p)]
<1>1. ASSUME NEW p \in Asked(shown) PROVE IsFiniteSet({p} \X places(p))
  <2>1. IsFiniteSet(DOMAIN shown[t][p])
    BY ListsAreFinite
  <2>2. IsFiniteSet(places(p))
    BY <2>1, PartOfRows
  <2> QED
    BY <2>2, PairsAreFinite
<1>2. IsFiniteSet(UNION {f[p] : p \in DOMAIN f})
  <2> HIDE DEF places
  <2>1. DOMAIN f = Asked(shown) /\ \A p \in DOMAIN f : IsFiniteSet(f[p])
    BY <1>1
  <2> QED
    BY <2>1, FiniteUnion
<1>3. Rows(shown, t, kind) = UNION {f[p] : p \in DOMAIN f}
  BY DEF Rows
<1>4. ASSUME NEW row \in Rows(shown, t, kind)
      PROVE  /\ row[1] \in Asked(shown) /\ row[2] \in DOMAIN shown[t][row[1]]
             /\ row = <<row[1], row[2]>>
             /\ RowOf(shown, t, row) \in Transaction /\ RowOf(shown, t, row).kind = kind
  <2>1. PICK p \in Asked(shown) : row \in {p} \X places(p)
    BY <1>4 DEF Rows
  <2>2. row = <<row[1], row[2]>> /\ row[1] = p /\ row[2] \in places(p)
    BY <2>1
  <2>3. row[2] \in DOMAIN shown[t][p] /\ shown[t][p][row[2]].kind = kind
    BY <2>2
  <2>4. shown[t][p][row[2]] \in Transaction
    BY <2>3
  <2> QED
    BY <2>2, <2>3, <2>4 DEF RowOf
<1> QED
  BY <1>2, <1>3, <1>4

\* The entries of finitely many lists are finitely many.
LEMMA EntriesAreFinite ==
    ASSUME NEW list, IsFiniteSet(DOMAIN list), \A row \in DOMAIN list : IsFiniteSet(DOMAIN list[row])
    PROVE  IsFiniteSet(Entries(list))
<1> DEFINE f == [row \in DOMAIN list |-> {row} \X DOMAIN list[row]]
<1>1. \A row \in DOMAIN f : IsFiniteSet(f[row])
  BY PairsAreFinite
<1>2. IsFiniteSet(UNION {f[row] : row \in DOMAIN f})
  BY <1>1, FiniteUnion
<1> QED
  BY <1>2 DEF Entries

\* A transaction is of one kind; what it lists is finite.
LEMMA KindsOfTransaction ==
    ASSUME NEW w \in Transaction
    PROVE  /\ w.kind = "drafts" => IsFiniteSet(DOMAIN w.claims)
           /\ w.kind = "score" => IsFiniteSet(DOMAIN w.dimensions)
           /\ w.kind = "review" => IsFiniteSet(DOMAIN w.checks)
           /\ w.kind = "documents" => IsFiniteSet(DOMAIN w.docs)
           /\ w.kind = "enrichment" => (w.ok => w.called) /\ (w.matched => w.ok)
<1>1. /\ w.kind = "drafts" => w \in OutreachDrafts
      /\ w.kind = "score" => w \in ICPScore
      /\ w.kind = "review" => w \in ReviewResult
      /\ w.kind = "documents" => w \in SourceDocuments
      /\ w.kind = "enrichment" => w \in Enrichment
  BY DEF Transaction, Standing, Task, LLMCall, SourceDocuments, Enrichment, EvidenceRows, ICPScore,
         OutreachDrafts, ReviewResult
<1>2. w.kind = "drafts" => w.claims \in Seq([ids : SUBSET STRING, backed : BOOLEAN])
  BY <1>1 DEF OutreachDrafts
<1>3. w.kind = "score" => w.dimensions \in Seq(BOOLEAN)
  BY <1>1 DEF ICPScore
<1>4. w.kind = "review" => w.checks \in Seq([id : STRING, passed : BOOLEAN])
  BY <1>1 DEF ReviewResult
<1>5. w.kind = "documents" => w.docs \in Seq([winner : BOOLEAN, id : STRING])
  BY <1>1 DEF SourceDocuments
<1>6. w.kind = "enrichment" => (w.ok => w.called) /\ (w.matched => w.ok)
  BY <1>1 DEF Enrichment
<1>7. w.kind = "drafts" => IsFiniteSet(DOMAIN w.claims)
  BY <1>2, ListsAreFinite
<1>8. w.kind = "score" => IsFiniteSet(DOMAIN w.dimensions)
  BY <1>3, ListsAreFinite
<1>9. w.kind = "review" => IsFiniteSet(DOMAIN w.checks)
  BY <1>4, ListsAreFinite
<1>10. w.kind = "documents" => IsFiniteSet(DOMAIN w.docs)
  BY <1>5, ListsAreFinite
<1> QED
  BY <1>6, <1>7, <1>8, <1>9, <1>10

\* Once every table has been read, each shows a part of every prospect's life.
LEMMA ShownRows ==
    ASSUME MetricsIInv, Reported
    PROVE  LET shown == Shown(Prospect, seen) IN
           /\ Asked(shown) = Prospect
           /\ \A t \in Tables, p \in Prospect :
                  /\ shown[t][p] \in Seq(Transaction)
                  /\ DOMAIN shown[t][p] = 1..seen[t][p] /\ seen[t][p] \in Nat
                  /\ \A i \in 1..seen[t][p] : shown[t][p][i] = life[p][i]
<1> DEFINE shown == Shown(Prospect, seen)
<1>1. "prospects" \in Tables
  BY OrderOfReads
<1>2. Asked(shown) = Prospect
  BY <1>1 DEF Asked, Shown
<1>3. ASSUME NEW t \in Tables, NEW p \in Prospect
      PROVE  /\ shown[t][p] \in Seq(Transaction)
             /\ DOMAIN shown[t][p] = 1..seen[t][p] /\ seen[t][p] \in Nat
             /\ \A i \in 1..seen[t][p] : shown[t][p][i] = life[p][i]
  <2>1. PICK k \in 1..12 : t = ReadOrder[k]
    BY OrderOfReads
  <2>2. seen[t][p] <= committed[p]
    BY <2>1, OrderOfReads DEF Reported, MetricsIInv, ReadsAreOrdered
  <2>3. /\ seen[t][p] \in Nat /\ committed[p] \in Nat /\ life[p] \in Seq(Transaction)
        /\ committed[p] <= Len(life[p]) /\ Len(life[p]) \in Nat
    BY DEF MetricsIInv, MetricsTypeOK, NoneIsAhead
  <2>4. shown[t][p] = SubSeq(life[p], 1, seen[t][p])
    BY DEF Shown
  <2>5. seen[t][p] <= Len(life[p])
    BY <2>2, <2>3
  <2> HIDE DEF shown
  <2>6. /\ shown[t][p] \in Seq(Transaction)
        /\ Len(shown[t][p]) = seen[t][p]
        /\ \A i \in 1..seen[t][p] : shown[t][p][i] = life[p][i]
    BY <2>3, <2>4, <2>5
  <2> QED
    BY <2>3, <2>6
<1> QED
  BY <1>2, <1>3

\* Every list a table shows has finitely many entries.
LEMMA CountedAreFinite ==
    ASSUME MetricsIInv, Reported
    PROVE  LET shown == Shown(Prospect, seen) IN
           /\ IsFiniteSet(Claims(shown)) /\ IsFiniteSet(Dimensions(shown))
           /\ IsFiniteSet(Checks(shown)) /\ IsFiniteSet(Documents(shown))
<1> DEFINE shown == Shown(Prospect, seen)
<1>1. IsFiniteSet(Asked(shown)) /\ \A t \in Tables, p \in Asked(shown) : shown[t][p] \in Seq(Transaction)
  BY ShownRows, MetricsAssumption
<1>2. \A t \in {"drafts", "scores", "reviews", "documents"} : t \in Tables
  BY DEF Tables, ToSet, ReadOrder
<1> HIDE DEF shown
<1>3. \A kind : \A t \in {"drafts", "scores", "reviews", "documents"} :
          /\ IsFiniteSet(Rows(shown, t, kind))
          /\ \A row \in Rows(shown, t, kind) :
                 RowOf(shown, t, row) \in Transaction /\ RowOf(shown, t, row).kind = kind
  BY <1>1, <1>2, RowsAreFinite
<1>4. IsFiniteSet(Claims(shown))
  <2> DEFINE list == [row \in Rows(shown, "drafts", "drafts") |-> RowOf(shown, "drafts", row).claims]
  <2>1. DOMAIN list = Rows(shown, "drafts", "drafts") /\ IsFiniteSet(DOMAIN list)
    BY <1>3
  <2>2. \A row \in DOMAIN list : IsFiniteSet(DOMAIN list[row])
    BY <1>3, KindsOfTransaction
  <2> QED
    BY <2>1, <2>2, EntriesAreFinite DEF Claims
<1>5. IsFiniteSet(Dimensions(shown))
  <2> DEFINE list == [row \in Rows(shown, "scores", "score") |-> RowOf(shown, "scores", row).dimensions]
  <2>1. DOMAIN list = Rows(shown, "scores", "score") /\ IsFiniteSet(DOMAIN list)
    BY <1>3
  <2>2. \A row \in DOMAIN list : IsFiniteSet(DOMAIN list[row])
    BY <1>3, KindsOfTransaction
  <2> QED
    BY <2>1, <2>2, EntriesAreFinite DEF Dimensions
<1>6. IsFiniteSet(Checks(shown))
  <2> DEFINE list == [row \in Rows(shown, "reviews", "review") |-> RowOf(shown, "reviews", row).checks]
  <2>1. DOMAIN list = Rows(shown, "reviews", "review") /\ IsFiniteSet(DOMAIN list)
    BY <1>3
  <2>2. \A row \in DOMAIN list : IsFiniteSet(DOMAIN list[row])
    BY <1>3, KindsOfTransaction
  <2> QED
    BY <2>1, <2>2, EntriesAreFinite DEF Checks
<1>7. IsFiniteSet(Documents(shown))
  <2> DEFINE list == [row \in Rows(shown, "documents", "documents") |-> RowOf(shown, "documents", row).docs]
  <2>1. DOMAIN list = Rows(shown, "documents", "documents") /\ IsFiniteSet(DOMAIN list)
    BY <1>3
  <2>2. \A row \in DOMAIN list : IsFiniteSet(DOMAIN list[row])
    BY <1>3, KindsOfTransaction
  <2> QED
    BY <2>1, <2>2, EntriesAreFinite DEF Documents
<1> QED
  BY <1>4, <1>5, <1>6, <1>7 DEF shown

\* A call that answered is among the calls that were made: the calls are read last.
LEMMA AnswersWereAttempted ==
    ASSUME MetricsIInv, Reported, NEW t \in {"channels", "enrichments"}, NEW p \in Prospect,
           NEW i \in 1..seen[t][p], life[p][i].kind = "enrichment", life[p][i].ok
    PROVE  <<p, i>> \in Attempted(Shown(Prospect, seen))
<1> DEFINE shown == Shown(Prospect, seen)
<1>1. t \in Tables /\ "enrichment_calls" \in Tables
  BY DEF Tables, ToSet, ReadOrder
<1>2. seen[t][p] <= seen["enrichment_calls"][p]
  <2>1. ReadOrder[10] = "channels" /\ ReadOrder[11] = "enrichments" /\ ReadOrder[12] = "enrichment_calls"
    BY DEF ReadOrder
  <2> QED
    BY <2>1, OrderOfReads DEF Reported, MetricsIInv, ReadsAreOrdered
<1>3. seen[t][p] \in Nat /\ seen["enrichment_calls"][p] \in Nat
  BY <1>1 DEF MetricsIInv, MetricsTypeOK
<1>4. i \in 1..seen["enrichment_calls"][p]
  BY <1>2, <1>3
<1>5. /\ i \in DOMAIN shown["enrichment_calls"][p] /\ shown["enrichment_calls"][p][i] = life[p][i]
      /\ shown["enrichment_calls"][p][i] \in Transaction /\ p \in Asked(shown)
  <2>1. shown["enrichment_calls"][p] \in Seq(Transaction)
    BY <1>1, ShownRows
  <2>2. /\ i \in DOMAIN shown["enrichment_calls"][p] /\ shown["enrichment_calls"][p][i] = life[p][i]
        /\ p \in Asked(shown)
    BY <1>1, <1>4, ShownRows
  <2> HIDE DEF shown
  <2> QED
    BY <2>1, <2>2
<1>6. life[p][i].called
  BY <1>5, KindsOfTransaction
<1> HIDE DEF shown
<1>7. <<p, i>> \in Rows(shown, "enrichment_calls", "enrichment")
  BY <1>5 DEF Rows
<1> QED
  BY <1>5, <1>6, <1>7 DEF Attempted, RowOf, shown

\* Prospects of which a call answered are no more than the calls that were made.
LEMMA NoMoreThanAttempted ==
    ASSUME MetricsIInv, Reported, NEW S, S \subseteq Prospect,
           \A p \in S : \E i \in 1..seen["channels"][p] : life[p][i].kind = "enrichment" /\ life[p][i].ok
    PROVE  Cardinality(S) <= Cardinality(Attempted(Shown(Prospect, seen)))
<1> DEFINE shown == Shown(Prospect, seen)
           answer(p) == CHOOSE i \in 1..seen["channels"][p] : life[p][i].kind = "enrichment" /\ life[p][i].ok
           f == [p \in S |-> <<p, answer(p)>>]
<1>1. IsFiniteSet(Attempted(shown))
  <2>1. "enrichment_calls" \in Tables
    BY DEF Tables, ToSet, ReadOrder
  <2>2. IsFiniteSet(Asked(shown)) /\ \A p \in Asked(shown) : shown["enrichment_calls"][p] \in Seq(Transaction)
    BY <2>1, ShownRows, MetricsAssumption
  <2> HIDE DEF shown
  <2>3. IsFiniteSet(Rows(shown, "enrichment_calls", "enrichment"))
    BY <2>2, RowsAreFinite
  <2> QED
    BY <2>3, PartOfRows DEF Attempted
<1>2. \A p \in S : <<p, answer(p)>> \in Attempted(shown)
  <2> SUFFICES ASSUME NEW p \in S PROVE <<p, answer(p)>> \in Attempted(shown)
    OBVIOUS
  <2>1. /\ answer(p) \in 1..seen["channels"][p]
        /\ life[p][answer(p)].kind = "enrichment" /\ life[p][answer(p)].ok
    OBVIOUS
  <2> HIDE DEF answer
  <2> QED
    BY <2>1, AnswersWereAttempted
<1> HIDE DEF answer, shown
<1>3. f \in Injection(S, Attempted(shown))
  BY <1>2 DEF Injection, IsInjective
<1> QED
  BY <1>1, <1>3, FS_Injection DEF shown

\* A rate is within its bounds when what is counted above the line is part of a
\* finite whole, counted below it.
LEMMA PartIsFraction ==
    ASSUME NEW rate, IsFiniteSet(rate[2]), rate[1] \subseteq rate[2]
    PROVE  Cardinality(rate[1]) <= Cardinality(rate[2])
BY PartOfRows

\* evaluation/metrics.py:112-169
LEMMA QualityIsInBounds ==
    ASSUME MetricsIInv, Reported
    PROVE  LET rates == Quality(Shown(Prospect, seen))
           IN \A r \in DOMAIN rates : Cardinality(rates[r][1]) <= Cardinality(rates[r][2])
<1> DEFINE shown == Shown(Prospect, seen)
           rates == Quality(shown)
<1>1. IsFiniteSet(Claims(shown)) /\ IsFiniteSet(Dimensions(shown))
  BY CountedAreFinite
<1>2. IsFiniteSet(NotDuplicate(shown))
  <2>1. IsFiniteSet(Asked(shown))
    BY ShownRows, MetricsAssumption
  <2> HIDE DEF shown
  <2>2. NotDuplicate(shown) \subseteq Asked(shown)
    BY DEF NotDuplicate, Found
  <2> QED
    BY <2>1, <2>2, PartOfRows
<1> HIDE DEF shown
<1>3. DOMAIN rates = {"coverage", "claims", "dimensions"}
  BY DEF Quality
<1>4. rates["coverage"][1] \subseteq rates["coverage"][2] /\ IsFiniteSet(rates["coverage"][2])
  BY <1>2 DEF Quality, Sourced
<1>5. rates["claims"][1] \subseteq rates["claims"][2] /\ IsFiniteSet(rates["claims"][2])
  BY <1>1 DEF Quality, GroundedClaims
<1>6. rates["dimensions"][1] \subseteq rates["dimensions"][2] /\ IsFiniteSet(rates["dimensions"][2])
  BY <1>1 DEF Quality
<1> HIDE DEF rates
<1> QED
  BY <1>3, <1>4, <1>5, <1>6, PartIsFraction DEF rates, shown

\* evaluation/metrics.py:171-211
LEMMA StepRatesAreInBounds ==
    ASSUME MetricsIInv, Reported
    PROVE  LET rates == StepRates(Shown(Prospect, seen))
           IN \A r \in DOMAIN rates : Cardinality(rates[r][1]) <= Cardinality(rates[r][2])
<1> DEFINE shown == Shown(Prospect, seen)
           rates == StepRates(shown)
<1>1. IsFiniteSet(Asked(shown)) /\ \A row \in Rows(shown, "tasks", "task") : row[1] \in Asked(shown)
  <2>1. "tasks" \in Tables
    BY DEF Tables, ToSet, ReadOrder
  <2>2. IsFiniteSet(Asked(shown)) /\ \A p \in Asked(shown) : shown["tasks"][p] \in Seq(Transaction)
    BY <2>1, ShownRows, MetricsAssumption
  <2> HIDE DEF shown
  <2> QED
    BY <2>2, RowsAreFinite
<1> HIDE DEF shown
<1>2. ASSUME NEW r \in DOMAIN rates
      PROVE  rates[r][1] \subseteq rates[r][2] /\ rates[r][2] \subseteq Asked(shown)
  BY <1>1 DEF StepRates
<1>3. \A r \in DOMAIN rates : IsFiniteSet(rates[r][2])
  BY <1>1, <1>2, PartOfRows
<1> HIDE DEF rates
<1> QED
  BY <1>2, <1>3, PartIsFraction DEF rates, shown

\* evaluation/metrics.py:212-234
LEMMA GuardrailsAreInBounds ==
    ASSUME MetricsIInv, Reported
    PROVE  LET rates == Guardrails(Shown(Prospect, seen))
           IN \A r \in DOMAIN rates : Cardinality(rates[r][1]) <= Cardinality(rates[r][2])
<1> DEFINE shown == Shown(Prospect, seen)
           rates == Guardrails(shown)
<1>1. IsFiniteSet(Checks(shown))
  BY CountedAreFinite
<1> HIDE DEF shown
<1>2. ASSUME NEW r \in DOMAIN rates
      PROVE  rates[r][1] \subseteq rates[r][2] /\ rates[r][2] \subseteq Checks(shown)
  BY DEF Guardrails
<1>3. \A r \in DOMAIN rates : IsFiniteSet(rates[r][2])
  BY <1>1, <1>2, PartOfRows
<1> HIDE DEF rates
<1> QED
  BY <1>2, <1>3, PartIsFraction DEF rates, shown

\* evaluation/metrics.py:255-313
LEMMA SearchIsInBounds ==
    ASSUME MetricsIInv, Reported
    PROVE  LET rates == SearchQuality(Shown(Prospect, seen))
           IN \A r \in DOMAIN rates : Cardinality(rates[r][1]) <= Cardinality(rates[r][2])
<1> DEFINE shown == Shown(Prospect, seen)
           rates == SearchQuality(shown)
<1>1. IsFiniteSet(Documents(shown))
  BY CountedAreFinite
<1> HIDE DEF shown
<1>2. DOMAIN rates = {"utilization", "unique"}
  BY DEF SearchQuality
<1>3. /\ rates["utilization"][1] \subseteq rates["utilization"][2]
      /\ rates["utilization"][2] \subseteq Documents(shown)
      /\ rates["unique"][1] \subseteq rates["unique"][2] /\ rates["unique"][2] = Documents(shown)
  BY DEF SearchQuality
<1> HIDE DEF rates
<1>4. IsFiniteSet(rates["utilization"][2]) /\ IsFiniteSet(rates["unique"][2])
  BY <1>1, <1>3, PartOfRows
<1> QED
  BY <1>2, <1>3, <1>4, PartIsFraction DEF rates, shown

\* evaluation/metrics.py:290-313
LEMMA ScoresAreInBounds ==
    ASSUME MetricsIInv, Reported
    PROVE  LET rates == ScoreQuality(Shown(Prospect, seen))
           IN \A r \in DOMAIN rates : Cardinality(rates[r][1]) <= Cardinality(rates[r][2])
<1> DEFINE shown == Shown(Prospect, seen)
           rates == ScoreQuality(shown)
<1>1. IsFiniteSet(Rows(shown, "scores", "score"))
  <2>1. "scores" \in Tables
    BY DEF Tables, ToSet, ReadOrder
  <2>2. IsFiniteSet(Asked(shown)) /\ \A p \in Asked(shown) : shown["scores"][p] \in Seq(Transaction)
    BY <2>1, ShownRows, MetricsAssumption
  <2> HIDE DEF shown
  <2> QED
    BY <2>2, RowsAreFinite
<1> HIDE DEF shown
<1>2. DOMAIN rates = {"industry", "undecided"}
  BY DEF ScoreQuality
<1>3. \A r \in {"industry", "undecided"} :
          rates[r][1] \subseteq rates[r][2] /\ rates[r][2] = Rows(shown, "scores", "score")
  BY DEF ScoreQuality
<1> HIDE DEF rates
<1> QED
  BY <1>1, <1>2, <1>3, PartIsFraction DEF rates, shown

\* What is known of a channel was answered (evaluation/metrics.py:428-515).
LEMMA EnrichmentIsInBounds ==
    ASSUME MetricsIInv, Reported
    PROVE  LET rates == EnrichmentMetrics(Shown(Prospect, seen))
           IN \A r \in DOMAIN rates : Cardinality(rates[r][1]) <= Cardinality(rates[r][2])
<1> DEFINE shown == Shown(Prospect, seen)
           rates == EnrichmentMetrics(shown)
           found == rates["emailFound"][1]
<1>1. /\ Found(shown) \subseteq Prospect /\ IsFiniteSet(Prospect)
      /\ \A p \in Prospect : /\ DOMAIN shown["channels"][p] = 1..seen["channels"][p]
                             /\ \A i \in 1..seen["channels"][p] : shown["channels"][p][i] = life[p][i]
  <2>1. "channels" \in Tables
    BY DEF Tables, ToSet, ReadOrder
  <2>2. Asked(shown) = Prospect /\ IsFiniteSet(Prospect)
    BY ShownRows, MetricsAssumption
  <2>3. Found(shown) \subseteq Prospect
    <3> HIDE DEF shown
    <3> QED
      BY <2>2 DEF Found
  <2> QED
    BY <2>1, <2>2, <2>3, ShownRows
<1>2. rates["matched"][1] \subseteq Attempted(shown)
  <2> SUFFICES ASSUME NEW row \in rates["matched"][1] PROVE row \in Attempted(shown)
    OBVIOUS
  <2>1. "enrichments" \in Tables
    BY DEF Tables, ToSet, ReadOrder
  <2>2. /\ IsFiniteSet(Asked(shown)) /\ Asked(shown) = Prospect
        /\ \A p \in Prospect : /\ shown["enrichments"][p] \in Seq(Transaction)
                               /\ DOMAIN shown["enrichments"][p] = 1..seen["enrichments"][p]
                               /\ \A i \in 1..seen["enrichments"][p] : shown["enrichments"][p][i] = life[p][i]
    BY <2>1, ShownRows, MetricsAssumption
  <2> HIDE DEF shown
  <2>3. row \in Rows(shown, "enrichments", "enrichment") /\ RowOf(shown, "enrichments", row).matched
    BY DEF EnrichmentMetrics
  <2>4. /\ row[1] \in Prospect /\ row[2] \in 1..seen["enrichments"][row[1]] /\ row = <<row[1], row[2]>>
        /\ RowOf(shown, "enrichments", row) \in Transaction
        /\ RowOf(shown, "enrichments", row).kind = "enrichment"
        /\ RowOf(shown, "enrichments", row) = life[row[1]][row[2]]
    <3>1. /\ row[1] \in Asked(shown) /\ row[2] \in DOMAIN shown["enrichments"][row[1]]
          /\ row = <<row[1], row[2]>>
          /\ RowOf(shown, "enrichments", row) \in Transaction
          /\ RowOf(shown, "enrichments", row).kind = "enrichment"
      BY <2>2, <2>3, RowsAreFinite
    <3>2. RowOf(shown, "enrichments", row) = shown["enrichments"][row[1]][row[2]]
      BY DEF RowOf
    <3> QED
      BY <2>2, <3>1, <3>2
  <2>5. life[row[1]][row[2]].kind = "enrichment" /\ life[row[1]][row[2]].ok
    BY <2>3, <2>4, KindsOfTransaction
  <2> QED
    BY <2>4, <2>5, AnswersWereAttempted DEF shown
<1> HIDE DEF shown
<1>3. /\ rates["matched"][2] = Attempted(shown)
      /\ rates["emailFound"][2] = Attempted(shown) /\ rates["resolved"][2] = Attempted(shown)
      /\ rates["verified"][2] = found
  BY DEF EnrichmentMetrics
<1>4. DOMAIN rates = {"matched", "emailFound", "verified", "resolved"}
  BY DEF EnrichmentMetrics
<1>5. rates["verified"][1] \subseteq found
  BY DEF EnrichmentMetrics, Current
<1>6. \A r \in {"emailFound", "resolved"} :
          /\ rates[r][1] \subseteq Found(shown)
          /\ \A p \in rates[r][1] : \E i \in DOMAIN shown["channels"][p] :
                 shown["channels"][p][i].kind = "enrichment" /\ shown["channels"][p][i].ok
  <2> DEFINE email(w) == w.email # "none"
             profile(w) == w.profile # "none"
             given(w) == w.email \in {"found", "verified"}
             accepted(w) == w.profile = "resolved"
  <2>1. rates["emailFound"][1] = Current(shown, email, given)
    BY DEF EnrichmentMetrics
  <2>2. rates["resolved"][1] = Current(shown, profile, accepted)
    BY DEF EnrichmentMetrics
  <2> HIDE DEF rates, email, profile, given, accepted
  <2>3. /\ Current(shown, email, given) \subseteq Found(shown)
        /\ \A p \in Current(shown, email, given) : \E i \in DOMAIN shown["channels"][p] :
               shown["channels"][p][i].kind = "enrichment" /\ shown["channels"][p][i].ok
    BY DEF Current
  <2>4. /\ Current(shown, profile, accepted) \subseteq Found(shown)
        /\ \A p \in Current(shown, profile, accepted) : \E i \in DOMAIN shown["channels"][p] :
               shown["channels"][p][i].kind = "enrichment" /\ shown["channels"][p][i].ok
    BY DEF Current
  <2> QED
    BY <2>1, <2>2, <2>3, <2>4
<1>7. IsFiniteSet(Attempted(shown))
  <2>1. "enrichment_calls" \in Tables
    BY DEF Tables, ToSet, ReadOrder
  <2>2. IsFiniteSet(Asked(shown)) /\ \A p \in Asked(shown) : shown["enrichment_calls"][p] \in Seq(Transaction)
    BY <2>1, ShownRows, MetricsAssumption DEF shown
  <2>3. IsFiniteSet(Rows(shown, "enrichment_calls", "enrichment"))
    BY <2>2, RowsAreFinite
  <2> QED
    BY <2>3, PartOfRows DEF Attempted
<1> HIDE DEF rates
<1>8. \A r \in {"emailFound", "resolved"} : Cardinality(rates[r][1]) <= Cardinality(rates[r][2])
  <2> SUFFICES ASSUME NEW r \in {"emailFound", "resolved"}
               PROVE  Cardinality(rates[r][1]) <= Cardinality(rates[r][2])
    OBVIOUS
  <2>1. rates[r][1] \subseteq Prospect
    BY <1>1, <1>6
  <2>2. \A p \in rates[r][1] : \E i \in 1..seen["channels"][p] :
            life[p][i].kind = "enrichment" /\ life[p][i].ok
    <3> SUFFICES ASSUME NEW p \in rates[r][1]
                 PROVE  \E i \in 1..seen["channels"][p] : life[p][i].kind = "enrichment" /\ life[p][i].ok
      OBVIOUS
    <3>1. PICK i \in DOMAIN shown["channels"][p] :
              shown["channels"][p][i].kind = "enrichment" /\ shown["channels"][p][i].ok
      BY <1>6
    <3>2. i \in 1..seen["channels"][p] /\ shown["channels"][p][i] = life[p][i]
      BY <1>1, <2>1, <3>1
    <3> QED
      BY <3>1, <3>2
  <2>3. Cardinality(rates[r][1]) <= Cardinality(Attempted(shown))
    BY <2>1, <2>2, NoMoreThanAttempted DEF shown
  <2> QED
    BY <1>3, <2>3
<1>9. Cardinality(rates["matched"][1]) <= Cardinality(rates["matched"][2])
  BY <1>2, <1>3, <1>7, PartIsFraction
<1>10. Cardinality(rates["verified"][1]) <= Cardinality(rates["verified"][2])
  <2>1. IsFiniteSet(found)
    BY <1>1, <1>6, PartOfRows
  <2> QED
    BY <1>3, <1>5, <2>1, PartIsFraction
<1> QED
  BY <1>4, <1>8, <1>9, <1>10 DEF rates, shown

\* Every rate of a report that is read while the run writes is a fraction.
LEMMA RatesAreInBounds == MetricsIInv => RatesAreFractions
<1> SUFFICES ASSUME MetricsIInv, Reported
             PROVE  LET rates == Rates(Shown(Prospect, seen))
                    IN \A i \in DOMAIN rates : \A r \in DOMAIN rates[i] :
                           Cardinality(rates[i][r][1]) <= Cardinality(rates[i][r][2])
  BY DEF RatesAreFractions
<1> DEFINE shown == Shown(Prospect, seen)
           rates == Rates(shown)
<1> HIDE DEF shown
<1>1. /\ DOMAIN rates = 1..6
      /\ rates[1] = Quality(shown) /\ rates[2] = StepRates(shown) /\ rates[3] = Guardrails(shown)
      /\ rates[4] = SearchQuality(shown) /\ rates[5] = ScoreQuality(shown)
      /\ rates[6] = EnrichmentMetrics(shown)
  BY DEF Rates
<1> HIDE DEF rates
<1>2. \A r \in DOMAIN rates[1] : Cardinality(rates[1][r][1]) <= Cardinality(rates[1][r][2])
  BY <1>1, QualityIsInBounds DEF shown
<1>3. \A r \in DOMAIN rates[2] : Cardinality(rates[2][r][1]) <= Cardinality(rates[2][r][2])
  BY <1>1, StepRatesAreInBounds DEF shown
<1>4. \A r \in DOMAIN rates[3] : Cardinality(rates[3][r][1]) <= Cardinality(rates[3][r][2])
  BY <1>1, GuardrailsAreInBounds DEF shown
<1>5. \A r \in DOMAIN rates[4] : Cardinality(rates[4][r][1]) <= Cardinality(rates[4][r][2])
  BY <1>1, SearchIsInBounds DEF shown
<1>6. \A r \in DOMAIN rates[5] : Cardinality(rates[5][r][1]) <= Cardinality(rates[5][r][2])
  BY <1>1, ScoresAreInBounds DEF shown
<1>7. \A r \in DOMAIN rates[6] : Cardinality(rates[6][r][1]) <= Cardinality(rates[6][r][2])
  BY <1>1, EnrichmentIsInBounds DEF shown
<1>8. \A i \in 1..6 : i = 1 \/ i = 2 \/ i = 3 \/ i = 4 \/ i = 5 \/ i = 6
  OBVIOUS
<1>9. \A i \in DOMAIN rates : \A r \in DOMAIN rates[i] :
          Cardinality(rates[i][r][1]) <= Cardinality(rates[i][r][2])
  BY <1>1, <1>2, <1>3, <1>4, <1>5, <1>6, <1>7, <1>8
<1> QED
  BY <1>9 DEF rates, shown

\* A report that was read while the run was writing has no rate above one, and is exact
\* for the prospects that were final when it was begun (evaluation/metrics.py).
THEOREM ReportIsFaithfulHolds == MetricsSpec => []ReportIsFaithful
<1>1. MetricsIInv => ReportIsFaithful
  BY RatesAreInBounds, SettledIsShown DEF ReportIsFaithful, SettledIsExact
<1> QED
  BY <1>1, MetricsBegin, MetricsKept, PTL DEF MetricsSpec

-----------------------------------------------------------------------------
(* LiveDiscovery: from proposals to companies, whatever is served, proposed   *)
(* and found.                                                                *)

\* What a longer sequence holds.
LEMMA OneMore ==
    ASSUME NEW S, NEW s \in Seq(S), NEW e \in S
    PROVE  /\ Append(s, e) \in Seq(S) /\ Len(s) \in Nat /\ Len(Append(s, e)) = Len(s) + 1
           /\ DOMAIN s = 1..Len(s) /\ DOMAIN Append(s, e) = 1..(Len(s) + 1)
           /\ Append(s, e)[Len(s) + 1] = e /\ \A i \in DOMAIN s : Append(s, e)[i] = s[i]
<1>1. /\ Append(s, e) \in Seq(S) /\ Len(s) \in Nat /\ Len(Append(s, e)) = Len(s) + 1
      /\ DOMAIN s = 1..Len(s)
  OBVIOUS
<1>2. DOMAIN Append(s, e) = 1..(Len(s) + 1)
  BY <1>1
<1>3. Append(s, e)[Len(s) + 1] = e /\ \A i \in 1..Len(s) : Append(s, e)[i] = s[i]
  OBVIOUS
<1> QED
  BY <1>1, <1>2, <1>3

\* The diagnosis and the decision agree, on every URL.
LEMMA DiagnosisAlwaysAgrees ==
    ASSUME NEW url, NEW served, url.safe \in BOOLEAN
    PROVE  DiagnosisAgrees(url, served)
BY DEF DiagnosisAgrees, ClassifyCandidate, ResolveCandidate

\* A name that is supported is named by what its proposal cites.
LEMMA SupportedIsNamed ==
    ASSUME DiscoveryTypeOK, NEW k \in DOMAIN proposed, VerdictOnName(proposed[k], rawHits) = "ok"
    PROVE  IsNamed(proposed[k].name)
<1> DEFINE p == proposed[k]
           core == Core(p.tokens)
           texts == CitedTexts(p, rawHits)
<1>1. texts # {} /\ core # {} /\ 5 * Cardinality(core \cap UNION texts) >= 4 * Cardinality(core)
  BY DEF VerdictOnName, Supported
<1>2. IsFiniteSet(core)
  <2>1. IsFiniteSet(p.tokens)
    BY DiscoveryAssumption DEF DiscoveryTypeOK
  <2> QED
    BY <2>1, FS_Subset DEF Core
<1>3. Cardinality(core) \in Nat /\ Cardinality(core) # 0
  BY <1>1, <1>2, FS_CardinalityType, FS_EmptySet
<1>4. core \cap UNION texts # {}
  <2> SUFFICES ASSUME core \cap UNION texts = {} PROVE FALSE
    OBVIOUS
  <2>1. Cardinality(core \cap UNION texts) = 0
    BY FS_EmptySet
  <2>2. 0 >= 4 * Cardinality(core)
    BY <1>1, <2>1
  <2> QED
    BY <1>3, <2>2
<1>5. PICK t \in core, text \in texts : t \in text
  BY <1>4
<1> QED
  BY <1>5 DEF CitedTexts, IsNamed

\* Whatever is selected is safe.
LEMMA SelectedIsSafe ==
    ASSUME NEW name, NEW candidates, NEW picked, NEW i \in Selected(name, candidates, picked)
    PROVE  /\ i \in DOMAIN candidates /\ candidates[i].url.safe
           /\ candidates[i].url.domain \notin {"none"} \cup Aggregator
<1>1. i \in SafeCandidates(candidates)
  BY DEF Selected
<1> QED
  BY <1>1 DEF SafeCandidates, ResolveCandidate

\* Companies of different domains are no duplicates of one another.
LEMMA NoDuplicates ==
    ASSUME NEW seeds, NEW n \in Nat, DOMAIN seeds = 1..n,
           \A i \in DOMAIN seeds : seeds[i].domain # "none",
           \A i, j \in DOMAIN seeds : seeds[i].domain = seeds[j].domain => i = j
    PROVE  \A i \in DOMAIN seeds : ~Dedupe(seeds)[i]
<1> SUFFICES ASSUME NEW i \in 1..n, NEW j \in 1..(i - 1), DedupeKey(seeds[j]) = DedupeKey(seeds[i])
             PROVE  FALSE
  BY DEF Dedupe
<1>1. j \in 1..n /\ i # j
  OBVIOUS
<1>2. seeds[i].domain = seeds[j].domain
  BY <1>1 DEF DedupeKey
<1> QED
  BY <1>1, <1>2

\* When every name that was kept has been judged in its turn, each is accounted for.
LEMMA NamesAreAccountedFor ==
    ASSUME DiscoveryIInv, phase = "resolve", <<"none", "discovery_extraction_unavailable">> \notin rejections
    PROVE  Proposed = Told \cup Seeded \cup Waiting
<1>1. Kept \subseteq Proposed
  BY DEF DiscoveryIInv, ValidAreNamed, IsNamed, Kept, Proposed
<1>2. Told \subseteq Proposed /\ Seeded \subseteq Kept /\ Proposed \subseteq Told \cup Kept
  BY DEF DiscoveryIInv, ToldWereProposed, ResolvedAreValid, ByPhase
<1>3. DOMAIN valid = 1..Len(valid) /\ turn \in Nat \ {0} /\ Len(valid) \in Nat
  BY DEF DiscoveryIInv, DiscoveryTypeOK
<1>4. Waiting \subseteq Kept
  BY <1>3 DEF Waiting, Kept
<1>5. Kept \subseteq Told \cup Seeded \cup Waiting
  <2>1. \A i \in DOMAIN valid : ~(i < turn) => valid[i] \in Waiting
    BY <1>3 DEF Waiting
  <2>2. \A i \in DOMAIN valid : i < turn => valid[i] \in Told \cup Seeded
    BY DEF DiscoveryIInv, ByPhase, LookedUpAreKept
  <2> QED
    BY <2>1, <2>2 DEF Kept
<1> QED
  BY <1>1, <1>2, <1>4, <1>5

\* A name is told of when it is rejected, whatever the reason.
LEMMA RejectedIsTold ==
    ASSUME NEW name, NEW reason, Reject(name, reason)
    PROVE  Told' = Told \cup {name} /\ rejections \subseteq rejections'
<1>1. rejections' = rejections \cup {<<name, reason>>} /\ <<name, reason>>[1] = name
  BY DEF Reject
<1>2. Told' = {r[1] : r \in rejections'}
  BY DEF Told
<1>3. \A r \in rejections : r[1] \in Told
  BY DEF Told
<1>4. Told' \subseteq Told \cup {name}
  BY <1>1, <1>2, <1>3
<1>5. Told \subseteq Told'
  BY <1>1, <1>2 DEF Told
<1>6. name \in Told'
  BY <1>1, <1>2
<1> QED
  BY <1>1, <1>4, <1>5, <1>6

\* A proposal is judged: the name has an event, or is kept, and nothing else changes.
LEMMA JudgedOne ==
    ASSUME DiscoveryIInv, JudgeName
    PROVE  /\ phase = "filter" /\ turn \in DOMAIN proposed /\ turn' = turn + 1
           /\ UNCHANGED <<phase, rawHits, proposed, lookups, resolved>>
           /\ \/ /\ valid' = valid /\ Told' = Told \cup {proposed[turn].name}
                 /\ rejections \subseteq rejections'
              \/ /\ rejections' = rejections /\ Told' = Told /\ IsNamed(proposed[turn].name)
                 /\ valid' \in Seq(ProposedName) /\ Kept' = Kept \cup {proposed[turn].name}
                 /\ \A i \in DOMAIN valid' : valid'[i] \in Kept \cup {proposed[turn].name}
<1>1. /\ phase = "filter" /\ turn <= Len(proposed) /\ turn' = turn + 1
      /\ UNCHANGED <<phase, rawHits, proposed, lookups, resolved>>
  BY DEF JudgeName
<1>2. turn \in DOMAIN proposed /\ proposed[turn] \in Proposal /\ valid \in Seq(ProposedName)
  BY <1>1 DEF DiscoveryIInv, DiscoveryTypeOK
<1>3. proposed[turn].name \in ProposedName
  BY <1>2 DEF ProposedName
<1>4. CASE VerdictOnName(proposed[turn], rawHits) # "ok"
  <2>1. valid' = valid /\ Reject(proposed[turn].name, VerdictOnName(proposed[turn], rawHits))
    BY <1>4 DEF JudgeName
  <2>2. Told' = Told \cup {proposed[turn].name} /\ rejections \subseteq rejections'
    BY <2>1, RejectedIsTold
  <2> QED
    BY <1>1, <1>2, <2>1, <2>2
<1>5. CASE VerdictOnName(proposed[turn], rawHits) = "ok"
  <2>1. /\ rejections' = rejections
        /\ valid' = IF \E i \in DOMAIN valid : valid[i] = proposed[turn].name
                    THEN valid ELSE Append(valid, proposed[turn].name)
    BY <1>5 DEF JudgeName
  <2>2. IsNamed(proposed[turn].name)
    BY <1>2, <1>5, SupportedIsNamed DEF DiscoveryIInv
  <2>3. /\ valid' \in Seq(ProposedName) /\ Kept' = Kept \cup {proposed[turn].name}
        /\ \A i \in DOMAIN valid' : valid'[i] \in Kept \cup {proposed[turn].name}
    <3>1. CASE \E i \in DOMAIN valid : valid[i] = proposed[turn].name
      BY <1>2, <2>1, <3>1 DEF Kept
    <3>2. CASE ~\E i \in DOMAIN valid : valid[i] = proposed[turn].name
      <4>1. valid' = Append(valid, proposed[turn].name)
        BY <2>1, <3>2
      <4>2. /\ valid' \in Seq(ProposedName) /\ DOMAIN valid = 1..Len(valid) /\ Len(valid) \in Nat
            /\ DOMAIN valid' = 1..(Len(valid) + 1) /\ valid'[Len(valid) + 1] = proposed[turn].name
            /\ \A i \in DOMAIN valid : valid'[i] = valid[i]
        BY <1>2, <1>3, <4>1, OneMore
      <4>3. \A i \in DOMAIN valid' : valid'[i] \in Kept \cup {proposed[turn].name}
        BY <4>2 DEF Kept
      <4>4. Kept \cup {proposed[turn].name} \subseteq Kept'
        BY <4>2 DEF Kept
      <4> QED
        BY <4>2, <4>3, <4>4 DEF Kept
    <3> QED
      BY <3>1, <3>2
  <2>4. Told' = Told
    BY <2>1 DEF Told
  <2> QED
    BY <1>1, <1>2, <2>1, <2>2, <2>3, <2>4
<1> QED
  BY <1>1, <1>4, <1>5

\* A domain was looked up: the name has an event, or is a company of a domain that was
\* served for it and that no other company has.
LEMMA LookedUpOne ==
    ASSUME DiscoveryIInv, ResolveName
    PROVE  /\ phase = "resolve" /\ turn \in DOMAIN valid /\ turn' = turn + 1
           /\ Len(resolved) < MaxCompanies /\ Len(lookups) < MaxResolutions
           /\ UNCHANGED <<phase, rawHits, proposed, valid>>
           /\ \E candidates \in Candidates :
                /\ lookups' = Append(lookups, [name |-> valid[turn], candidates |-> candidates])
                /\ \/ /\ resolved' = resolved /\ Told' = Told \cup {valid[turn]} /\ rejections \subseteq rejections'
                   \/ \E i \in DOMAIN candidates :
                        /\ resolved' = Append(resolved, [name |-> valid[turn], domain |-> candidates[i].url.domain])
                        /\ rejections' = rejections /\ Told' = Told
                        /\ candidates[i].url.safe /\ candidates[i].url.domain \notin {"none"} \cup Aggregator
                        /\ \A j \in DOMAIN resolved : resolved[j].domain # candidates[i].url.domain
<1>1. /\ phase = "resolve" /\ turn <= Len(valid) /\ turn' = turn + 1
      /\ Len(resolved) < MaxCompanies /\ Len(lookups) < MaxResolutions
      /\ UNCHANGED <<phase, rawHits, proposed, valid>>
  BY DEF ResolveName
<1>2. turn \in DOMAIN valid
  BY <1>1 DEF DiscoveryIInv, DiscoveryTypeOK
<1>3. PICK candidates, picked :
        /\ candidates \in Candidates
        /\ lookups' = Append(lookups, [name |-> valid[turn], candidates |-> candidates])
        /\ \/ /\ Selected(valid[turn], candidates, picked) = {}
              /\ Reject(valid[turn], Refusal(candidates)) /\ resolved' = resolved
           \/ \E i \in Selected(valid[turn], candidates, picked) :
                 IF \E j \in DOMAIN resolved : resolved[j].domain = candidates[i].url.domain
                 THEN Reject(valid[turn], "duplicate_domain") /\ resolved' = resolved
                 ELSE /\ resolved' = Append(resolved, [name |-> valid[turn], domain |-> candidates[i].url.domain])
                      /\ rejections' = rejections
  BY DEF ResolveName
<1>4. CASE resolved' = resolved /\ \E reason : Reject(valid[turn], reason)
  <2>1. Told' = Told \cup {valid[turn]} /\ rejections \subseteq rejections'
    BY <1>4, RejectedIsTold
  <2> QED
    BY <1>1, <1>2, <1>3, <1>4, <2>1
<1>5. ASSUME NEW i \in Selected(valid[turn], candidates, picked),
             ~\E j \in DOMAIN resolved : resolved[j].domain = candidates[i].url.domain,
             resolved' = Append(resolved, [name |-> valid[turn], domain |-> candidates[i].url.domain]),
             rejections' = rejections
      PROVE  \E k \in DOMAIN candidates :
                        /\ resolved' = Append(resolved, [name |-> valid[turn], domain |-> candidates[k].url.domain])
                        /\ rejections' = rejections /\ Told' = Told
                        /\ candidates[k].url.safe /\ candidates[k].url.domain \notin {"none"} \cup Aggregator
                        /\ \A j \in DOMAIN resolved : resolved[j].domain # candidates[k].url.domain
  <2>1. /\ i \in DOMAIN candidates /\ candidates[i].url.safe
        /\ candidates[i].url.domain \notin {"none"} \cup Aggregator
    BY SelectedIsSafe
  <2>2. Told' = Told
    BY <1>5 DEF Told
  <2> QED
    BY <1>5, <2>1, <2>2
<1> QED
  BY <1>1, <1>2, <1>3, <1>4, <1>5

\* While no domain was looked up, nothing is claimed of the companies.
LEMMA NothingIsSeeded ==
    ASSUME lookups = <<>>, resolved = <<>>, RefusalsAreReported
    PROVE  DiscoveryIsGrounded /\ ResolvedAreValid
<1>1. DOMAIN lookups = {} /\ DOMAIN resolved = {} /\ Len(resolved) = 0 /\ Len(lookups) = 0
  OBVIOUS
<1>2. 0 <= MaxCompanies /\ 0 <= MaxResolutions
  BY DiscoveryAssumption
<1> QED
  BY <1>1, <1>2 DEF DiscoveryIsGrounded, SeedsAreGrounded, ResolvedAreValid, Seeded

\* The beginning.
LEMMA DiscoveryBegins == DiscoveryInit => DiscoveryIInv
<1> SUFFICES ASSUME DiscoveryInit PROVE DiscoveryIInv
  OBVIOUS
<1>1. DiscoveryTypeOK /\ ByPhase
  BY DEF DiscoveryInit, DiscoveryTypeOK, ByPhase, NothingYet
<1>2. Told = {} /\ Kept = {}
  BY DEF DiscoveryInit, Told, Kept
<1>3. ToldWereProposed /\ ValidAreNamed /\ RefusalsAreReported
  BY <1>2 DEF DiscoveryInit, ToldWereProposed, ValidAreNamed, RefusalsAreReported
<1> QED
  BY <1>1, <1>3, NothingIsSeeded DEF DiscoveryIInv, DiscoveryInit

\* The same of the next state.
LEMMA NothingIsSeededNext ==
    ASSUME lookups' = <<>>, resolved' = <<>>, RefusalsAreReported'
    PROVE  DiscoveryIsGrounded' /\ ResolvedAreValid'
<1>1. DOMAIN lookups' = {} /\ DOMAIN resolved' = {} /\ Len(resolved') = 0 /\ Len(lookups') = 0
  OBVIOUS
<1>2. 0 <= MaxCompanies /\ 0 <= MaxResolutions
  BY DiscoveryAssumption
<1> QED
  BY <1>1, <1>2 DEF DiscoveryIsGrounded, SeedsAreGrounded, ResolvedAreValid, Seeded

\* The first search, and what it served.
LEMMA SearchKeepsIt == DiscoveryIInv /\ RawDiscover => DiscoveryIInv'
<1> SUFFICES ASSUME DiscoveryIInv, RawDiscover PROVE DiscoveryIInv'
  OBVIOUS
<1>1. /\ phase = "search" /\ phase' = IF rawHits' = {} THEN "done" ELSE "extract"
      /\ UNCHANGED <<proposed, valid, turn, lookups, resolved, rejections>>
  BY DEF RawDiscover
<1>2. NothingYet /\ lookups = <<>> /\ resolved = <<>>
  BY <1>1 DEF DiscoveryIInv, ByPhase
<1>3. phase' \in {"done", "extract"} /\ (phase' = "done" => rawHits' = {})
  BY <1>1
<1>4. DiscoveryTypeOK' /\ ByPhase'
  BY <1>1, <1>2, <1>3 DEF DiscoveryIInv, DiscoveryTypeOK, ByPhase, NothingYet
<1>5. ToldWereProposed' /\ ValidAreNamed' /\ RefusalsAreReported'
  BY <1>1, <1>2, <1>3 DEF NothingYet, ToldWereProposed, Told, ValidAreNamed, RefusalsAreReported
<1> QED
  BY <1>1, <1>2, <1>4, <1>5, NothingIsSeededNext DEF DiscoveryIInv

\* The model's answer, or none.
LEMMA ExtractKeepsIt == DiscoveryIInv /\ Extract => DiscoveryIInv'
<1> SUFFICES ASSUME DiscoveryIInv, Extract PROVE DiscoveryIInv'
  OBVIOUS
<1>1. phase = "extract" /\ UNCHANGED <<rawHits, valid, turn, lookups, resolved>>
  BY DEF Extract
<1>2. /\ valid = <<>> /\ turn = 1 /\ rejections = {} /\ proposed = <<>> /\ lookups = <<>> /\ resolved = <<>>
  BY <1>1 DEF DiscoveryIInv, ByPhase, NothingYet
<1>3. CASE proposed' \in Extraction /\ phase' = "filter" /\ rejections' = rejections
  <2>1. proposed' \in Seq(Proposal)
    BY <1>3, DiscoveryAssumption
  <2>2. DiscoveryTypeOK' /\ ByPhase'
    BY <1>1, <1>2, <1>3, <2>1 DEF DiscoveryIInv, DiscoveryTypeOK, ByPhase, JudgedAreKept
  <2>3. ToldWereProposed' /\ ValidAreNamed' /\ RefusalsAreReported'
    BY <1>1, <1>2, <1>3 DEF ToldWereProposed, Told, ValidAreNamed, RefusalsAreReported
  <2> QED
    BY <1>1, <1>2, <2>2, <2>3, NothingIsSeededNext DEF DiscoveryIInv
<1>4. CASE /\ rejections' = {<<"none", "discovery_extraction_unavailable">>} /\ phase' = "done"
           /\ proposed' = proposed
  <2>1. DiscoveryTypeOK' /\ ByPhase'
    BY <1>1, <1>2, <1>4 DEF DiscoveryIInv, DiscoveryTypeOK, ByPhase
  <2>2. ToldWereProposed' /\ ValidAreNamed' /\ RefusalsAreReported'
    BY <1>1, <1>2, <1>4 DEF ToldWereProposed, ValidAreNamed, RefusalsAreReported
  <2> QED
    BY <1>1, <1>2, <2>1, <2>2, NothingIsSeededNext DEF DiscoveryIInv
<1> QED
  BY <1>3, <1>4 DEF Extract

\* The judgement of a proposal.
LEMMA JudgementKeepsIt == DiscoveryIInv /\ JudgeName => DiscoveryIInv'
<1> SUFFICES ASSUME DiscoveryIInv, JudgeName PROVE DiscoveryIInv'
  OBVIOUS
<1> DEFINE name == proposed[turn].name
<1>1. /\ phase = "filter" /\ turn \in DOMAIN proposed /\ turn' = turn + 1
      /\ UNCHANGED <<phase, rawHits, proposed, lookups, resolved>>
  BY JudgedOne
<1>2. /\ lookups = <<>> /\ resolved = <<>> /\ JudgedAreKept /\ DiscoveryTypeOK /\ ToldWereProposed /\ ValidAreNamed
  BY <1>1 DEF DiscoveryIInv, ByPhase
<1>3. name \in Proposed /\ Proposed' = Proposed /\ \A n : IsNamed(n) <=> IsNamed(n)'
  BY <1>1 DEF Proposed, IsNamed
<1>4. /\ Told \subseteq Told' /\ Kept \subseteq Kept' /\ Told' \subseteq Told \cup {name} /\ name \in Told' \cup Kept'
      /\ rejections \subseteq rejections' /\ valid' \in Seq(ProposedName) /\ ValidAreNamed'
  <2>1. CASE valid' = valid /\ Told' = Told \cup {name} /\ rejections \subseteq rejections'
    BY <1>2, <1>3, <2>1 DEF Kept, DiscoveryTypeOK, ValidAreNamed
  <2>2. CASE /\ rejections' = rejections /\ Told' = Told /\ IsNamed(name)
             /\ valid' \in Seq(ProposedName) /\ Kept' = Kept \cup {name}
             /\ \A i \in DOMAIN valid' : valid'[i] \in Kept \cup {name}
    <3>1. \A n \in Kept : IsNamed(n)
      BY <1>2 DEF Kept, ValidAreNamed
    <3>2. ValidAreNamed'
      BY <1>3, <2>2, <3>1 DEF ValidAreNamed
    <3> QED
      BY <2>2, <3>2
  <2> QED
    BY <2>1, <2>2, JudgedOne
<1>5. DiscoveryTypeOK'
  BY <1>1, <1>2, <1>4 DEF DiscoveryTypeOK
<1>6. JudgedAreKept'
  <2>1. turn \in Nat /\ DOMAIN proposed \subseteq Nat
    BY <1>2 DEF DiscoveryTypeOK
  <2>2. \A k \in DOMAIN proposed : k < turn + 1 => k < turn \/ k = turn
    BY <2>1
  <2> QED
    BY <1>1, <1>2, <1>4, <2>2 DEF JudgedAreKept
<1>7. ByPhase'
  BY <1>1, <1>2, <1>6 DEF ByPhase
<1>8. ToldWereProposed' /\ RefusalsAreReported'
  BY <1>1, <1>2, <1>3, <1>4 DEF ToldWereProposed, RefusalsAreReported
<1> QED
  BY <1>1, <1>2, <1>4, <1>5, <1>7, <1>8, NothingIsSeededNext DEF DiscoveryIInv

\* The end of the filter.
LEMMA FilterEndsWell == DiscoveryIInv /\ EndFilter => DiscoveryIInv'
<1> SUFFICES ASSUME DiscoveryIInv, EndFilter PROVE DiscoveryIInv'
  OBVIOUS
<1>1. /\ phase = "filter" /\ turn > Len(proposed) /\ phase' = "resolve" /\ turn' = 1
      /\ UNCHANGED <<rawHits, proposed, valid, lookups, resolved, rejections>>
  BY DEF EndFilter
<1>2. /\ lookups = <<>> /\ resolved = <<>> /\ JudgedAreKept /\ DiscoveryTypeOK /\ ToldWereProposed /\ ValidAreNamed
  BY <1>1 DEF DiscoveryIInv, ByPhase
<1>3. Proposed' = Proposed /\ Told' = Told /\ Kept' = Kept /\ \A n : IsNamed(n) <=> IsNamed(n)'
  BY <1>1 DEF Proposed, Told, Kept, IsNamed
<1>4. Proposed \subseteq Told \cup Kept
  <2>1. \A k \in DOMAIN proposed : k < turn
    BY <1>1, <1>2 DEF DiscoveryTypeOK
  <2> QED
    BY <1>2, <2>1 DEF JudgedAreKept, Proposed
<1>5. LookedUpAreKept'
  <2>1. \A i \in DOMAIN valid : ~(i < 1)
    BY <1>2 DEF DiscoveryTypeOK
  <2> QED
    BY <1>1, <2>1 DEF LookedUpAreKept
<1>6. DiscoveryTypeOK' /\ ByPhase'
  BY <1>1, <1>2, <1>3, <1>4, <1>5 DEF DiscoveryTypeOK, ByPhase
<1>7. ToldWereProposed' /\ ValidAreNamed' /\ RefusalsAreReported'
  BY <1>1, <1>2, <1>3 DEF ToldWereProposed, ValidAreNamed, RefusalsAreReported
<1> QED
  BY <1>1, <1>2, <1>6, <1>7, NothingIsSeededNext DEF DiscoveryIInv

\* What a domain search changes keeps every company of the run grounded.
LEMMA ResolutionKeepsSeeds ==
    ASSUME DiscoveryIInv, ResolveName
    PROVE  SeedsAreGrounded'
<1>1. /\ turn \in DOMAIN valid /\ Len(resolved) < MaxCompanies /\ Len(lookups) < MaxResolutions
      /\ UNCHANGED <<rawHits, proposed, valid>>
  BY LookedUpOne
<1>2. PICK candidates \in Candidates :
        /\ lookups' = Append(lookups, [name |-> valid[turn], candidates |-> candidates])
        /\ \/ resolved' = resolved
           \/ \E i \in DOMAIN candidates :
                /\ resolved' = Append(resolved, [name |-> valid[turn], domain |-> candidates[i].url.domain])
                /\ candidates[i].url.safe /\ candidates[i].url.domain \notin {"none"} \cup Aggregator
                /\ \A j \in DOMAIN resolved : resolved[j].domain # candidates[i].url.domain
  BY LookedUpOne
<1> DEFINE lookup == [name |-> valid[turn], candidates |-> candidates]
<1>3. DiscoveryTypeOK /\ SeedsAreGrounded /\ ValidAreNamed /\ MaxCompanies \in Nat /\ MaxResolutions \in Nat
  BY DiscoveryAssumption DEF DiscoveryIInv, DiscoveryIsGrounded
<1>4. valid[turn] \in ProposedName /\ IsNamed(valid[turn])
  BY <1>1, <1>3 DEF DiscoveryTypeOK, ValidAreNamed
<1>5. lookup \in [name : ProposedName, candidates : Candidates]
  BY <1>4
<1>6. /\ Len(lookups') = Len(lookups) + 1 /\ DOMAIN lookups = 1..Len(lookups) /\ Len(lookups) \in Nat
      /\ DOMAIN lookups' = 1..(Len(lookups) + 1) /\ lookups'[Len(lookups) + 1] = lookup
      /\ \A l \in DOMAIN lookups : lookups'[l] = lookups[l]
  BY <1>2, <1>3, <1>5, OneMore DEF DiscoveryTypeOK
<1>7. \A n : IsNamed(n) => IsNamed(n)'
  BY <1>1 DEF IsNamed
<1>8. \A seed : IsServed(seed) => IsServed(seed)'
  <2> SUFFICES ASSUME NEW seed, NEW l \in DOMAIN lookups, lookups[l].name = seed.name,
                      NEW i \in DOMAIN lookups[l].candidates,
                      lookups[l].candidates[i].url.safe, lookups[l].candidates[i].url.domain = seed.domain,
                      seed.domain \notin {"none"} \cup Aggregator
               PROVE  IsServed(seed)'
    BY DEF IsServed
  <2>1. l \in DOMAIN lookups' /\ lookups'[l] = lookups[l]
    BY <1>6
  <2> QED
    BY <2>1 DEF IsServed
<1>9. Len(lookups') <= MaxResolutions
  BY <1>1, <1>3, <1>6
<1>10. CASE resolved' = resolved
  <2>1. \A i \in DOMAIN resolved : Dedupe(resolved')[i] = Dedupe(resolved)[i]
    BY <1>10
  <2> QED
    BY <1>3, <1>7, <1>8, <1>9, <1>10, <2>1 DEF SeedsAreGrounded
<1>11. ASSUME NEW i \in DOMAIN candidates,
              resolved' = Append(resolved, [name |-> valid[turn], domain |-> candidates[i].url.domain]),
              candidates[i].url.safe, candidates[i].url.domain \notin {"none"} \cup Aggregator,
              \A j \in DOMAIN resolved : resolved[j].domain # candidates[i].url.domain
       PROVE  SeedsAreGrounded'
  <2> PICK seed : seed = [name |-> valid[turn], domain |-> candidates[i].url.domain]
    OBVIOUS
  <2>1. seed \in [name : ProposedName, domain : {c.url.domain : c \in Candidate}]
    BY <1>4, <1>11, DiscoveryAssumption
  <2>2. /\ Len(resolved') = Len(resolved) + 1 /\ DOMAIN resolved = 1..Len(resolved) /\ Len(resolved) \in Nat
        /\ DOMAIN resolved' = 1..(Len(resolved) + 1) /\ resolved'[Len(resolved) + 1] = seed
        /\ \A j \in DOMAIN resolved : resolved'[j] = resolved[j]
    BY <1>3, <1>11, <2>1, OneMore DEF DiscoveryTypeOK
  <2>3. IsServed(seed)'
    <3>1. /\ Len(lookups) + 1 \in DOMAIN lookups' /\ lookups'[Len(lookups) + 1].name = seed.name
          /\ lookups'[Len(lookups) + 1].candidates = candidates
      BY <1>6
    <3> QED
      BY <1>11, <3>1 DEF IsServed
  <2>4. IsNamed(seed.name)'
    <3>1. IsNamed(seed.name)
      BY <1>4
    <3> QED
      BY <1>7, <3>1
  <2>5. \A j \in DOMAIN resolved' : j \in DOMAIN resolved \/ j = Len(resolved) + 1
    BY <2>2
  <2>6. ASSUME NEW one, NEW j \in DOMAIN resolved', one = resolved'[j]
        PROVE  IsNamed(one.name)' /\ IsServed(one)'
    <3>1. CASE j = Len(resolved) + 1
      BY <2>2, <2>3, <2>4, <2>6, <3>1
    <3>2. CASE j \in DOMAIN resolved
      <4>1. one = resolved[j]
        BY <2>2, <2>6, <3>2
      <4>2. IsNamed(one.name) /\ IsServed(one)
        BY <1>3, <3>2, <4>1 DEF SeedsAreGrounded
      <4> QED
        BY <1>7, <1>8, <4>2
    <3> QED
      BY <2>5, <3>1, <3>2
  <2>7. \A j, k \in DOMAIN resolved' : resolved'[j].domain = resolved'[k].domain => j = k
    BY <1>3, <1>11, <2>2, <2>5 DEF SeedsAreGrounded
  <2>8. \A j \in DOMAIN resolved' : resolved'[j].domain # "none"
    <3> SUFFICES ASSUME NEW one, NEW j \in DOMAIN resolved', one = resolved'[j] PROVE one.domain # "none"
      OBVIOUS
    <3> QED
      BY <2>6 DEF IsServed
  <2>9. \A j \in DOMAIN resolved' : ~Dedupe(resolved')[j]
    <3>1. Len(resolved) + 1 \in Nat
      BY <2>2
    <3> QED
      BY <2>2, <2>7, <2>8, <3>1, NoDuplicates
  <2>10. Len(resolved') <= MaxCompanies
    BY <1>1, <1>3, <2>2
  <2>11. (\A j \in DOMAIN resolved : IsNamed(resolved[j].name) /\ IsServed(resolved[j]))'
    BY <2>6
  <2> QED
    BY <1>9, <2>7, <2>9, <2>10, <2>11 DEF SeedsAreGrounded
<1> QED
  BY <1>2, <1>10, <1>11

\* A domain search keeps everything else as well.
LEMMA ResolutionKeepsIt == DiscoveryIInv /\ ResolveName => DiscoveryIInv'
<1> SUFFICES ASSUME DiscoveryIInv, ResolveName PROVE DiscoveryIInv'
  OBVIOUS
<1>1. /\ phase = "resolve" /\ turn \in DOMAIN valid /\ turn' = turn + 1
      /\ UNCHANGED <<phase, rawHits, proposed, valid>>
  BY LookedUpOne
<1>2. PICK candidates \in Candidates :
        /\ lookups' = Append(lookups, [name |-> valid[turn], candidates |-> candidates])
        /\ \/ /\ resolved' = resolved /\ Told' = Told \cup {valid[turn]} /\ rejections \subseteq rejections'
           \/ /\ rejections' = rejections /\ Told' = Told
              /\ \E i \in DOMAIN candidates :
                   resolved' = Append(resolved, [name |-> valid[turn], domain |-> candidates[i].url.domain])
  BY LookedUpOne
<1> DEFINE lookup == [name |-> valid[turn], candidates |-> candidates]
<1>3. /\ DiscoveryTypeOK /\ ValidAreNamed /\ ResolvedAreValid /\ ToldWereProposed
      /\ Proposed \subseteq Told \cup Kept /\ LookedUpAreKept
  BY <1>1 DEF DiscoveryIInv, ByPhase
<1>4. valid[turn] \in ProposedName /\ valid[turn] \in Kept /\ valid[turn] \in Proposed
  BY <1>1, <1>3 DEF DiscoveryTypeOK, ValidAreNamed, IsNamed, Kept, Proposed
<1>5. lookup \in [name : ProposedName, candidates : Candidates]
  BY <1>4
<1>6. /\ lookups' \in Seq([name : ProposedName, candidates : Candidates])
      /\ DOMAIN lookups = 1..Len(lookups) /\ Len(lookups) \in Nat
      /\ DOMAIN lookups' = 1..(Len(lookups) + 1) /\ lookups'[Len(lookups) + 1] = lookup
      /\ \A l \in DOMAIN lookups : lookups'[l] = lookups[l]
  BY <1>2, <1>3, <1>5, OneMore DEF DiscoveryTypeOK
<1>7. Proposed' = Proposed /\ Kept' = Kept /\ \A n : IsNamed(n) <=> IsNamed(n)'
  BY <1>1 DEF Proposed, Kept, IsNamed
<1>8. /\ resolved' \in Seq([name : ProposedName, domain : {c.url.domain : c \in Candidate}])
      /\ Told \subseteq Told' /\ Told' \subseteq Told \cup {valid[turn]} /\ rejections \subseteq rejections'
      /\ Seeded \subseteq Seeded' /\ Seeded' \subseteq Seeded \cup {valid[turn]} /\ valid[turn] \in Told' \cup Seeded'
  <2>1. CASE resolved' = resolved /\ Told' = Told \cup {valid[turn]} /\ rejections \subseteq rejections'
    BY <1>3, <2>1 DEF DiscoveryTypeOK, Seeded
  <2>2. ASSUME NEW i \in DOMAIN candidates, rejections' = rejections, Told' = Told,
               resolved' = Append(resolved, [name |-> valid[turn], domain |-> candidates[i].url.domain])
        PROVE  /\ resolved' \in Seq([name : ProposedName, domain : {c.url.domain : c \in Candidate}])
               /\ Seeded \subseteq Seeded' /\ Seeded' \subseteq Seeded \cup {valid[turn]} /\ valid[turn] \in Seeded'
    <3> DEFINE seed == [name |-> valid[turn], domain |-> candidates[i].url.domain]
    <3>1. seed \in [name : ProposedName, domain : {c.url.domain : c \in Candidate}]
      BY <1>4, DiscoveryAssumption
    <3>2. /\ resolved' \in Seq([name : ProposedName, domain : {c.url.domain : c \in Candidate}])
          /\ DOMAIN resolved = 1..Len(resolved) /\ Len(resolved) \in Nat
          /\ DOMAIN resolved' = 1..(Len(resolved) + 1) /\ resolved'[Len(resolved) + 1] = seed
          /\ \A j \in DOMAIN resolved : resolved'[j] = resolved[j]
      BY <1>3, <2>2, <3>1, OneMore DEF DiscoveryTypeOK
    <3>3. Seeded \subseteq Seeded'
      BY <3>2 DEF Seeded
    <3>4. Seeded' \subseteq Seeded \cup {valid[turn]}
      BY <3>2 DEF Seeded
    <3>5. valid[turn] \in Seeded'
      BY <3>2 DEF Seeded
    <3> QED
      BY <3>2, <3>3, <3>4, <3>5
  <2> QED
    BY <1>2, <2>1, <2>2
<1>9. DiscoveryTypeOK'
  BY <1>1, <1>3, <1>6, <1>8 DEF DiscoveryTypeOK
<1>10. LookedUpAreKept'
  <2>1. \A i \in DOMAIN valid : i < turn + 1 => i < turn \/ i = turn
    BY <1>3 DEF DiscoveryTypeOK
  <2> QED
    BY <1>1, <1>3, <1>8, <2>1 DEF LookedUpAreKept
<1>11. ByPhase'
  BY <1>1, <1>3, <1>7, <1>8, <1>10 DEF ByPhase
<1>12. ToldWereProposed' /\ ValidAreNamed' /\ ResolvedAreValid' /\ RefusalsAreReported'
  BY <1>1, <1>3, <1>4, <1>7, <1>8 DEF ToldWereProposed, ValidAreNamed, ResolvedAreValid, RefusalsAreReported
<1>13. \A l \in DOMAIN lookups' : \A i \in DOMAIN lookups'[l].candidates :
           DiagnosisAgrees(lookups'[l].candidates[i].url, ServedDomains(lookups'[l].candidates))
  <2> SUFFICES ASSUME NEW l \in DOMAIN lookups', NEW i \in DOMAIN lookups'[l].candidates
               PROVE  lookups'[l].candidates[i].url.safe \in BOOLEAN
    BY DiagnosisAlwaysAgrees
  <2>1. lookups'[l] \in [name : ProposedName, candidates : Candidates]
    <3>1. \A S : lookups' \in Seq(S) => lookups'[l] \in S
      BY ElementOfSeq
    <3> QED
      BY <1>6, <3>1
  <2>2. lookups'[l].candidates \in Seq(Candidate)
    BY <2>1, DiscoveryAssumption
  <2> QED
    BY <2>2, DiscoveryAssumption
<1> QED
  BY <1>9, <1>11, <1>12, <1>13, ResolutionKeepsSeeds DEF DiscoveryIInv, DiscoveryIsGrounded

\* The end, at a cap or because everybody had a turn.
LEMMA DiscoveryEndsWell == DiscoveryIInv /\ (RunOutOfQueries \/ EndDiscovery) => DiscoveryIInv'
<1> SUFFICES ASSUME DiscoveryIInv, RunOutOfQueries \/ EndDiscovery PROVE DiscoveryIInv'
  OBVIOUS
<1>1. /\ phase = "resolve" /\ phase' = "done"
      /\ UNCHANGED <<rawHits, proposed, valid, turn, lookups, resolved>>
  BY DEF RunOutOfQueries, EndDiscovery
<1>2. /\ DiscoveryTypeOK /\ SeedsAreGrounded /\ ToldWereProposed /\ ValidAreNamed /\ ResolvedAreValid
      /\ MaxCompanies \in Nat /\ MaxResolutions \in Nat
  BY DiscoveryAssumption DEF DiscoveryIInv, DiscoveryIsGrounded
<1>3. /\ Proposed' = Proposed /\ Kept' = Kept /\ Seeded' = Seeded /\ Waiting' = Waiting
      /\ \A n : IsNamed(n) <=> IsNamed(n)'
      /\ \A n : IsServed(n) <=> IsServed(n)'
  BY <1>1 DEF Proposed, Kept, Seeded, Waiting, IsNamed, IsServed
<1>4. /\ Told \subseteq Told' /\ Told' \subseteq Told \cup Waiting /\ rejections \subseteq rejections'
      /\ Waiting # {} => Len(resolved) = MaxCompanies \/ Len(lookups) = MaxResolutions
  <2>1. CASE RunOutOfQueries
    <3>1. turn \in turn..Len(valid)
      BY <1>2, <2>1 DEF RunOutOfQueries, DiscoveryTypeOK
    <3>2. valid[turn] \in Waiting
      BY <3>1 DEF Waiting
    <3>3. Told' = Told \cup {valid[turn]} /\ rejections \subseteq rejections'
      BY <2>1, RejectedIsTold DEF RunOutOfQueries
    <3>4. Len(lookups) = MaxResolutions
      BY <1>2, <2>1 DEF RunOutOfQueries, SeedsAreGrounded, DiscoveryTypeOK
    <3> QED
      BY <3>2, <3>3, <3>4
  <2>2. CASE EndDiscovery
    <3>1. Told' = Told /\ rejections' = rejections
      BY <2>2 DEF EndDiscovery, Told
    <3>2. CASE turn > Len(valid)
      <4>1. turn..Len(valid) = {}
        BY <1>2, <3>2 DEF DiscoveryTypeOK
      <4> QED
        BY <3>1, <4>1 DEF Waiting
    <3>3. CASE ~(Len(resolved) < MaxCompanies)
      <4>1. Len(resolved) = MaxCompanies
        BY <1>2, <3>3 DEF SeedsAreGrounded, DiscoveryTypeOK
      <4> QED
        BY <3>1, <4>1
    <3> QED
      BY <2>2, <3>2, <3>3 DEF EndDiscovery
  <2> QED
    BY <2>1, <2>2
<1>5. <<"none", "discovery_extraction_unavailable">> \in rejections'
        \/ Proposed = Told' \cup Seeded \cup Waiting
  <2> SUFFICES ASSUME <<"none", "discovery_extraction_unavailable">> \notin rejections'
               PROVE  Proposed = Told' \cup Seeded \cup Waiting
    OBVIOUS
  <2>1. Proposed = Told \cup Seeded \cup Waiting
    BY <1>1, <1>4, NamesAreAccountedFor
  <2> QED
    BY <1>4, <2>1
<1>6. RefusalsAreReported'
  BY <1>1, <1>3, <1>4, <1>5 DEF RefusalsAreReported
<1>7. DiscoveryTypeOK' /\ ByPhase'
  BY <1>1, <1>2 DEF DiscoveryTypeOK, ByPhase
<1>8. ToldWereProposed'
  <2> SUFFICES ASSUME <<"none", "discovery_extraction_unavailable">> \notin rejections' PROVE Told' \subseteq Proposed
    BY <1>3 DEF ToldWereProposed
  <2> QED
    BY <1>5
<1>9. ValidAreNamed' /\ ResolvedAreValid'
  BY <1>1, <1>2, <1>3 DEF ValidAreNamed, ResolvedAreValid
<1>10. SeedsAreGrounded'
  <2>1. Dedupe(resolved') = Dedupe(resolved)
    BY <1>1
  <2> QED
    BY <1>1, <1>2, <1>3, <2>1 DEF SeedsAreGrounded
<1>11. \A l \in DOMAIN lookups' : \A i \in DOMAIN lookups'[l].candidates :
           DiagnosisAgrees(lookups'[l].candidates[i].url, ServedDomains(lookups'[l].candidates))
  BY <1>1 DEF DiscoveryIInv, DiscoveryIsGrounded
<1> QED
  BY <1>6, <1>7, <1>8, <1>9, <1>10, <1>11 DEF DiscoveryIInv, DiscoveryIsGrounded

\* A step of none of these changes nothing.
LEMMA RestKeepsIt == DiscoveryIInv /\ UNCHANGED discoveryVars => DiscoveryIInv'
<1> SUFFICES ASSUME DiscoveryIInv, UNCHANGED discoveryVars PROVE DiscoveryIInv'
  OBVIOUS
<1>1. UNCHANGED <<phase, rawHits, proposed, valid, turn, lookups, resolved, rejections>>
  BY DEF discoveryVars
<1>2. /\ Proposed' = Proposed /\ Told' = Told /\ Kept' = Kept /\ Seeded' = Seeded /\ Waiting' = Waiting
      /\ \A n : IsNamed(n) <=> IsNamed(n)'
      /\ \A n : IsServed(n) <=> IsServed(n)'
  BY <1>1 DEF Proposed, Told, Kept, Seeded, Waiting, IsNamed, IsServed
<1>3. DiscoveryTypeOK' /\ ByPhase'
  BY <1>1, <1>2 DEF DiscoveryIInv, DiscoveryTypeOK, ByPhase, NothingYet, JudgedAreKept, LookedUpAreKept
<1>4. ToldWereProposed' /\ ValidAreNamed' /\ ResolvedAreValid' /\ RefusalsAreReported'
  BY <1>1, <1>2 DEF DiscoveryIInv, ToldWereProposed, ValidAreNamed, ResolvedAreValid, DiscoveryIsGrounded, RefusalsAreReported
<1>5. SeedsAreGrounded'
  <2>1. Dedupe(resolved') = Dedupe(resolved)
    BY <1>1
  <2> QED
    BY <1>1, <1>2, <2>1 DEF DiscoveryIInv, DiscoveryIsGrounded, SeedsAreGrounded
<1>6. \A l \in DOMAIN lookups' : \A i \in DOMAIN lookups'[l].candidates :
           DiagnosisAgrees(lookups'[l].candidates[i].url, ServedDomains(lookups'[l].candidates))
  BY <1>1 DEF DiscoveryIInv, DiscoveryIsGrounded
<1> QED
  BY <1>3, <1>4, <1>5, <1>6 DEF DiscoveryIInv, DiscoveryIsGrounded

\* A company is never the model's word: it was named by a text that was served, on a
\* domain that was served for it, and is no duplicate; a name that is refused is told
\* of, with the diagnosis of the gate that refused it.  For any answers, proposals,
\* candidates and caps.
THEOREM DiscoveryIsGroundedHolds == DiscoverySpec => []DiscoveryIsGrounded
<1>1. DiscoveryInit => DiscoveryIInv
  BY DiscoveryBegins
<1>2. DiscoveryIInv /\ [DiscoveryNext]_discoveryVars => DiscoveryIInv'
  <2> SUFFICES ASSUME DiscoveryIInv, [DiscoveryNext]_discoveryVars PROVE DiscoveryIInv'
    OBVIOUS
  <2>1. CASE RawDiscover
    BY <2>1, SearchKeepsIt
  <2>2. CASE Extract
    BY <2>2, ExtractKeepsIt
  <2>3. CASE JudgeName
    BY <2>3, JudgementKeepsIt
  <2>4. CASE EndFilter
    BY <2>4, FilterEndsWell
  <2>5. CASE ResolveName
    BY <2>5, ResolutionKeepsIt
  <2>6. CASE RunOutOfQueries \/ EndDiscovery
    BY <2>6, DiscoveryEndsWell
  <2>7. CASE UNCHANGED discoveryVars
    BY <2>7, RestKeepsIt
  <2> QED
    BY <2>1, <2>2, <2>3, <2>4, <2>5, <2>6, <2>7 DEF DiscoveryNext
<1>3. DiscoveryIInv => DiscoveryIsGrounded
  BY DEF DiscoveryIInv
<1> QED
  BY <1>1, <1>2, <1>3, PTL DEF DiscoverySpec

-----------------------------------------------------------------------------
(* Verdicts: grounding leaves of the facts what it would leave had those that *)
(* are not borne out never been said; what is computed from what it leaves is  *)
(* then the same, since every reader asks for evidence.  Lists are compared    *)
(* position by position.                                                      *)

\* What a reader who asks for evidence learns of a fact, ...
Known(fact) == IF fact.ids = <<>> THEN Unsaid ELSE fact

\* ... and of all of them.
Established(facts) ==
    [ industry |-> Known(facts.industry),   count   |-> Known(facts.count),
      funding  |-> Grounded(facts.funding), hiring  |-> Grounded(facts.hiring),
      tech     |-> Grounded(facts.tech),    leaders |-> Grounded(facts.leaders) ]

\* Grounding makes nothing of what was not said: no source is called "none".
LEMMA UnsaidStaysUnsaid ==
    ASSUME NEW evidence, "none" \notin DOMAIN evidence
    PROVE  Cite(Unsaid, evidence) = Unsaid /\ ~Backed(Unsaid, evidence) /\ Unsaid.ids = <<>>
BY DEF Cite, Unsaid, Backed

\* A fact that is cited and borne out has an id, one that is demoted has none.
LEMMA CitedIds ==
    ASSUME NEW f, NEW evidence, NEW R, f = [x \in R |-> f[x]], "ids" \in R
    PROVE  /\ Demote(Cite(f, evidence)).ids = <<>>
           /\ Backed(Cite(f, evidence), evidence) => Cite(f, evidence).ids # <<>>
BY DEF Cite, Demote, Backed

\* A fact keeps its ids exactly if its own evidence bears it out.
LEMMA ItemKeepsIds ==
    ASSUME NEW f, NEW evidence, NEW R, f = [x \in R |-> f[x]], "ids" \in R
    PROVE  GroundItem(f, evidence).ids # <<>> <=> Backed(Cite(f, evidence), evidence)
BY CitedIds DEF GroundItem

\* So does a round, whatever becomes of its date.
LEMMA FundingKeepsIds ==
    ASSUME NEW f, NEW evidence, NEW R, f = [x \in R |-> f[x]], "ids" \in R, "age" \in R
    PROVE  GroundFunding(f, evidence).ids # <<>> <=> Backed(Cite(f, evidence), evidence)
<1>1. GroundItem(f, evidence) = [x \in R |-> GroundItem(f, evidence)[x]]
  BY DEF GroundItem, Cite, Demote
<1>2. [GroundItem(f, evidence) EXCEPT !.age = -1].ids = GroundItem(f, evidence).ids
  BY <1>1
<1> QED
  BY <1>2, ItemKeepsIds DEF GroundFunding

\* An industry that is not borne out is as good as unsaid.
LEMMA IndustryIsKnown ==
    ASSUME NEW f, NEW evidence, NEW spec, NEW R, f = [x \in R |-> f[x]], {"ids", "category"} \subseteq R,
           "none" \notin DOMAIN evidence
    PROVE  Known(GroundIndustry(f, evidence, spec)) =
               Known(GroundIndustry(IF Backed(Cite(f, evidence), evidence) THEN f ELSE Unsaid, evidence, spec))
<1>1. CASE Backed(Cite(f, evidence), evidence)
  BY <1>1
<1>2. CASE ~Backed(Cite(f, evidence), evidence)
  <2>1. Demote(Cite(f, evidence)) = [x \in R |-> Demote(Cite(f, evidence))[x]] /\ Demote(Cite(f, evidence)).ids = <<>>
    BY CitedIds DEF Demote, Cite
  <2>2. GroundIndustry(f, evidence, spec).ids = <<>>
    BY <1>2, <2>1 DEF GroundIndustry
  <2>3. GroundIndustry(Unsaid, evidence, spec).ids = <<>>
    BY UnsaidStaysUnsaid DEF GroundIndustry, Demote, Unsaid
  <2> QED
    BY <1>2, <2>2, <2>3 DEF Known
<1> QED
  BY <1>1, <1>2

\* So is a head count that is not.
LEMMA CountIsKnown ==
    ASSUME NEW f, NEW evidence, NEW R, f = [x \in R |-> f[x]], {"ids", "count"} \subseteq R,
           "none" \notin DOMAIN evidence
    PROVE  Known(GroundCount(f, evidence)) =
               Known(GroundCount(IF GroundCount(f, evidence).ids # <<>> THEN f ELSE Unsaid, evidence))
<1>1. GroundCount(Unsaid, evidence).ids = <<>>
  BY UnsaidStaysUnsaid DEF GroundCount, Demote, Unsaid
<1> QED
  BY <1>1 DEF Known

\* The facts of a list that keep their evidence are those that are borne out.
LEMMA ItemsAreGrounded ==
    ASSUME NEW list, NEW evidence, NEW R, "ids" \in R,
           \A i \in DOMAIN list : list[i] = [x \in R |-> list[i][x]]
    PROVE  Grounded(GroundItems(Restrict(list, {i \in DOMAIN list : Backed(Cite(list[i], evidence), evidence)}), evidence))
               = Grounded(GroundItems(list, evidence))
<1>1. \A i \in DOMAIN list : GroundItem(list[i], evidence).ids # <<>> <=> Backed(Cite(list[i], evidence), evidence)
  BY ItemKeepsIds
<1> QED
  BY <1>1 DEF Grounded, Restrict, GroundItems

\* So with rounds.
LEMMA FundingIsGrounded ==
    ASSUME NEW list, NEW evidence, NEW R, "ids" \in R, "age" \in R,
           \A i \in DOMAIN list : list[i] = [x \in R |-> list[i][x]]
    PROVE  Grounded(GroundRounds(Restrict(list, {i \in DOMAIN list : Backed(Cite(list[i], evidence), evidence)}), evidence))
               = Grounded(GroundRounds(list, evidence))
<1>1. \A i \in DOMAIN list : GroundFunding(list[i], evidence).ids # <<>> <=> Backed(Cite(list[i], evidence), evidence)
  BY FundingKeepsIds
<1> QED
  BY <1>1 DEF Grounded, Restrict, GroundRounds

\* Every fact is a record of its fields, alone and in a list.
LEMMA ProfilesAreRecords ==
    /\ \A f \in IndustryProfileFact : f = [x \in {"ref", "ids", "claim", "category"} |-> f[x]]
    /\ \A f \in EmployeeCountProfileFact : f = [x \in {"ref", "ids", "claim", "count"} |-> f[x]]
<1>1. \A f \in IndustryProfileFact : f = [x \in {"ref", "ids", "claim", "category"} |-> f[x]]
  BY DEF IndustryProfileFact
<1>2. \A f \in EmployeeCountProfileFact : f = [x \in {"ref", "ids", "claim", "count"} |-> f[x]]
  BY DEF EmployeeCountProfileFact
<1> QED
  BY <1>1, <1>2

\* As is a round.
LEMMA FundingsAreRecords ==
    ASSUME NEW list \in Seq(FundingEvent), NEW i \in DOMAIN list
    PROVE  list[i] = [x \in {"ref", "ids", "claim", "stage", "age"} |-> list[i][x]]
<1>1. list[i] \in FundingEvent
  OBVIOUS
<1> QED
  BY <1>1 DEF FundingEvent

\* As is a role.
LEMMA RolesAreRecords ==
    ASSUME NEW list \in Seq(HiringRole), NEW i \in DOMAIN list
    PROVE  list[i] = [x \in {"ref", "ids", "claim", "gtm", "age"} |-> list[i][x]]
<1>1. list[i] \in HiringRole
  OBVIOUS
<1> QED
  BY <1>1 DEF HiringRole

\* As is the mention of a technology.
LEMMA MentionsAreRecords ==
    ASSUME NEW list \in Seq(TechMention), NEW i \in DOMAIN list
    PROVE  list[i] = [x \in {"ref", "ids", "claim", "name"} |-> list[i][x]]
<1>1. list[i] \in TechMention
  OBVIOUS
<1> QED
  BY <1>1 DEF TechMention

\* As is a candidate.
LEMMA CandidatesAreRecords ==
    ASSUME NEW list \in Seq(LeadershipCandidate), NEW i \in DOMAIN list
    PROVE  list[i] = [x \in {"ref", "ids", "claim", "title", "name"} |-> list[i][x]]
<1>1. list[i] \in LeadershipCandidate
  OBVIOUS
<1> QED
  BY <1>1 DEF LeadershipCandidate

\* What remains of the facts is the same whether or not those that are not borne out
\* were there to begin with.
LEMMA EstablishedAlike ==
    ASSUME NEW case, IsCase(case)
    PROVE  Established(Ground(Stripped(case).facts, case.evidence, case.spec))
               = Established(Ground(case.facts, case.evidence, case.spec))
<1> DEFINE facts == case.facts
           kept == Stripped(case).facts
           evidence == case.evidence
           borne(f) == Backed(Cite(f, evidence), evidence)
<1>1. facts \in ResearchFacts /\ "none" \notin DOMAIN evidence
  BY DEF IsCase
<1>2. kept = [ industry |-> IF borne(facts.industry) THEN facts.industry ELSE Unsaid,
               count    |-> IF GroundCount(facts.count, evidence).ids # <<>> THEN facts.count ELSE Unsaid,
               funding  |-> Restrict(facts.funding, {i \in DOMAIN facts.funding : borne(facts.funding[i])}),
               hiring   |-> Restrict(facts.hiring, {i \in DOMAIN facts.hiring : borne(facts.hiring[i])}),
               tech     |-> Restrict(facts.tech, {i \in DOMAIN facts.tech : borne(facts.tech[i])}),
               leaders  |-> Restrict(facts.leaders, {i \in DOMAIN facts.leaders : borne(facts.leaders[i])}) ]
  BY DEF Stripped, IsCase
<1>3. /\ facts.industry \in IndustryProfileFact /\ facts.count \in EmployeeCountProfileFact
      /\ facts.funding \in Seq(FundingEvent) /\ facts.hiring \in Seq(HiringRole)
      /\ facts.tech \in Seq(TechMention) /\ facts.leaders \in Seq(LeadershipCandidate)
  BY <1>1 DEF ResearchFacts
<1> HIDE DEF facts, evidence, kept
<1>4. Known(GroundIndustry(kept.industry, evidence, case.spec)) = Known(GroundIndustry(facts.industry, evidence, case.spec))
  <2>1. facts.industry = [x \in {"ref", "ids", "claim", "category"} |-> facts.industry[x]]
    BY <1>3, ProfilesAreRecords
  <2>2. kept.industry = IF borne(facts.industry) THEN facts.industry ELSE Unsaid
    BY <1>2
  <2> QED
    BY <1>1, <2>1, <2>2, IndustryIsKnown
<1>5. Known(GroundCount(kept.count, evidence)) = Known(GroundCount(facts.count, evidence))
  <2>1. facts.count = [x \in {"ref", "ids", "claim", "count"} |-> facts.count[x]]
    BY <1>3, ProfilesAreRecords
  <2>2. kept.count = IF GroundCount(facts.count, evidence).ids # <<>> THEN facts.count ELSE Unsaid
    BY <1>2
  <2> QED
    BY <1>1, <2>1, <2>2, CountIsKnown
<1>6. Grounded(GroundRounds(kept.funding, evidence)) = Grounded(GroundRounds(facts.funding, evidence))
  <2>1. \A i \in DOMAIN facts.funding :
            facts.funding[i] = [x \in {"ref", "ids", "claim", "stage", "age"} |-> facts.funding[i][x]]
    BY <1>3, FundingsAreRecords
  <2>2. kept.funding = Restrict(facts.funding, {i \in DOMAIN facts.funding : borne(facts.funding[i])})
    BY <1>2
  <2> QED
    BY <2>1, <2>2, FundingIsGrounded
<1>7. Grounded(GroundItems(kept.hiring, evidence)) = Grounded(GroundItems(facts.hiring, evidence))
  <2>1. \A i \in DOMAIN facts.hiring :
            facts.hiring[i] = [x \in {"ref", "ids", "claim", "gtm", "age"} |-> facts.hiring[i][x]]
    BY <1>3, RolesAreRecords
  <2>2. kept.hiring = Restrict(facts.hiring, {i \in DOMAIN facts.hiring : borne(facts.hiring[i])})
    BY <1>2
  <2> QED
    BY <2>1, <2>2, ItemsAreGrounded
<1>8. Grounded(GroundItems(kept.tech, evidence)) = Grounded(GroundItems(facts.tech, evidence))
  <2>1. \A i \in DOMAIN facts.tech : facts.tech[i] = [x \in {"ref", "ids", "claim", "name"} |-> facts.tech[i][x]]
    BY <1>3, MentionsAreRecords
  <2>2. kept.tech = Restrict(facts.tech, {i \in DOMAIN facts.tech : borne(facts.tech[i])})
    BY <1>2
  <2> QED
    BY <2>1, <2>2, ItemsAreGrounded
<1>9. Grounded(GroundItems(kept.leaders, evidence)) = Grounded(GroundItems(facts.leaders, evidence))
  <2>1. \A i \in DOMAIN facts.leaders :
            facts.leaders[i] = [x \in {"ref", "ids", "claim", "title", "name"} |-> facts.leaders[i][x]]
    BY <1>3, CandidatesAreRecords
  <2>2. kept.leaders = Restrict(facts.leaders, {i \in DOMAIN facts.leaders : borne(facts.leaders[i])})
    BY <1>2
  <2> QED
    BY <2>1, <2>2, ItemsAreGrounded
<1>10. Established(Ground(kept, evidence, case.spec)) = Established(Ground(facts, evidence, case.spec))
  BY <1>4, <1>5, <1>6, <1>7, <1>8, <1>9 DEF Established, Ground
<1> QED
  BY <1>10 DEF facts, evidence, kept

\* A fact of which the same is known has evidence in both, and is then the same.
LEMMA KnownAlike ==
    ASSUME NEW f, NEW g, Known(f) = Known(g)
    PROVE  /\ f.ids = <<>> <=> g.ids = <<>>
           /\ f.ids # <<>> => f = g
<1>1. Unsaid.ids = <<>>
  BY DEF Unsaid
<1> QED
  BY <1>1 DEF Known

\* Every reader of the facts asks for their evidence: facts of which the same is
\* established have the same score.
LEMMA ScoreAlike ==
    ASSUME NEW f, NEW g, NEW evidence, NEW spec, Established(f) = Established(g)
    PROVE  Score(f, evidence, spec) = Score(g, evidence, spec)
<1>1. /\ Known(f.industry) = Known(g.industry) /\ Known(f.count) = Known(g.count)
      /\ Grounded(f.funding) = Grounded(g.funding) /\ Grounded(f.hiring) = Grounded(g.hiring)
      /\ Grounded(f.tech) = Grounded(g.tech) /\ Grounded(f.leaders) = Grounded(g.leaders)
  BY DEF Established
<1>2. /\ f.industry.ids = <<>> <=> g.industry.ids = <<>>
      /\ f.industry.ids # <<>> => f.industry = g.industry
      /\ f.count.ids = <<>> <=> g.count.ids = <<>>
      /\ f.count.ids # <<>> => f.count = g.count
  BY <1>1, KnownAlike
<1>3. /\ RelevantRoles(f) = RelevantRoles(g) /\ Dated(f) = Dated(g)
      /\ ResolveContact(f.leaders, spec) = ResolveContact(g.leaders, spec)
      /\ FundingSignal(f.funding, spec) = FundingSignal(g.funding, spec)
      /\ TechFit(f.tech, spec) = TechFit(g.tech, spec)
  <2>1. RelevantRoles(f) = RelevantRoles(g)
    BY <1>1 DEF RelevantRoles
  <2>2. Dated(f) = Dated(g)
    BY <1>1 DEF Dated
  <2>3. ResolveContact(f.leaders, spec) = ResolveContact(g.leaders, spec)
    BY <1>1 DEF ResolveContact
  <2>4. FundingSignal(f.funding, spec) = FundingSignal(g.funding, spec)
    BY <1>1 DEF FundingSignal
  <2>5. TechFit(f.tech, spec) = TechFit(g.tech, spec)
    BY <1>1 DEF TechFit
  <2> QED
    BY <2>1, <2>2, <2>3, <2>4, <2>5
<1>4. Exclusion(f.industry, spec) = Exclusion(g.industry, spec)
  BY <1>2 DEF Exclusion
<1>5. Supports(f, evidence, spec) = Supports(g, evidence, spec)
  <2>1. /\ (f.industry.ids # <<>> /\ f.industry.category # "none")
               = (g.industry.ids # <<>> /\ g.industry.category # "none")
        /\ (f.count.ids # <<>> /\ f.count.count # 0) = (g.count.ids # <<>> /\ g.count.count # 0)
    BY <1>2
  <2>2. Rests(f, evidence, spec) = Rests(g, evidence, spec)
    BY <1>1, <1>3, <2>1 DEF Rests
  <2> QED
    BY <2>2 DEF Supports
<1>6. Raws(f, evidence, spec) = Raws(g, evidence, spec)
  <2>1. ASSUME NEW d \in Supports(f, evidence, spec)
        PROVE  Raw(d, f, evidence, spec) = Raw(d, g, evidence, spec)
    <3>1. d \in Dimension /\ Rests(f, evidence, spec)[d]
      BY <2>1 DEF Supports
    <3>2. CASE d = "industry"
      <4>1. f.industry.ids # <<>>
        BY <3>1, <3>2 DEF Rests
      <4> QED
        BY <1>2, <3>2, <4>1 DEF Raw
    <3>3. CASE d = "size"
      <4>1. f.count.ids # <<>>
        BY <3>1, <3>3 DEF Rests
      <4> QED
        BY <1>2, <3>3, <4>1 DEF Raw
    <3>4. CASE d = "funding"
      BY <1>3, <3>4 DEF Raw
    <3>5. CASE d = "hiring"
      BY <1>3, <3>5 DEF Raw
    <3>6. CASE d = "tech"
      BY <1>3, <3>6 DEF Raw
    <3>7. CASE d = "persona"
      BY <1>3, <3>7 DEF Raw
    <3>8. CASE d = "freshness"
      BY <1>3, <3>8 DEF Raw
    <3>9. CASE d = "evidence"
      BY <3>9 DEF Raw
    <3> QED
      BY <3>1, <3>2, <3>3, <3>4, <3>5, <3>6, <3>7, <3>8, <3>9 DEF Dimension, Weights
  <2> QED
    BY <1>5, <2>1 DEF Raws
<1>7. Confidence(f, evidence, spec) = Confidence(g, evidence, spec)
  BY <1>5 DEF Confidence, Unknown
<1> QED
  BY <1>3, <1>4, <1>5, <1>6, <1>7 DEF Score

\* So is everything that is computed from them.
LEMMA OutcomeIgnoresTheUnsaid ==
    ASSUME NEW case, IsCase(case)
    PROVE  Outcome(Stripped(case)) = Outcome(case)
<1>1. /\ Stripped(case).evidence = case.evidence /\ Stripped(case).spec = case.spec
      /\ Stripped(case).drafts = case.drafts /\ Stripped(case).channels = case.channels
      /\ Stripped(case).others = case.others /\ Stripped(case).duplicate = case.duplicate
  BY DEF Stripped, IsCase
<1>2. Score(Ground(Stripped(case).facts, case.evidence, case.spec), case.evidence, case.spec)
          = Score(Ground(case.facts, case.evidence, case.spec), case.evidence, case.spec)
  BY EstablishedAlike, ScoreAlike
<1> QED
  BY <1>1, <1>2 DEF Outcome

\* The parts of a score the exclusion rests on.
LEMMA ScoreFields ==
    ASSUME NEW facts, NEW evidence, NEW spec
    PROVE  LET score == Score(facts, evidence, spec) IN
           /\ score.exclusion = Exclusion(facts.industry, spec)
           /\ score.disqualified = (score.exclusion = "EXCLUDED")
           /\ score.disqualified \in BOOLEAN
           /\ score.exclusion \in {"UNKNOWN", "EXCLUDED", "NOT_EXCLUDED"}
           /\ "exclusion_not_evaluable" \in score.modifiers <=> score.exclusion = "UNKNOWN"
BY DEF Score, Exclusion

\* An exclusion that could not be evaluated is no pass, whatever the review says.
LEMMA UnknownIsNoPass ==
    ASSUME NEW score, NEW verdict, NEW spec,
           score.disqualified \in BOOLEAN, score.exclusion = "UNKNOWN"
    PROVE  FinalStatus(score, verdict, spec) \in {"REJECTED", "NEEDS_REVIEW"}
BY DEF FinalStatus

\* A company gains nothing when its industry is withheld.
LEMMA WithheldIsNoPass ==
    ASSUME NEW case, IsCase(case)
    PROVE  Outcome(Withheld(case)).status \in {"REJECTED", "NEEDS_REVIEW"}
<1> DEFINE other == Withheld(case)
           ground == Ground(other.facts, other.evidence, other.spec)
           score == Score(ground, other.evidence, other.spec)
<1>1. other.facts.industry = Unsaid /\ other.evidence = case.evidence
  BY DEF IsCase, Withheld, ResearchFacts
<1>2. ground.industry.ids = <<>>
  <2>1. "none" \notin DOMAIN other.evidence
    BY <1>1 DEF IsCase
  <2>2. ground.industry = GroundIndustry(Unsaid, other.evidence, other.spec)
    BY <1>1 DEF Ground
  <2> QED
    BY <2>1, <2>2, UnsaidStaysUnsaid DEF GroundIndustry, Demote, Unsaid
<1>3. Exclusion(ground.industry, other.spec) = "UNKNOWN"
  BY <1>2 DEF Exclusion
<1>4. score.exclusion = "UNKNOWN" /\ score.disqualified \in BOOLEAN
  BY <1>3, ScoreFields
<1> QED
  BY <1>4, UnknownIsNoPass DEF Outcome

\* What passes is in an established category that is not excluded, and earned it.
LEMMA PassIsEarned ==
    ASSUME NEW case, IsCase(case), Outcome(case).status = "PASS"
    PROVE  /\ GroundIndustry(case.facts.industry, case.evidence, case.spec).category \notin
                  case.spec.excluded \cup {"none"}
           /\ ~(Outcome(case).score.overall < case.spec.minScore)
           /\ Outcome(case).verdict = "PASS"
<1> DEFINE ground == Ground(case.facts, case.evidence, case.spec)
           score == Score(ground, case.evidence, case.spec)
           verdict == Review(case.drafts, case.evidence, case.channels, case.others, case.duplicate, score, case.spec)
<1>1. Outcome(case) = [score |-> score, verdict |-> verdict, status |-> FinalStatus(score, verdict, case.spec)]
  BY DEF Outcome
<1>2. FinalStatus(score, verdict, case.spec) = "PASS"
  BY <1>1
<1>3. verdict \in {"PASS", "FAIL", "NEEDS_REVIEW"}
  BY DEF Review
<1>4. ~score.disqualified /\ verdict = "PASS" /\ score.exclusion # "UNKNOWN" /\ ~(score.overall < case.spec.minScore)
  <2> HIDE DEF score, verdict
  <2> QED
    BY <1>2, <1>3 DEF FinalStatus
<1>5. Exclusion(ground.industry, case.spec) = "NOT_EXCLUDED"
  BY <1>4, ScoreFields
<1>6. ground.industry.category \notin case.spec.excluded \cup {"none"}
  <2> HIDE DEF ground
  <2> QED
    BY <1>5 DEF Exclusion
<1> QED
  BY <1>1, <1>4, <1>6 DEF Ground

\* Every case is decided soundly.
LEMMA EveryCaseIsSound ==
    ASSUME NEW case, IsCase(case)
    PROVE  IsSound(case)
<1>1. Outcome(case).score.exclusion
          = ExclusionFromPersisted(Outcome(case).score.disqualified, Outcome(case).score.modifiers)
  <2> DEFINE score == Score(Ground(case.facts, case.evidence, case.spec), case.evidence, case.spec)
  <2>1. Outcome(case).score = score
    BY DEF Outcome
  <2>2. /\ score.disqualified = (score.exclusion = "EXCLUDED")
        /\ score.exclusion \in {"UNKNOWN", "EXCLUDED", "NOT_EXCLUDED"}
        /\ "exclusion_not_evaluable" \in score.modifiers <=> score.exclusion = "UNKNOWN"
    BY ScoreFields
  <2> HIDE DEF score
  <2> QED
    BY <2>1, <2>2 DEF ExclusionFromPersisted
<1> QED
  BY <1>1, OutcomeIgnoresTheUnsaid, WithheldIsNoPass, PassIsEarned DEF IsSound

\* A verdict rests on what the evidence bears out and on nothing else, the exclude list
\* cannot be got round by saying less, and a restart reads back the same exclusion: for
\* every set of cases, whatever their facts, evidence, Play and drafts.
THEOREM VerdictIsSoundHolds == VerdictsSpec => []VerdictIsSound
<1>1. VerdictsInit => decided \subseteq Cases
  BY DEF VerdictsInit
<1>2. decided \subseteq Cases /\ [Decide]_decided => (decided \subseteq Cases)'
  BY DEF Decide
<1>3. decided \subseteq Cases => VerdictIsSound
  BY CasesAssumption, EveryCaseIsSound DEF VerdictIsSound
<1> QED
  BY <1>1, <1>2, <1>3, PTL DEF VerdictsSpec

-----------------------------------------------------------------------------
(* ContactMatch: names of any length, over any alphabet.                     *)

\* The tokens a person or a company never has, as a sequence.
LEMMA SetAsSequence ==
    ASSUME NEW S, S \subseteq Seq(Letter), IsFiniteSet(S)
    PROVE  /\ SetToSeq(S) \in Seq(Seq(Letter))
           /\ \A i \in DOMAIN SetToSeq(S) : SetToSeq(S)[i] \in S
<1> DEFINE n == Cardinality(S)
<1>1. n \in Nat /\ ExistsBijection(1..n, S)
  BY FS_CardinalityType
<1>2. PICK f : f \in Bijection(1..n, S)
  BY <1>1 DEF ExistsBijection
<1>3. f \in [1..n -> S] /\ IsInjective(f)
  BY <1>2 DEF Bijection, Injection, IsInjective
<1>4. SetToSeq(S) \in [1..n -> S]
  BY <1>3 DEF SetToSeq
<1> QED
  BY <1>1, <1>4

\* What the query said is in no observation of Hunter.
LEMMA EchoIsNoEvidenceHolds ==
    ASSUME NEW case, IsAnswered(case)
    PROVE  EchoIsNoEvidence(case)
<1> SUFFICES ASSUME NEW d
             PROVE  HunterObservation([case.answer EXCEPT !.domain = d]) = HunterObservation(case.answer)
  BY DEF EchoIsNoEvidence, Channels, Observe
<1>1. [case.answer EXCEPT !.domain = d]
        = [ first |-> case.answer.first, last |-> case.answer.last, company |-> case.answer.company,
            domain |-> d, url |-> case.answer.url, word |-> case.answer.word, address |-> case.answer.address ]
  BY DEF IsAnswered
<1> QED
  BY <1>1 DEF HunterObservation, FullName

\* Nothing is compared with a name that was not given.
LEMMA NoNameNoMatch ==
    ASSUME NEW a, NEW b, b = None
    PROVE  MatchNames(a, b) = "COMPANY_UNKNOWN"
BY DEF MatchNames, Tokens, StripSuffixes, Restrict

\* An answer about another person or company is never a match.
LEMMA ContradictionIsMismatchHolds ==
    ASSUME NEW case, IsAnswered(case)
    PROVE  ContradictionIsMismatch(case)
<1> DEFINE obs == Observe(case.provider, case.answer)
           linkedin == Channels(case.provider, case.grounded, case.answer).linkedin
           person == MatchPerson(case.grounded.name, obs.name)
           company == MatchCompany(case.grounded, obs)
           named == IsFull(obs.name) /\ IsFull(case.grounded.name)
<1>1. linkedin = <<"NOT_FOUND", "UNKNOWN">> \/ linkedin = <<"RESOLVED", CombineIdentity(person, company)>>
  BY DEF Channels, DeriveLinkedin
<1>2. named /\ Surname(obs.name) # Surname(case.grounded.name) => person = "PERSON_CONFLICT"
  BY DEF MatchPerson
<1>3. None \notin {obs.domain, case.grounded.domain} /\ obs.domain # case.grounded.domain
        => company = "COMPANY_CONFLICT"
  BY DEF MatchCompany
<1>4. person = "PERSON_MATCH" => named
  BY DEF MatchPerson
<1>5. company = "COMPANY_MATCH" => obs.company # None \/ obs.domain # None
  BY NoNameNoMatch DEF MatchCompany
<1>6. /\ person = "PERSON_CONFLICT" \/ company = "COMPANY_CONFLICT" => CombineIdentity(person, company) = "MISMATCH"
      /\ CombineIdentity(person, company) = "STRONG_MATCH" => person = "PERSON_MATCH" /\ company = "COMPANY_MATCH"
  <2> HIDE DEF person, company
  <2> QED
    BY DEF CombineIdentity
<1> HIDE DEF linkedin, person, company, named, obs
<1>7. /\ linkedin[1] = "RESOLVED" /\ named /\ Surname(obs.name) # Surname(case.grounded.name) => linkedin[2] = "MISMATCH"
      /\ linkedin[1] = "RESOLVED" /\ None \notin {obs.domain, case.grounded.domain} /\ obs.domain # case.grounded.domain
           => linkedin[2] = "MISMATCH"
      /\ linkedin[2] = "STRONG_MATCH" => named /\ (obs.company # None \/ obs.domain # None)
      /\ linkedin[1] = "NOT_FOUND" => linkedin[2] = "UNKNOWN"
  BY <1>1, <1>2, <1>3, <1>4, <1>5, <1>6
<1> QED
  BY <1>7 DEF ContradictionIsMismatch, linkedin, named, obs

\* An initial is the same initial from either side.
LEMMA InitialsAreSymmetric ==
    ASSUME NEW a, NEW b
    PROVE  IsInitialMatch(a, b) <=> IsInitialMatch(b, a)
<1>1. ASSUME NEW s, NEW t, Len(s) = 1, Len(t) = 1, IsPrefix(s, t)
      PROVE  IsPrefix(t, s)
  BY <1>1 DEF IsPrefix
<1> QED
  BY <1>1 DEF IsInitialMatch

\* So are persons and companies.
LEMMA PersonsAreSymmetric ==
    ASSUME NEW a, NEW b
    PROVE  MatchPerson(a, b) = MatchPerson(b, a)
BY InitialsAreSymmetric DEF MatchPerson

\* It does not matter which company was grounded.
LEMMA CompaniesAreSymmetric ==
    ASSUME NEW a, NEW b
    PROVE  MatchCompany(a, b) = MatchCompany(b, a)
<1>1. MatchNames(a.company, b.company) = MatchNames(b.company, a.company)
  BY DEF MatchNames
<1> QED
  BY <1>1 DEF MatchCompany

\* Titles that follow a name change nothing of it.
LEMMA TitlesAreNoTokens ==
    ASSUME NEW name \in Seq(Seq(Letter)), NEW titles \in Seq(Seq(Letter)),
           \A i \in DOMAIN titles : titles[i] \in Honorific
    PROVE  /\ PersonTokens(name \o titles) = PersonTokens(name)
           /\ \A i \in PersonTokens(name) : (name \o titles)[i] = name[i]
<1>1. name \o titles \in Seq(Seq(Letter)) /\ name \o titles # None /\ name # None
  BY ConcatProperties, ContactsAssumption
<1>2. /\ Len(name \o titles) = Len(name) + Len(titles)
      /\ \A i \in 1..Len(name) + Len(titles) :
             (name \o titles)[i] = IF i <= Len(name) THEN name[i] ELSE titles[i - Len(name)]
  BY ConcatProperties
<1>3. /\ PersonTokens(name) = {i \in 1..Len(name) : name[i] # <<>> /\ name[i] \notin Honorific}
      /\ PersonTokens(name \o titles) = {i \in 1..Len(name) + Len(titles) :
             (name \o titles)[i] # <<>> /\ (name \o titles)[i] \notin Honorific}
  BY <1>1, <1>2 DEF PersonTokens, Tokens
<1>4. \A i \in 1..Len(name) + Len(titles) : ~(i <= Len(name)) => (name \o titles)[i] \in Honorific
  BY <1>2
<1>5. \A i \in 1..Len(name) : (name \o titles)[i] = name[i] /\ i \in 1..Len(name) + Len(titles)
  BY <1>2
<1> QED
  BY <1>3, <1>4, <1>5

\* Numbers that are not none have a least, and below a bound a greatest.
LEMMA LeastOfNumbers ==
    ASSUME NEW T, T \subseteq Nat, T # {}
    PROVE  \E x \in T : \A y \in T : x <= y
<1>1. PICK x \in T : \A y \in T : <<y, x>> \notin OpToRel(<, Nat)
  BY NatLessThanWellFounded, WFMin
<1>2. \A y \in T : ~(y < x)
  BY <1>1 DEF OpToRel
<1> QED
  BY <1>2

\* The mirror image of the numbers has a least.
LEMMA GreatestOfNumbers ==
    ASSUME NEW n \in Nat, NEW T, T \subseteq 1..n, T # {}
    PROVE  \E x \in T : \A y \in T : y <= x
<1> DEFINE mirror == {n - y : y \in T}
<1>1. mirror \subseteq Nat /\ mirror # {}
  <2>1. \A y \in T : n - y \in Nat
    OBVIOUS
  <2>2. PICK y \in T : TRUE
    OBVIOUS
  <2>3. n - y \in mirror
    OBVIOUS
  <2> QED
    BY <2>1, <2>3
<1>2. PICK m \in mirror : \A k \in mirror : m <= k
  BY <1>1, LeastOfNumbers
<1>3. PICK x \in T : m = n - x
  BY <1>2
<1>4. \A y \in T : n - x <= n - y
  BY <1>2, <1>3
<1> QED
  BY <1>3, <1>4

\* A full name has a given name and a surname.
LEMMA FullNamesHaveBoth ==
    ASSUME NEW name \in Seq(Seq(Letter)), IsFull(name)
    PROVE  /\ \E i \in PersonTokens(name) : \A j \in PersonTokens(name) : i <= j
           /\ \E i \in PersonTokens(name) : \A j \in PersonTokens(name) : j <= i
<1>1. PersonTokens(name) \subseteq 1..Len(name) /\ Len(name) \in Nat
  BY ContactsAssumption DEF PersonTokens, Tokens
<1>2. PersonTokens(name) # {} /\ PersonTokens(name) \subseteq Nat
  BY <1>1 DEF IsFull
<1>3. \E i \in PersonTokens(name) : \A j \in PersonTokens(name) : i <= j
  BY <1>2, LeastOfNumbers
<1>4. \E i \in PersonTokens(name) : \A j \in PersonTokens(name) : j <= i
  BY <1>1, <1>2, GreatestOfNumbers
<1> QED
  BY <1>3, <1>4

\* A person is the same person with every title.
LEMMA TitledIsTheSame ==
    ASSUME NEW name \in Seq(Seq(Letter)), NEW titles \in Seq(Seq(Letter)),
           \A i \in DOMAIN titles : titles[i] \in Honorific, NEW other
    PROVE  MatchPerson(name \o titles, other) = MatchPerson(name, other)
<1>1. IsFull(name \o titles) = IsFull(name)
  BY TitlesAreNoTokens DEF IsFull
<1>2. ASSUME IsFull(name)
      PROVE  GivenName(name \o titles) = GivenName(name) /\ Surname(name \o titles) = Surname(name)
  <2>1. /\ PersonTokens(name \o titles) = PersonTokens(name)
        /\ \A i \in PersonTokens(name) : (name \o titles)[i] = name[i]
    BY TitlesAreNoTokens
  <2>2. /\ \E i \in PersonTokens(name) : \A j \in PersonTokens(name) : i <= j
        /\ \E i \in PersonTokens(name) : \A j \in PersonTokens(name) : j <= i
    BY <1>2, FullNamesHaveBoth
  <2> QED
    BY <2>1, <2>2 DEF GivenName, Surname
<1> QED
  BY <1>1, <1>2 DEF MatchPerson

\* Suffixes that follow the name of a company change nothing of it.
LEMMA SuffixesAreStripped ==
    ASSUME NEW name \in Seq(Seq(Letter)), NEW ends \in Seq(Seq(Letter)),
           \A i \in DOMAIN ends : ends[i] \in Suffix
    PROVE  StripSuffixes(name \o ends) = StripSuffixes(name)
<1> DEFINE all == name \o ends
           whole == {i \in DOMAIN all : \E j \in DOMAIN all : i <= j /\ all[j] \notin Suffix}
           own == {i \in DOMAIN name : \E j \in DOMAIN name : i <= j /\ name[j] \notin Suffix}
<1>1. /\ all \in Seq(Seq(Letter)) /\ Len(all) = Len(name) + Len(ends)
      /\ \A i \in 1..Len(name) + Len(ends) :
             all[i] = IF i <= Len(name) THEN name[i] ELSE ends[i - Len(name)]
  BY ConcatProperties
<1> HIDE DEF all
<1>2. DOMAIN all = 1..Len(name) + Len(ends) /\ DOMAIN name = 1..Len(name) /\ Len(name) \in Nat /\ Len(ends) \in Nat
  BY <1>1
<1>3. \A j \in DOMAIN all : all[j] \notin Suffix => j <= Len(name)
  <2> SUFFICES ASSUME NEW j \in 1..Len(name) + Len(ends), ~(j <= Len(name)) PROVE all[j] \in Suffix
    BY <1>2
  <2>1. all[j] = ends[j - Len(name)] /\ j - Len(name) \in DOMAIN ends
    BY <1>1, <1>2
  <2> QED
    BY <2>1
<1>4. \A i \in DOMAIN name : all[i] = name[i] /\ i \in DOMAIN all
  BY <1>1, <1>2
<1>5. whole = own
  BY <1>2, <1>3, <1>4
<1>6. \A i \in own : all[i] = name[i]
  BY <1>4
<1> HIDE DEF whole, own
<1>7. Restrict(all, whole) = Restrict(name, own)
  BY <1>5, <1>6 DEF Restrict
<1> QED
  BY <1>7 DEF StripSuffixes, all, whole, own

\* It does not matter which side was grounded, nor what titles and suffixes it carries.
LEMMA MatchIsSymmetricHolds ==
    ASSUME NEW case, IsAnswered(case)
    PROVE  MatchIsSymmetric(case)
<1> DEFINE obs == Observe(case.provider, case.answer)
           person == case.grounded.name
           company == case.grounded.company
           titles == SetToSeq(Honorific)
           ends == SetToSeq(Suffix)
<1>1. /\ None \notin Seq(Seq(Letter))
      /\ case.grounded = [name |-> person, company |-> company, domain |-> case.grounded.domain]
      /\ person \in Seq(Seq(Letter)) \cup {None} /\ company \in Seq(Seq(Letter)) \cup {None}
  BY ContactsAssumption DEF IsAnswered, Name
<1>2. /\ titles \in Seq(Seq(Letter)) /\ \A i \in DOMAIN titles : titles[i] \in Honorific
      /\ ends \in Seq(Seq(Letter)) /\ \A i \in DOMAIN ends : ends[i] \in Suffix
  BY ContactsAssumption, SetAsSequence
<1> HIDE DEF titles, ends, obs
<1>3. MatchPerson(IF person = None THEN None ELSE person \o titles, obs.name) = MatchPerson(person, obs.name)
  BY <1>1, <1>2, TitledIsTheSame
<1>4. ASSUME NEW other, other = [case.grounded EXCEPT !.company = IF @ = None THEN None ELSE @ \o ends]
      PROVE  MatchCompany(other, obs) = MatchCompany(case.grounded, obs)
  <2>1. other.domain = case.grounded.domain /\ other.company = IF company = None THEN None ELSE company \o ends
    BY <1>1, <1>4
  <2>2. MatchNames(other.company, obs.company) = MatchNames(company, obs.company)
    <3>1. CASE company = None
      BY <2>1, <3>1
    <3>2. CASE company # None
      <4>1. company \in Seq(Seq(Letter)) /\ company \o ends \in Seq(Seq(Letter))
        BY <1>1, <1>2, <3>2, ConcatProperties
      <4>2. Tokens(other.company) = company \o ends /\ Tokens(company) = company
        BY <1>1, <2>1, <3>2, <4>1 DEF Tokens
      <4>3. StripSuffixes(company \o ends) = StripSuffixes(company)
        BY <1>2, <4>1, SuffixesAreStripped
      <4> QED
        BY <4>2, <4>3 DEF MatchNames
    <3> QED
      BY <3>1, <3>2
  <2> QED
    BY <2>1, <2>2 DEF MatchCompany
<1>5. MatchCompany([case.grounded EXCEPT !.company = IF @ = None THEN None ELSE @ \o ends], obs)
        = MatchCompany(case.grounded, obs)
  BY <1>4
<1> QED
  BY <1>3, <1>5, PersonsAreSymmetric, CompaniesAreSymmetric DEF MatchIsSymmetric, titles, ends, obs

\* A contact is recognised, or told apart, by what the provider said of it and the same
\* way round whoever is asked about whom: over every alphabet and all names of any length.
THEOREM MatchIsEvidenceHolds == ContactSpec => []MatchIsEvidence
<1>1. ContactInit => compared \subseteq Contacts
  BY DEF ContactInit
<1>2. compared \subseteq Contacts /\ [Compare]_compared => (compared \subseteq Contacts)'
  BY DEF Compare
<1>3. compared \subseteq Contacts => MatchIsEvidence
  BY ContactsAssumption, EchoIsNoEvidenceHolds, ContradictionIsMismatchHolds, MatchIsSymmetricHolds DEF MatchIsEvidence
<1> QED
  BY <1>1, <1>2, <1>3, PTL DEF ContactSpec
-----------------------------------------------------------------------------
(* SourceSelection: the order of documents, and what stands for a source.    *)

\* Keys of six numbers compare by the first that differs.
LEMMA SixKeys ==
    ASSUME NEW s \in [1..6 -> Int], NEW t \in [1..6 -> Int]
    PROVE  (\E i \in 1..6 : s[i] < t[i] /\ \A j \in 1..(i - 1) : s[j] = t[j])
           <=> \/ s[1] < t[1]
               \/ s[1] = t[1] /\ s[2] < t[2]
               \/ s[1] = t[1] /\ s[2] = t[2] /\ s[3] < t[3]
               \/ s[1] = t[1] /\ s[2] = t[2] /\ s[3] = t[3] /\ s[4] < t[4]
               \/ s[1] = t[1] /\ s[2] = t[2] /\ s[3] = t[3] /\ s[4] = t[4] /\ s[5] < t[5]
               \/ s[1] = t[1] /\ s[2] = t[2] /\ s[3] = t[3] /\ s[4] = t[4] /\ s[5] = t[5] /\ s[6] < t[6]
<1> DEFINE FirstAt(i) == s[i] < t[i] /\ \A j \in 1..(i - 1) : s[j] = t[j]
<1>1. (\E i \in 1..6 : FirstAt(i))
           <=> FirstAt(1) \/ FirstAt(2) \/ FirstAt(3) \/ FirstAt(4) \/ FirstAt(5) \/ FirstAt(6)
  <2>1. \A i \in 1..6 : i \in {1, 2, 3, 4, 5, 6}
    OBVIOUS
  <2> HIDE DEF FirstAt
  <2> QED
    BY <2>1
<1>2. /\ 1..(1 - 1) = {} /\ 1..(2 - 1) = {1} /\ 1..(3 - 1) = {1, 2} /\ 1..(4 - 1) = {1, 2, 3}
      /\ 1..(5 - 1) = {1, 2, 3, 4} /\ 1..(6 - 1) = {1, 2, 3, 4, 5}
  OBVIOUS
<1>3. /\ FirstAt(1) <=> s[1] < t[1]
      /\ FirstAt(2) <=> s[2] < t[2] /\ s[1] = t[1]
      /\ FirstAt(3) <=> s[3] < t[3] /\ s[1] = t[1] /\ s[2] = t[2]
      /\ FirstAt(4) <=> s[4] < t[4] /\ s[1] = t[1] /\ s[2] = t[2] /\ s[3] = t[3]
      /\ FirstAt(5) <=> s[5] < t[5] /\ s[1] = t[1] /\ s[2] = t[2] /\ s[3] = t[3] /\ s[4] = t[4]
      /\ FirstAt(6) <=> s[6] < t[6] /\ s[1] = t[1] /\ s[2] = t[2] /\ s[3] = t[3] /\ s[4] = t[4] /\ s[5] = t[5]
  BY <1>2
<1> HIDE DEF FirstAt
<1>4. (\E i \in 1..6 : FirstAt(i))
           <=> \/ s[1] < t[1]
               \/ s[1] = t[1] /\ s[2] < t[2]
               \/ s[1] = t[1] /\ s[2] = t[2] /\ s[3] < t[3]
               \/ s[1] = t[1] /\ s[2] = t[2] /\ s[3] = t[3] /\ s[4] < t[4]
               \/ s[1] = t[1] /\ s[2] = t[2] /\ s[3] = t[3] /\ s[4] = t[4] /\ s[5] < t[5]
               \/ s[1] = t[1] /\ s[2] = t[2] /\ s[3] = t[3] /\ s[4] = t[4] /\ s[5] = t[5] /\ s[6] < t[6]
  BY <1>1, <1>3
<1> QED
  BY <1>4 DEF FirstAt

\* A document has six keys.
LEMMA KeysOfDocuments ==
    ASSUME NEW d \in Docs
    PROVE  SortKey(d) \in [1..6 -> Int]
<1>1. d.len \in Nat /\ d.relevance \in Int /\ d.rank \in Nat
  BY DEF Docs
<1>2. d.ref \in Refs /\ d.id \in Int
  BY DEF Docs
<1>3. Refs \subseteq Int
  BY SourcesAssumption, Zenon
<1>4. d.ref \in Int
  BY <1>2, <1>3
<1>5. d.len \in Int /\ d.rank \in Int
  BY <1>1
<1>6. -d.len \in Int /\ -d.relevance \in Int
  BY <1>1, <1>5
<1>7. (IF d.id # 0 THEN d.id ELSE d.ref) \in Int
  BY <1>2, <1>4
<1> QED
  BY <1>5, <1>6, <1>7 DEF SortKey

\* Documents are ranked: of two at most one precedes the other, and when one does,
\* any third comes after the first or before the second.
LEMMA DocumentsAreRanked ==
    ASSUME NEW d \in Docs, NEW e \in Docs, NEW f \in Docs
    PROVE  /\ ~Precedes(d, d)
           /\ Precedes(d, e) => ~Precedes(e, d)
           /\ Precedes(d, f) => Precedes(d, e) \/ Precedes(e, f)
<1> DEFINE Less(s, t) == \E i \in 1..6 : s[i] < t[i] /\ \A j \in 1..(i - 1) : s[j] = t[j]
<1>1. ASSUME NEW s \in [1..6 -> Int], NEW t \in [1..6 -> Int], NEW u \in [1..6 -> Int]
      PROVE  ~Less(s, s) /\ (Less(s, t) => ~Less(t, s)) /\ (Less(s, u) => Less(s, t) \/ Less(t, u))
  <2>1. /\ s[1] \in Int /\ s[2] \in Int /\ s[3] \in Int /\ s[4] \in Int /\ s[5] \in Int /\ s[6] \in Int
        /\ t[1] \in Int /\ t[2] \in Int /\ t[3] \in Int /\ t[4] \in Int /\ t[5] \in Int /\ t[6] \in Int
        /\ u[1] \in Int /\ u[2] \in Int /\ u[3] \in Int /\ u[4] \in Int /\ u[5] \in Int /\ u[6] \in Int
    OBVIOUS
  <2> DEFINE Ordered(x, y) ==
               \/ x[1] < y[1]
               \/ x[1] = y[1] /\ x[2] < y[2]
               \/ x[1] = y[1] /\ x[2] = y[2] /\ x[3] < y[3]
               \/ x[1] = y[1] /\ x[2] = y[2] /\ x[3] = y[3] /\ x[4] < y[4]
               \/ x[1] = y[1] /\ x[2] = y[2] /\ x[3] = y[3] /\ x[4] = y[4] /\ x[5] < y[5]
               \/ x[1] = y[1] /\ x[2] = y[2] /\ x[3] = y[3] /\ x[4] = y[4] /\ x[5] = y[5] /\ x[6] < y[6]
  <2>2. \A x, y \in {s, t, u} : Less(x, y) <=> Ordered(x, y)
    BY SixKeys
  <2>3. ~Ordered(s, s) /\ (Ordered(s, t) => ~Ordered(t, s))
    BY <2>1
  <2>4. Ordered(s, u) => Ordered(s, t) \/ Ordered(t, u)
    BY <2>1
  <2> HIDE DEF Less, Ordered
  <2> QED
    BY <2>2, <2>3, <2>4
<1>2. \A x, y \in Docs : Precedes(x, y) <=> Less(SortKey(x), SortKey(y))
  BY DEF Precedes
<1> HIDE DEF Less
<1> QED
  BY <1>1, <1>2, KeysOfDocuments

\* So with their places they are in a strict and total order.
LEMMA PlacesAreOrdered ==
    ASSUME NEW docs \in Seq(Docs), NEW i \in DOMAIN docs, NEW j \in DOMAIN docs, NEW k \in DOMAIN docs
    PROVE  /\ ~Comes(docs, i, i)
           /\ i # j => Comes(docs, i, j) \/ Comes(docs, j, i)
           /\ Comes(docs, i, j) /\ Comes(docs, j, k) => Comes(docs, i, k)
<1>1. docs[i] \in Docs /\ docs[j] \in Docs /\ docs[k] \in Docs
  OBVIOUS
<1>2. i \in Nat /\ j \in Nat /\ k \in Nat
  OBVIOUS
<1>3. /\ ~Precedes(docs[i], docs[i])
      /\ Precedes(docs[i], docs[j]) => ~Precedes(docs[j], docs[i])
      /\ Precedes(docs[k], docs[i]) => ~Precedes(docs[i], docs[k])
      /\ Precedes(docs[i], docs[j]) => Precedes(docs[i], docs[k]) \/ Precedes(docs[k], docs[j])
      /\ Precedes(docs[j], docs[k]) => Precedes(docs[j], docs[i]) \/ Precedes(docs[i], docs[k])
      /\ Precedes(docs[k], docs[i]) => Precedes(docs[k], docs[j]) \/ Precedes(docs[j], docs[i])
      /\ Precedes(docs[j], docs[k]) => ~Precedes(docs[k], docs[j])
  BY <1>1, DocumentsAreRanked
<1> QED
  BY <1>2, <1>3 DEF Comes

\* Of some documents, one comes before all the others.
LEMMA ForemostIsFirst ==
    ASSUME NEW docs \in Seq(Docs), NEW places, places \subseteq DOMAIN docs, places # {}
    PROVE  /\ Foremost(docs, places) \in places
           /\ \A j \in places \ {Foremost(docs, places)} : Comes(docs, Foremost(docs, places), j)
<1> DEFINE before(i) == {j \in places : Comes(docs, j, i)}
           counts == {Cardinality(before(i)) : i \in places}
<1>1. IsFiniteSet(places)
  BY ListsAreFinite, FS_Subset
<1>2. \A i \in places : IsFiniteSet(before(i)) /\ Cardinality(before(i)) \in Nat
  BY <1>1, PartOfRows
<1>3. counts \subseteq Nat /\ counts # {}
  <2> HIDE DEF before
  <2> QED
    BY <1>2
<1>4. PICK least \in counts : \A y \in counts : least <= y
  BY <1>3, LeastOfNumbers
<1>5. PICK i \in places : least = Cardinality(before(i))
  BY <1>4
<1>6. ASSUME NEW j \in places \ {i} PROVE Comes(docs, i, j)
  <2> SUFFICES ASSUME ~Comes(docs, i, j) PROVE FALSE
    OBVIOUS
  <2>1. Comes(docs, j, i)
    BY PlacesAreOrdered
  <2>2. before(j) \subseteq before(i)
    BY <2>1, PlacesAreOrdered
  <2>3. j \in before(i) /\ j \notin before(j)
    BY <2>1, PlacesAreOrdered
  <2>4. Cardinality(before(j)) < Cardinality(before(i))
    <3>1. before(j) # before(i)
      BY <2>3
    <3> HIDE DEF before
    <3> QED
      BY <2>2, <3>1, <1>2, FS_Subset, FS_CardinalityType
  <2>5. Cardinality(before(i)) <= Cardinality(before(j))
    <3>1. Cardinality(before(j)) \in counts
      OBVIOUS
    <3> HIDE DEF before, counts
    <3> QED
      BY <3>1, <1>4, <1>5
  <2> HIDE DEF before
  <2> QED
    BY <2>4, <2>5, <1>2
<1>7. \E k \in places : \A j \in places \ {k} : Comes(docs, k, j)
  BY <1>6
<1> HIDE DEF before
<1> QED
  BY <1>7 DEF Foremost

\* What makes two documents the same source does so both ways, and two documents
\* that cannot be separated cannot be from a third either.
LEMMA LinksAreClosed ==
    ASSUME NEW i \in DOMAIN occurrences, NEW j \in DOMAIN occurrences, NEW k \in DOMAIN occurrences
    PROVE  /\ SameSource(occurrences[i], occurrences[j]) => Linked(i, j)
           /\ Linked(i, j) => Linked(j, i)
           /\ Linked(i, j) /\ Linked(j, k) => Linked(i, k)
<1>1. SameSource(occurrences[i], occurrences[j]) => SameSource(occurrences[j], occurrences[i])
  BY DEF SameSource
<1>2. SameSource(occurrences[i], occurrences[j]) => Linked(i, j)
  BY <1>1 DEF Linked, Respects
<1> QED
  BY <1>2 DEF Linked

\* Once all digests are joined, a group is a source.
LEMMA GroupIsSource ==
    ASSUME NEW i \in DOMAIN occurrences,
           \A p, q \in DOMAIN occurrences : RootOf(p) = RootOf(q) => Linked(p, q),
           \A p, q \in DOMAIN occurrences :
               occurrences[p].sha # "none" /\ occurrences[p].sha = occurrences[q].sha => RootOf(p) = RootOf(q)
    PROVE  Group(i) = SourceOf(occurrences, i) /\ i \in Group(i)
<1>1. Group(i) \subseteq DOMAIN occurrences /\ i \in Group(i)
  BY DEF Group
<1>2. Respects(occurrences, Group(i))
  BY DEF Respects, SameSource, Group, RootOf
<1>3. SourceOf(occurrences, i) \subseteq Group(i)
  BY <1>1, <1>2 DEF SourceOf
<1>4. Group(i) \subseteq SourceOf(occurrences, i)
  BY DEF Group, SourceOf, Linked
<1> QED
  BY <1>1, <1>3, <1>4

\* The winner of a group is one of it, and each of the group has the same.
LEMMA WinnersOfGroups ==
    ASSUME occurrences \in Seq(Docs), RefsAreUnique,
           NEW i \in DOMAIN occurrences, NEW j \in DOMAIN occurrences
    PROVE  /\ Winner(i) \in Group(i) /\ Winner(i) \in DOMAIN occurrences
           /\ RootOf(Winner(i)) = RootOf(i)
           /\ RootOf(i) = RootOf(j) <=> Winner(i) = Winner(j)
<1>1. \A k \in DOMAIN occurrences : Group(k) \subseteq DOMAIN occurrences /\ k \in Group(k)
  BY DEF Group
<1>2. \A k \in DOMAIN occurrences : Winner(k) \in Group(k)
  <2> TAKE k \in DOMAIN occurrences
  <2> QED
    BY <1>1, ForemostIsFirst DEF Winner, RefsAreUnique
<1>3. \A k \in DOMAIN occurrences : RootOf(Winner(k)) = RootOf(k)
  BY <1>2 DEF Group
<1>4. RootOf(i) = RootOf(j) => Winner(i) = Winner(j)
  BY DEF Winner, Group
<1> QED
  BY <1>1, <1>2, <1>3, <1>4

\* Each group has one head.
LEMMA HeadsOfGroups ==
    ASSUME occurrences \in Seq(Docs), NEW i \in DOMAIN occurrences
    PROVE  /\ \E h \in Group(i) : IsHead(h)
           /\ \A h, g \in DOMAIN occurrences : IsHead(h) /\ IsHead(g) /\ RootOf(h) = RootOf(g) => h = g
<1>1. Group(i) \subseteq Nat /\ i \in Group(i) /\ DOMAIN occurrences \subseteq Nat
  BY DEF Group
<1>2. PICK h \in Group(i) : \A g \in Group(i) : h <= g
  BY <1>1, LeastOfNumbers
<1>3. Group(h) = Group(i) /\ h \in DOMAIN occurrences
  BY <1>2 DEF Group
<1>4. IsHead(h)
  BY <1>2, <1>3 DEF IsHead
<1>5. ASSUME NEW f \in DOMAIN occurrences, NEW g \in DOMAIN occurrences, IsHead(f), IsHead(g), RootOf(f) = RootOf(g)
      PROVE  f = g
  <2>1. f \in Group(g) /\ g \in Group(f)
    BY <1>5 DEF Group
  <2>2. f <= g /\ g <= f /\ f \in Nat /\ g \in Nat
    BY <1>1, <1>5, <2>1 DEF IsHead
  <2> QED
    BY <2>2
<1> QED
  BY <1>2, <1>4, <1>5

-----------------------------------------------------------------------------
(* The properties, from the invariant.                                     *)

\* The cursors tell who got what.
LEMMA TurnsAreShared ==
    ASSUME SourcesTypeOK, DrawnByCursor, NEW n \in Nat, NEW k \in Nat, Turns(n, k),
           NEW c \in Categories, NEW d \in Categories, Got(c) + 1 < Got(d)
    PROVE  Got(c) = Len(rows[c])
<1>1. PICK i \in DOMAIN Order : c = Order[i]
  BY DEF Categories
<1>2. PICK j \in DOMAIN Order : d = Order[j]
  BY DEF Categories
<1>3. i \in Nat /\ j \in Nat
  BY SourcesAssumption
<1>4. /\ cursor[c] \in Nat /\ cursor[d] \in Nat /\ Len(rows[c]) \in Nat /\ Len(rows[d]) \in Nat
      /\ Got(c) = cursor[c] /\ Got(d) = cursor[d]
  BY DEF SourcesTypeOK, DrawnByCursor
<1>5. /\ cursor[c] = LET turns == IF i < k THEN n + 1 ELSE n IN IF turns <= Len(rows[c]) THEN turns ELSE Len(rows[c])
      /\ cursor[d] = LET turns == IF j < k THEN n + 1 ELSE n IN IF turns <= Len(rows[d]) THEN turns ELSE Len(rows[d])
  BY <1>1, <1>2 DEF Turns
<1> QED
  BY <1>3, <1>4, <1>5

\* What the cursors say makes the sharing fair (tavily_search.py:112-182).
LEMMA SourcesAreSharedFollows == SourcesIInv => SourcesAreShared
<1> SUFFICES ASSUME SourcesIInv PROVE SourcesAreShared
  OBVIOUS
<1>1. SourcesTypeOK /\ DrawnByCursor /\ PassesInTurn
  BY DEF SourcesIInv
<1>2. ASSUME stage \in {"allocate", "group", "rank", "extract"}
      PROVE  /\ Len(drawn) <= LimitOf(stage)
             /\ \A c, d \in Categories : Got(c) + 1 < Got(d) => Got(c) = Len(rows[c])
  <2>1. Len(drawn) <= LimitOf(stage)
    BY <1>1, <1>2 DEF DrawnByCursor
  <2>2. at \in Nat
    BY <1>1 DEF SourcesTypeOK
  <2>3. \E n, k \in Nat : Turns(n, k)
    BY <1>1, <1>2, <2>2 DEF PassesInTurn
  <2> QED
    BY <1>1, <2>1, <2>3, TurnsAreShared
<1>3. stage \in {"group", "extract"} =>
          Len(drawn) = LimitOf(stage) \/ \A c \in Categories : Got(c) = Len(rows[c])
  BY <1>1 DEF PassesInTurn, DrawnByCursor
<1> QED
  BY <1>2, <1>3 DEF SourcesAreShared

\* With the groups being the sources, each has one winner, in one place.
LEMMA OneWinnerFollows == SourcesIInv => OneWinnerPerSource
<1> SUFFICES ASSUME SourcesIInv PROVE OneWinnerPerSource
  OBVIOUS
<1>1. /\ SourcesTypeOK /\ RefsAreUnique /\ GroupsAreSources /\ WinnersArePlaced /\ WinnersAreEvidence
      /\ occurrences \in Seq(Docs) /\ rows \in [Categories -> Seq(Docs)]
  BY DEF SourcesIInv, SourcesTypeOK
<1>2. ASSUME stage \in {"rank", "extract", "done"}, NEW i \in DOMAIN occurrences
      PROVE  /\ Group(i) = SourceOf(occurrences, i)
             /\ Winner(i) = Foremost(occurrences, SourceOf(occurrences, i))
             /\ Winner(i) \in Group(i)
  <2>1. /\ \A p, q \in DOMAIN occurrences : RootOf(p) = RootOf(q) => Linked(p, q)
        /\ \A p, q \in DOMAIN occurrences :
               occurrences[p].sha # "none" /\ occurrences[p].sha = occurrences[q].sha => RootOf(p) = RootOf(q)
    BY <1>1, <1>2 DEF GroupsAreSources
  <2>2. Group(i) = SourceOf(occurrences, i)
    BY <2>1, GroupIsSource
  <2> QED
    BY <1>1, <2>2, WinnersOfGroups DEF Winner
<1>3. ASSUME stage \in {"rank", "extract"}, NEW i \in DOMAIN occurrences
      PROVE  LET source == SourceOf(occurrences, i)
                 offered == UNION {{c} \X {k \in DOMAIN rows[c] : \E j \in source : rows[c][k] = occurrences[j]} :
                                      c \in Categories}
             IN \E p \in offered :
                    /\ offered = {p}
                    /\ rows[p[1]][p[2]] = occurrences[Foremost(occurrences, source)]
  <2> DEFINE source == SourceOf(occurrences, i)
             Of(c) == {k \in DOMAIN rows[c] : \E j \in source : rows[c][k] = occurrences[j]}
             offered == UNION {{c} \X Of(c) : c \in Categories}
             w == occurrences[Winner(i)]
  <2>1. source = Group(i) /\ Winner(i) = Foremost(occurrences, source) /\ Winner(i) \in source
    BY <1>2, <1>3
  <2>2. PICK h \in Group(i) : IsHead(h)
    BY <1>1, <1>3, HeadsOfGroups
  <2>3. h \in DOMAIN occurrences /\ RootOf(h) = RootOf(i) /\ Winner(h) = Winner(i)
    BY <1>1, <1>3, <2>2, WinnersOfGroups DEF Group
  <2>4. PICK k \in DOMAIN rows[w.cat] : rows[w.cat][k] = w
    BY <1>1, <1>3, <2>2, <2>3 DEF WinnersArePlaced
  <2>5. w \in Docs /\ w.cat \in Categories /\ Winner(i) \in DOMAIN occurrences
    <3>1. Winner(i) \in DOMAIN occurrences
      BY <2>1 DEF Group
    <3>2. w \in Docs
      BY <1>1, <3>1
    <3> QED
      BY <3>1, <3>2 DEF Docs
  <2>6. k \in Of(w.cat)
    BY <2>1, <2>4
  <2>7. ASSUME NEW c \in Categories, NEW l \in Of(c) PROVE c = w.cat /\ l = k
    <3>1. PICK j \in source : rows[c][l] = occurrences[j]
      OBVIOUS
    <3>2. PICK g \in DOMAIN occurrences : IsHead(g) /\ rows[c][l] = occurrences[Winner(g)]
      BY <1>1, <1>3, <2>7 DEF WinnersArePlaced
    <3>3. j \in DOMAIN occurrences /\ RootOf(j) = RootOf(i)
      BY <2>1, <3>1 DEF Group
    <3>4. Winner(g) \in DOMAIN occurrences /\ RootOf(Winner(g)) = RootOf(g)
      BY <1>1, <3>2, WinnersOfGroups
    <3>5. Winner(g) = j
      BY <1>1, <3>1, <3>2, <3>3, <3>4 DEF RefsAreUnique
    <3>6. Winner(g) = Winner(i)
      BY <1>1, <1>3, <3>2, <3>3, <3>4, <3>5, WinnersOfGroups
    <3>7. rows[c][l].ref = rows[w.cat][k].ref
      BY <2>4, <3>2, <3>6
    <3> QED
      BY <1>1, <2>4, <2>5, <2>7, <3>7 DEF RefsAreUnique
  <2> DEFINE p == <<w.cat, k>>
  <2>8. p \in offered
    <3>1. p \in {w.cat} \X Of(w.cat)
      BY <2>6
    <3> HIDE DEF Of, p, w
    <3> QED
      BY <2>5, <3>1
  <2>9. offered \subseteq {p}
    <3>1. ASSUME NEW q \in offered PROVE q = p
      <4>1. PICK c \in Categories : q \in {c} \X Of(c)
        BY <3>1
      <4> HIDE DEF Of
      <4>2. PICK l \in Of(c) : q = <<c, l>>
        BY <4>1
      <4> QED
        BY <4>2, <2>7
    <3> QED
      BY <3>1
  <2>10. rows[p[1]][p[2]] = occurrences[Foremost(occurrences, source)]
    BY <2>1, <2>4
  <2> HIDE DEF p, offered
  <2>11. \E r \in offered : offered = {r} /\ rows[r[1]][r[2]] = occurrences[Foremost(occurrences, source)]
    BY <2>8, <2>9, <2>10
  <2> QED
    BY <2>11 DEF offered
<1>4. ASSUME stage = "done", NEW i \in DOMAIN occurrences
      PROVE  sources \cap SourceOf(occurrences, i) = {Foremost(occurrences, SourceOf(occurrences, i))}
  <2>1. /\ Group(i) = SourceOf(occurrences, i) /\ Winner(i) = Foremost(occurrences, SourceOf(occurrences, i))
        /\ Winner(i) \in Group(i)
    BY <1>2, <1>4
  <2>2. sources = {Winner(j) : j \in DOMAIN occurrences}
    BY <1>1, <1>4 DEF WinnersAreEvidence
  <2>3. ASSUME NEW j \in DOMAIN occurrences, Winner(j) \in Group(i) PROVE Winner(j) = Winner(i)
    BY <1>1, <1>4, <2>3, WinnersOfGroups DEF Group
  <2> QED
    BY <2>1, <2>2, <2>3
<1>5. ASSUME stage = "done", NEW v \in sources, NEW w \in sources, Identity(occurrences[v]) = Identity(occurrences[w])
      PROVE  v = w
  <2>1. PICK i \in DOMAIN occurrences : v = Winner(i)
    BY <1>1, <1>5 DEF WinnersAreEvidence
  <2>2. PICK j \in DOMAIN occurrences : w = Winner(j)
    BY <1>1, <1>5 DEF WinnersAreEvidence
  <2>3. RootOf(v) = RootOf(w)
    BY <1>5 DEF RootOf
  <2>4. RootOf(v) = RootOf(i) /\ RootOf(w) = RootOf(j)
    BY <1>1, <2>1, <2>2, WinnersOfGroups
  <2> QED
    BY <1>1, <2>1, <2>2, <2>3, <2>4, WinnersOfGroups
<1> QED
  BY <1>3, <1>4, <1>5 DEF OneWinnerPerSource

-----------------------------------------------------------------------------
(* The invariant is kept: what a step leaves alone.                         *)

\* What counts and turns are made of.
LEMMA DrawnStays ==
    UNCHANGED <<rows, cursor, drawn>> =>
        (\A c : Got(c)' = Got(c)) /\ (\A n, k : Turns(n, k)' <=> Turns(n, k))
BY DEF Got, Turns

\* What groups, their winners and their heads are made of.
LEMMA GroupsStay ==
    UNCHANGED <<occurrences, root>> =>
        /\ \A i : RootOf(i)' = RootOf(i) /\ Group(i)' = Group(i) /\ Winner(i)' = Winner(i)
        /\ \A i, j : Linked(i, j)' <=> Linked(i, j)
        /\ \A h : IsHead(h)' <=> IsHead(h)
<1> SUFFICES ASSUME UNCHANGED <<occurrences, root>>
             PROVE  /\ \A i : RootOf(i)' = RootOf(i) /\ Group(i)' = Group(i) /\ Winner(i)' = Winner(i)
                    /\ \A i, j : Linked(i, j)' <=> Linked(i, j)
                    /\ \A h : IsHead(h)' <=> IsHead(h)
  OBVIOUS
<1>1. \A i : RootOf(i)' = RootOf(i)
  BY DEF RootOf
<1>2. \A i : Group(i)' = Group(i)
  BY <1>1 DEF Group
<1>3. \A i : Winner(i)' = Winner(i)
  BY <1>2 DEF Winner
<1>4. \A i, j : Linked(i, j)' <=> Linked(i, j)
  BY DEF Linked
<1>5. \A h : IsHead(h)' <=> IsHead(h)
  BY <1>2 DEF IsHead
<1> QED
  BY <1>1, <1>2, <1>3, <1>4, <1>5

\* A step that changes nothing.
LEMMA SourcesRest == SourcesIInv /\ UNCHANGED sourceVars => SourcesIInv'
<1> SUFFICES ASSUME SourcesIInv, UNCHANGED sourceVars PROVE SourcesIInv'
  OBVIOUS
<1> USE DEF SourcesIInv, sourceVars, drawing
<1>1. SourcesTypeOK' /\ RefsAreUnique'
  BY DEF SourcesTypeOK, RefsAreUnique
<1>2. DrawnByCursor' /\ PassesInTurn'
  BY DrawnStays DEF DrawnByCursor, PassesInTurn
<1>3. GroupsAreSources' /\ WinnersArePlaced'
  BY GroupsStay DEF GroupsAreSources, WinnersArePlaced
<1>4. WinnersAreEvidence'
  <2>1. {Winner(i) : i \in DOMAIN occurrences}' = {Winner(i) : i \in DOMAIN occurrences}
    BY GroupsStay
  <2> QED
    BY <2>1 DEF WinnersAreEvidence
<1> QED
  BY <1>1, <1>2, <1>3, <1>4

\* At the start nothing was found.
LEMMA SourcesBegin == SourcesInit => SourcesIInv
<1> SUFFICES ASSUME SourcesInit PROVE SourcesIInv
  OBVIOUS
<1> USE SourcesAssumption DEF SourcesInit
<1>1. SourcesTypeOK
  <2>1. Len(Order) \in Nat
    OBVIOUS
  <2>2. Identities(occurrences) = {} /\ root \in [{} -> {}]
    BY DEF Identities
  <2>3. rows \in [Categories -> Seq(Docs)] /\ cursor \in [Categories -> Nat]
    OBVIOUS
  <2>4. drawn \in Seq(Docs) /\ occurrences \in Seq(Docs) /\ sources \subseteq DOMAIN occurrences
    OBVIOUS
  <2>5. at \in Nat \ {0} /\ taken \in Nat /\ progressed \in BOOLEAN
    <3>1. at = 1 /\ taken = 0
      OBVIOUS
    <3>2. progressed \in BOOLEAN
      BY Zenon
    <3> QED
      BY <3>1, <3>2
  <2>6. at <= Len(Order) + 1
    <3>1. at = 1
      OBVIOUS
    <3> QED
      BY <2>1, <3>1
  <2> QED
    BY <2>2, <2>3, <2>4, <2>5, <2>6, Zenon DEF SourcesTypeOK
<1>2. \A c \in Categories : Got(c) = 0 /\ rows[c] = <<>> /\ cursor[c] = 0
  BY FS_EmptySet DEF Got
<1>3. RefsAreUnique /\ DrawnByCursor /\ PassesInTurn
  BY <1>2 DEF RefsAreUnique, DrawnByCursor, PassesInTurn, LimitOf
<1>4. GroupsAreSources /\ WinnersArePlaced /\ WinnersAreEvidence
  BY DEF GroupsAreSources, WinnersArePlaced, WinnersAreEvidence
<1> QED
  BY <1>1, <1>3, <1>4 DEF SourcesIInv

-----------------------------------------------------------------------------
(* Searching and drawing.                                                  *)

\* A result is a new document of its category.
LEMMA ResultIsNew ==
    ASSUME SourcesIInv, NEW page \in Page, NEW ref \in Fresh, at \in DOMAIN Order, stage = "search"
    PROVE  LET doc == ToSourceDocument(page, ref, Order[at], Len(rows[Order[at]]))
           IN /\ doc \in Docs /\ doc.cat = Order[at] /\ Order[at] \in Categories
              /\ \A c \in Categories : \A i \in DOMAIN rows[c] : rows[c][i].ref # doc.ref
<1>1. Order[at] \in Categories
  BY DEF Categories
<1>2. rows[Order[at]] \in Seq(Docs)
  BY <1>1 DEF SourcesIInv, SourcesTypeOK
<1>3. page \in [ raw : STRING, own : BOOLEAN, url : STRING, sha : STRING, len : Nat, dated : BOOLEAN,
                 relevance : Int, id : Int ]
  BY SourcesAssumption
<1>4. ref \in Refs /\ page.raw \in {p.raw : p \in Page} /\ Len(rows[Order[at]]) \in Nat
  BY <1>2 DEF Fresh
<1>5. ToSourceDocument(page, ref, Order[at], Len(rows[Order[at]])) \in Docs
  BY <1>1, <1>3, <1>4 DEF ToSourceDocument, Docs
<1>6. \A c \in Categories : \A i \in DOMAIN rows[c] : rows[c][i].ref # ref
  BY DEF Fresh
<1> QED
  BY <1>1, <1>5, <1>6 DEF ToSourceDocument

\* What a row gains at its end is in one place only, if it was in none.
LEMMA RowGrows ==
    ASSUME rows \in [Categories -> Seq(Docs)], NEW o \in Categories, NEW doc \in Docs, doc.cat = o,
           rows' = [rows EXCEPT ![o] = Append(rows[o], doc)],
           \A c, d \in Categories : \A i \in DOMAIN rows[c], j \in DOMAIN rows[d] :
               rows[c][i].ref = rows[d][j].ref => c = d /\ i = j,
           \A c \in Categories : \A i \in DOMAIN rows[c] : rows[c][i].cat = c /\ rows[c][i].ref # doc.ref
    PROVE  /\ rows' \in [Categories -> Seq(Docs)]
           /\ \A c \in Categories : Len(rows[c]) \in Nat /\ Len(rows[c]) <= Len(rows'[c]) /\ Len(rows'[c]) \in Nat
           /\ \A c \in Categories : \A i \in DOMAIN rows[c] : i \in DOMAIN rows'[c] /\ rows'[c][i] = rows[c][i]
           /\ Len(rows[o]) + 1 \in DOMAIN rows'[o] /\ rows'[o][Len(rows[o]) + 1] = doc
           /\ \A c \in Categories : \A i \in DOMAIN rows'[c] :
                  \/ i \in DOMAIN rows[c] /\ rows'[c][i] = rows[c][i]
                  \/ c = o /\ i = Len(rows[o]) + 1 /\ rows'[c][i] = doc
           /\ \A c, d \in Categories : \A i \in DOMAIN rows'[c], j \in DOMAIN rows'[d] :
                  rows'[c][i].ref = rows'[d][j].ref => c = d /\ i = j
           /\ \A c \in Categories : \A i \in DOMAIN rows'[c] : rows'[c][i].cat = c
<1>1. /\ rows' \in [Categories -> Seq(Docs)]
      /\ rows'[o] = Append(rows[o], doc) /\ Len(rows'[o]) = Len(rows[o]) + 1
      /\ \A i \in DOMAIN rows[o] : rows'[o][i] = rows[o][i]
      /\ rows'[o][Len(rows[o]) + 1] = doc /\ DOMAIN rows'[o] = DOMAIN rows[o] \cup {Len(rows[o]) + 1}
      /\ \A c \in Categories \ {o} : rows'[c] = rows[c]
  <2>1. rows[o] \in Seq(Docs)
    OBVIOUS
  <2> QED
    BY <2>1
<1>2. \A c \in Categories : Len(rows[c]) \in Nat /\ Len(rows'[c]) \in Nat
  BY <1>1
<1>3. \A c \in Categories : Len(rows[c]) <= Len(rows'[c])
  BY <1>1, <1>2
<1>4. \A c \in Categories : \A i \in DOMAIN rows[c] : i \in DOMAIN rows'[c] /\ rows'[c][i] = rows[c][i]
  BY <1>1
<1>5. \A c \in Categories : \A i \in DOMAIN rows'[c] :
          \/ i \in DOMAIN rows[c] /\ rows'[c][i] = rows[c][i]
          \/ c = o /\ i = Len(rows[o]) + 1 /\ rows'[c][i] = doc
  <2> TAKE c \in Categories
  <2>1. CASE c = o
    BY <1>1, <2>1
  <2>2. CASE c # o
    BY <1>1, <2>2
  <2> QED
    BY <2>1, <2>2
<1>6. \A c, d \in Categories : \A i \in DOMAIN rows'[c], j \in DOMAIN rows'[d] :
          rows'[c][i].ref = rows'[d][j].ref => c = d /\ i = j
  BY <1>5
<1>7. \A c \in Categories : \A i \in DOMAIN rows'[c] : rows'[c][i].cat = c
  BY <1>5
<1> QED
  BY <1>1, <1>2, <1>3, <1>4, <1>5, <1>6, <1>7

\* A result goes to the end of its category's row, or nowhere.
LEMMA SearchKeepsSources == SourcesIInv /\ (\E page \in Page : SearchResult(page)) => SourcesIInv'
<1> SUFFICES ASSUME SourcesIInv, NEW page \in Page, SearchResult(page) PROVE SourcesIInv'
  OBVIOUS
<1> USE DEF SourcesIInv
<1>0. /\ UNCHANGED <<stage, at, cursor, progressed, drawn, occurrences, root, sources>> /\ stage = "search"
      /\ at \in DOMAIN Order /\ taken' = taken + 1
  BY DEF SearchResult
<1>1. ASSUME NEW ref \in Fresh,
             rows' = [rows EXCEPT ![Order[at]] = Append(@, ToSourceDocument(page, ref, Order[at], Len(@)))]
      PROVE  SourcesIInv'
  <2> DEFINE doc == ToSourceDocument(page, ref, Order[at], Len(rows[Order[at]]))
             o == Order[at]
  <2>1. /\ doc \in Docs /\ doc.cat = o /\ o \in Categories
        /\ \A c \in Categories : \A i \in DOMAIN rows[c] : rows[c][i].ref # doc.ref
    BY <1>0, ResultIsNew
  <2>2. rows' = [rows EXCEPT ![o] = Append(rows[o], doc)] /\ rows \in [Categories -> Seq(Docs)]
    BY <1>1, <2>1 DEF SourcesTypeOK
  <2> HIDE DEF doc, o
  <2>3. /\ rows' \in [Categories -> Seq(Docs)]
        /\ \A c \in Categories : Len(rows[c]) \in Nat /\ Len(rows[c]) <= Len(rows'[c]) /\ Len(rows'[c]) \in Nat
        /\ \A c, d \in Categories : \A i \in DOMAIN rows'[c], j \in DOMAIN rows'[d] :
               rows'[c][i].ref = rows'[d][j].ref => c = d /\ i = j
        /\ \A c \in Categories : \A i \in DOMAIN rows'[c] : rows'[c][i].cat = c
    BY <2>1, <2>2, RowGrows DEF RefsAreUnique, DrawnByCursor
  <2>5. SourcesTypeOK'
    BY <1>0, <2>3 DEF SourcesTypeOK
  <2>6. RefsAreUnique'
    BY <1>0, <2>3 DEF RefsAreUnique
  <2>7. \A c \in Categories : Got(c)' = Got(c)
    BY <1>0 DEF Got
  <2>9. DrawnByCursor'
    <3>1. \A c \in Categories : cursor[c] \in Nat /\ cursor[c] <= Len(rows'[c])
      BY <2>3 DEF DrawnByCursor, SourcesTypeOK
    <3>2. drawn = <<>>
      BY <1>0 DEF DrawnByCursor
    <3>3. LimitOf(stage)' = LimitOf(stage)
      BY <1>0 DEF LimitOf
    <3> QED
      BY <1>0, <2>3, <2>7, <3>1, <3>2, <3>3 DEF DrawnByCursor
  <2>10. PassesInTurn'
    BY <1>0 DEF PassesInTurn
  <2>11. GroupsAreSources' /\ WinnersArePlaced' /\ WinnersAreEvidence'
    BY <1>0, GroupsStay DEF GroupsAreSources, WinnersArePlaced, WinnersAreEvidence
  <2> QED
    BY <2>5, <2>6, <2>9, <2>10, <2>11
<1>2. CASE UNCHANGED rows
  <2>1. SourcesTypeOK' /\ RefsAreUnique'
    BY <1>0, <1>2 DEF SourcesTypeOK, RefsAreUnique
  <2>2. DrawnByCursor' /\ PassesInTurn'
    BY <1>0, <1>2, DrawnStays DEF DrawnByCursor, PassesInTurn
  <2>3. GroupsAreSources' /\ WinnersArePlaced' /\ WinnersAreEvidence'
    BY <1>0, GroupsStay DEF GroupsAreSources, WinnersArePlaced, WinnersAreEvidence
  <2> QED
    BY <2>1, <2>2, <2>3
<1> QED
  BY <1>1, <1>2 DEF SearchResult

\* Another query, or none.
LEMMA QueriesKeepSources == SourcesIInv /\ (NextQuery \/ StartAllocation) => SourcesIInv'
<1> SUFFICES ASSUME SourcesIInv, NextQuery \/ StartAllocation PROVE SourcesIInv'
  OBVIOUS
<1> USE DEF SourcesIInv, NextQuery, StartAllocation, drawing
<1>0. UNCHANGED <<drawing, occurrences, root, sources>> /\ stage = "search" /\ stage' \in {"search", "allocate"}
  OBVIOUS
<1>1. SourcesTypeOK'
  <2>1. Len(Order) \in Nat /\ DOMAIN Order = 1..Len(Order)
    BY SourcesAssumption
  <2> QED
    BY <2>1 DEF SourcesTypeOK
<1>2. RefsAreUnique' /\ DrawnByCursor'
  <2>1. Len(drawn) = 0 /\ LimitOf(stage)' \in Nat
    BY SourcesAssumption, <1>0 DEF DrawnByCursor, LimitOf
  <2> QED
    BY <1>0, <2>1, DrawnStays DEF RefsAreUnique, DrawnByCursor
<1>3. PassesInTurn'
  <2>1. CASE NextQuery
    BY <2>1 DEF PassesInTurn
  <2>2. CASE StartAllocation
    <3>1. \A c \in Categories : cursor[c] = 0 /\ Len(rows[c]) \in Nat
      <4>1. \A c \in Categories : Got(c) = 0
        BY <1>0, FS_EmptySet DEF DrawnByCursor, Got
      <4> QED
        BY <4>1 DEF DrawnByCursor, SourcesTypeOK
    <3>2. \A i \in DOMAIN Order : Order[i] \in Categories /\ ~(i < 1)
      BY SourcesAssumption DEF Categories
    <3>3. Turns(0, 1)
      BY <3>1, <3>2 DEF Turns
    <3>4. Turns(0, 1)'
      BY <1>0, <3>3, DrawnStays
    <3>5. ~progressed' /\ at' = 1 /\ stage' = "allocate"
      BY <2>2, <1>0 DEF PassesInTurn
    <3> QED
      BY <3>2, <3>4, <3>5 DEF PassesInTurn
  <2> QED
    BY <2>1, <2>2
<1>4. GroupsAreSources' /\ WinnersArePlaced' /\ WinnersAreEvidence'
  BY <1>0, GroupsStay DEF GroupsAreSources, WinnersArePlaced, WinnersAreEvidence
<1> QED
  BY <1>1, <1>2, <1>3, <1>4

\* A place in a sequence that one is added to.
LEMMA OneDrawn ==
    ASSUME SourcesTypeOK, drawn \in Seq(Docs), NEW doc \in Docs, drawn' = Append(drawn, doc)
    PROVE  /\ drawn' \in Seq(Docs) /\ Len(drawn') = Len(drawn) + 1 /\ Len(drawn) \in Nat
           /\ DOMAIN drawn' = DOMAIN drawn \cup {Len(drawn) + 1}
           /\ \A k \in DOMAIN drawn : drawn'[k] = drawn[k]
           /\ drawn'[Len(drawn) + 1] = doc
           /\ \A c : Got(c)' = IF doc.cat = c THEN Got(c) + 1 ELSE Got(c)
<1>1. /\ drawn' \in Seq(Docs) /\ Len(drawn') = Len(drawn) + 1 /\ Len(drawn) \in Nat
      /\ DOMAIN drawn' = DOMAIN drawn \cup {Len(drawn) + 1}
      /\ \A k \in DOMAIN drawn : drawn'[k] = drawn[k]
      /\ drawn'[Len(drawn) + 1] = doc /\ Len(drawn) + 1 \notin DOMAIN drawn
  OBVIOUS
<1>2. ASSUME NEW c PROVE Got(c)' = IF doc.cat = c THEN Got(c) + 1 ELSE Got(c)
  <2> DEFINE got == {i \in DOMAIN drawn : drawn[i].cat = c}
             gets == {i \in DOMAIN drawn' : drawn'[i].cat = c}
  <2>1. IsFiniteSet(got)
    BY ListsAreFinite, FS_Subset
  <2>2. gets = IF doc.cat = c THEN got \cup {Len(drawn) + 1} ELSE got
    BY <1>1
  <2>3. Len(drawn) + 1 \notin got
    BY <1>1
  <2>4. Got(c) = Cardinality(got) /\ Got(c)' = Cardinality(gets)
    BY DEF Got
  <2> HIDE DEF got, gets
  <2> QED
    BY <2>1, <2>2, <2>3, <2>4, FS_AddElement
<1> QED
  BY <1>1, <1>2

\* One document is drawn, from the category whose turn it is.
LEMMA DrawKeepsSources == SourcesIInv /\ Draw => SourcesIInv'
<1> SUFFICES ASSUME SourcesIInv, Draw PROVE SourcesIInv'
  OBVIOUS
<1> USE DEF SourcesIInv
<1> DEFINE o == Order[at]
           doc == rows[o][cursor[o] + 1]
<1>1. /\ stage \in {"allocate", "rank"} /\ Len(drawn) < LimitOf(stage) /\ at \in DOMAIN Order /\ at' = at + 1
      /\ UNCHANGED <<stage, taken, rows, occurrences, root, sources>>
  BY DEF Draw
<1>2. /\ o \in Categories /\ at \in 1..Len(Order) /\ Len(Order) \in Nat /\ DOMAIN Order = 1..Len(Order)
      /\ \A i \in DOMAIN Order : Order[i] \in Categories /\ (Order[i] = o => i = at)
  BY SourcesAssumption, <1>1 DEF Categories
<1>3. /\ rows \in [Categories -> Seq(Docs)] /\ cursor \in [Categories -> Nat] /\ drawn \in Seq(Docs)
      /\ \A c \in Categories : /\ Got(c) = cursor[c] /\ cursor[c] <= Len(rows[c]) /\ cursor[c] \in Nat
                               /\ Len(rows[c]) \in Nat /\ DOMAIN rows[c] = 1..Len(rows[c])
  BY DEF SourcesTypeOK, DrawnByCursor
<1>4. PICK n \in Nat : /\ Turns(n, at)
                       /\ progressed <=> \E i \in DOMAIN Order : i < at /\ n < Len(rows[Order[i]])
  BY <1>1 DEF PassesInTurn
<1>5. cursor[o] = IF n <= Len(rows[o]) THEN n ELSE Len(rows[o])
  BY <1>1, <1>2, <1>4 DEF Turns
<1>6. LimitOf(stage) \in Nat /\ LimitOf(stage)' = LimitOf(stage)
  BY <1>1, SourcesAssumption DEF LimitOf
<1>7. RefsAreUnique' /\ GroupsAreSources' /\ WinnersArePlaced' /\ WinnersAreEvidence'
  BY <1>1, GroupsStay DEF RefsAreUnique, GroupsAreSources, WinnersArePlaced, WinnersAreEvidence
<1>8. CASE cursor[o] < Len(rows[o])
  <2>1. /\ drawn' = Append(drawn, doc) /\ cursor' = [cursor EXCEPT ![o] = cursor[o] + 1] /\ progressed' = TRUE
    BY <1>2, <1>3, <1>8 DEF Draw
  <2>2. doc \in Docs /\ doc.cat = o /\ cursor[o] + 1 \in DOMAIN rows[o]
    <3>1. cursor[o] + 1 \in DOMAIN rows[o] /\ rows[o] \in Seq(Docs)
      BY <1>2, <1>3, <1>8
    <3>2. doc \in Docs
      BY <3>1
    <3> QED
      BY <1>2, <3>1, <3>2 DEF DrawnByCursor
  <2> HIDE DEF doc
  <2>3. /\ drawn' \in Seq(Docs) /\ Len(drawn') = Len(drawn) + 1 /\ Len(drawn) \in Nat
        /\ DOMAIN drawn' = DOMAIN drawn \cup {Len(drawn) + 1}
        /\ \A k \in DOMAIN drawn : drawn'[k] = drawn[k]
        /\ drawn'[Len(drawn) + 1] = doc
        /\ \A c : Got(c)' = IF doc.cat = c THEN Got(c) + 1 ELSE Got(c)
    BY <1>3, <2>1, <2>2, OneDrawn
  <2>4. /\ cursor' \in [Categories -> Nat] /\ cursor'[o] = cursor[o] + 1
        /\ \A c \in Categories \ {o} : cursor'[c] = cursor[c]
    BY <1>2, <1>3, <2>1
  <2>5. SourcesTypeOK'
    BY <1>1, <1>2, <2>1, <2>3, <2>4 DEF SourcesTypeOK
  <2>6. DrawnByCursor'
    <3>1. \A c \in Categories : Got(c)' = cursor'[c] /\ cursor'[c] <= Len(rows[c])
      <4>1. ASSUME NEW c \in Categories, c # o PROVE Got(c)' = cursor'[c] /\ cursor'[c] <= Len(rows[c])
        BY <1>3, <2>2, <2>3, <2>4, <4>1
      <4>2. ASSUME NEW c \in Categories, c = o PROVE Got(c)' = cursor'[c] /\ cursor'[c] <= Len(rows[c])
        <5>1. Got(c)' = Got(c) + 1
          BY <2>2, <2>3, <4>2
        <5> QED
          BY <1>3, <1>8, <2>4, <4>2, <5>1
      <4> QED
        BY <4>1, <4>2
    <3>2. ASSUME stage = "allocate", NEW k \in DOMAIN drawn'
          PROVE  \E i \in 1..cursor'[drawn'[k].cat] : drawn'[k] = rows[drawn'[k].cat][i]
      <4>1. CASE k \in DOMAIN drawn
        <5>1. drawn'[k] = drawn[k] /\ drawn[k] \in Docs /\ drawn[k].cat \in Categories
          <6>1. drawn'[k] = drawn[k] /\ drawn[k] \in Docs
            BY <1>3, <2>3, <4>1
          <6> QED
            BY <6>1 DEF Docs
        <5>2. PICK i \in 1..cursor[drawn[k].cat] : drawn[k] = rows[drawn[k].cat][i]
          BY <3>2, <4>1 DEF DrawnByCursor
        <5>3. i \in 1..cursor'[drawn[k].cat]
          <6>1. cursor'[drawn[k].cat] \in Nat /\ cursor[drawn[k].cat] \in Nat
                /\ cursor[drawn[k].cat] <= cursor'[drawn[k].cat]
            <7>1. drawn[k].cat = o \/ cursor'[drawn[k].cat] = cursor[drawn[k].cat]
              BY <2>4, <5>1
            <7> QED
              BY <1>3, <2>4, <5>1, <7>1
          <6> QED
            BY <5>2, <6>1
        <5> QED
          BY <5>1, <5>2, <5>3
      <4>2. CASE k = Len(drawn) + 1
        <5>1. drawn'[k] = doc /\ drawn'[k].cat = o
          BY <2>2, <2>3, <4>2
        <5>2. cursor[o] + 1 \in 1..cursor'[o]
          BY <1>2, <1>3, <2>4
        <5> QED
          BY <5>1, <5>2 DEF doc
      <4> QED
        BY <2>3, <4>1, <4>2
    <3>3. ASSUME stage = "allocate", NEW k \in DOMAIN drawn PROVE drawn[k].ref # doc.ref
      <4>1. drawn[k] \in Docs /\ drawn[k].cat \in Categories
        <5>1. drawn[k] \in Docs
          BY <1>3
        <5> QED
          BY <5>1 DEF Docs
      <4>2. PICK i \in 1..cursor[drawn[k].cat] : drawn[k] = rows[drawn[k].cat][i]
        BY <3>3 DEF DrawnByCursor
      <4>3. i \in DOMAIN rows[drawn[k].cat] /\ i < cursor[drawn[k].cat] + 1
        BY <1>3, <4>1, <4>2
      <4>4. CASE drawn[k].ref = rows[o][cursor[o] + 1].ref
        <5>1. drawn[k].cat = o /\ i = cursor[o] + 1
          BY <1>2, <2>2, <4>1, <4>2, <4>3, <4>4 DEF RefsAreUnique
        <5> QED
          BY <4>3, <5>1, <1>3
      <4> QED
        BY <4>4 DEF doc
    <3>4. ASSUME stage = "allocate", NEW k \in DOMAIN drawn', NEW l \in DOMAIN drawn', drawn'[k].ref = drawn'[l].ref
          PROVE  k = l
      <4>1. CASE k \in DOMAIN drawn /\ l \in DOMAIN drawn
        BY <3>4, <4>1, <2>3 DEF DrawnByCursor
      <4>2. CASE k \in DOMAIN drawn /\ l = Len(drawn) + 1
        BY <3>3, <3>4, <4>2, <2>3
      <4>3. CASE l \in DOMAIN drawn /\ k = Len(drawn) + 1
        BY <3>3, <3>4, <4>3, <2>3
      <4> QED
        BY <2>3, <4>1, <4>2, <4>3
    <3>5. Len(drawn') <= LimitOf(stage)'
      BY <1>1, <1>6, <2>3
    <3>6. \A c \in Categories : \A i \in DOMAIN rows'[c] : rows'[c][i].cat = c
      BY <1>1 DEF DrawnByCursor
    <3> QED
      BY <1>1, <3>1, <3>2, <3>4, <3>5, <3>6 DEF DrawnByCursor
  <2>7. PassesInTurn'
    <3>1. n < Len(rows[o]) /\ cursor[o] = n
      BY <1>2, <1>3, <1>5, <1>8
    <3>2. ASSUME NEW i \in DOMAIN Order
          PROVE  LET turns == IF i < at + 1 THEN n + 1 ELSE n
                     found == Len(rows[Order[i]])
                 IN cursor'[Order[i]] = IF turns <= found THEN turns ELSE found
      <4>1. CASE i = at
        BY <1>2, <1>3, <2>4, <3>1, <4>1
      <4>2. CASE i # at
        <5>1. Order[i] # o /\ (i < at + 1 <=> i < at)
          BY <1>2, <4>2
        <5> QED
          BY <1>2, <1>4, <2>4, <5>1 DEF Turns
      <4> QED
        BY <4>1, <4>2
    <3>3. Turns(n, at)'
      BY <1>1, <3>2 DEF Turns
    <3>4. \E i \in DOMAIN Order : i < at + 1 /\ n < Len(rows[Order[i]])
      BY <1>2, <3>1
    <3> QED
      BY <1>1, <2>1, <3>3, <3>4 DEF PassesInTurn
  <2> QED
    BY <1>7, <2>5, <2>6, <2>7
<1>9. CASE ~(cursor[o] < Len(rows[o]))
  <2>1. UNCHANGED <<drawn, cursor, progressed>>
    BY <1>9 DEF Draw
  <2>2. SourcesTypeOK' /\ DrawnByCursor'
    BY <1>1, <1>2, <1>6, <2>1, DrawnStays DEF SourcesTypeOK, DrawnByCursor
  <2>3. ~(n < Len(rows[o])) /\ cursor[o] = Len(rows[o])
    BY <1>2, <1>3, <1>5, <1>9
  <2>4. PassesInTurn'
    <3>1. ASSUME NEW i \in DOMAIN Order
          PROVE  LET turns == IF i < at + 1 THEN n + 1 ELSE n
                     found == Len(rows[Order[i]])
                 IN cursor[Order[i]] = IF turns <= found THEN turns ELSE found
      <4>1. CASE i = at
        BY <1>2, <1>3, <2>3, <4>1
      <4>2. CASE i # at
        <5>1. i < at + 1 <=> i < at
          BY <1>2, <4>2
        <5> QED
          BY <1>4, <5>1 DEF Turns
      <4> QED
        BY <4>1, <4>2
    <3>2. Turns(n, at)'
      BY <1>1, <2>1, <3>1 DEF Turns
    <3>3. \A i \in DOMAIN Order : i < at + 1 /\ n < Len(rows[Order[i]]) <=> i < at /\ n < Len(rows[Order[i]])
      BY <1>2, <2>3
    <3> QED
      BY <1>1, <1>4, <2>1, <3>2, <3>3 DEF PassesInTurn
  <2> QED
    BY <1>7, <2>2, <2>4
<1> QED
  BY <1>8, <1>9

\* A pass ends, and another begins.
LEMMA PassKeepsSources == SourcesIInv /\ NextPass => SourcesIInv'
<1> SUFFICES ASSUME SourcesIInv, NextPass PROVE SourcesIInv'
  OBVIOUS
<1> USE DEF SourcesIInv
<1>1. /\ stage \in {"allocate", "rank"} /\ at = Len(Order) + 1 /\ at' = 1 /\ progressed' = FALSE
      /\ UNCHANGED <<stage, taken, rows, cursor, drawn, occurrences, root, sources>>
  BY DEF NextPass, AtEnd
<1>2. Len(Order) \in Nat /\ DOMAIN Order = 1..Len(Order)
  BY SourcesAssumption
<1>3. SourcesTypeOK' /\ RefsAreUnique' /\ DrawnByCursor'
  <2>1. LimitOf(stage)' = LimitOf(stage)
    BY <1>1 DEF LimitOf
  <2> QED
    <3>1. SourcesTypeOK'
      <4>1. at' \in Nat \ {0} /\ at' <= Len(Order) + 1
        BY <1>1, <1>2
      <4> QED
        BY <1>1, <4>1 DEF SourcesTypeOK
    <3>2. RefsAreUnique'
      BY <1>1 DEF RefsAreUnique
    <3>3. DrawnByCursor'
      BY <1>1, <2>1, DrawnStays DEF DrawnByCursor
    <3> QED
      BY <3>1, <3>2, <3>3
<1>4. PassesInTurn'
  <2>1. PICK n \in Nat : Turns(n, at)
    BY <1>1 DEF PassesInTurn
  <2>2. Turns(n + 1, 1)
    BY <1>1, <1>2, <2>1 DEF Turns
  <2>3. Turns(n + 1, 1)' /\ n + 1 \in Nat
    BY <1>1, <2>2, DrawnStays
  <2>4. \A i \in DOMAIN Order : ~(i < 1)
    BY <1>2
  <2> QED
    BY <1>1, <2>3, <2>4 DEF PassesInTurn
<1>5. GroupsAreSources' /\ WinnersArePlaced' /\ WinnersAreEvidence'
  BY <1>1, GroupsStay DEF GroupsAreSources, WinnersArePlaced, WinnersAreEvidence
<1> QED
  BY <1>3, <1>4, <1>5

\* Once all is drawn, the passes have gone through what there is or what is asked for.
LEMMA DrawingEndsWell ==
    ASSUME SourcesIInv, stage \in {"allocate", "rank"}, AllDrawn
    PROVE  /\ Len(drawn) = LimitOf(stage) \/ \A c \in Categories : cursor[c] = Len(rows[c])
           /\ \E n, k \in Nat : Turns(n, k)
<1> USE DEF SourcesIInv
<1>1. PICK n \in Nat : /\ Turns(n, at)
                       /\ progressed <=> \E i \in DOMAIN Order : i < at /\ n < Len(rows[Order[i]])
  BY DEF PassesInTurn
<1>2. at \in Nat /\ Len(Order) \in Nat /\ DOMAIN Order = 1..Len(Order)
  BY SourcesAssumption DEF SourcesTypeOK
<1>3. CASE Len(drawn) >= LimitOf(stage)
  <2>1. Len(drawn) \in Nat /\ LimitOf(stage) \in Nat
    BY SourcesAssumption DEF SourcesTypeOK, LimitOf
  <2>2. Len(drawn) <= LimitOf(stage)
    BY DEF DrawnByCursor
  <2>3. Len(drawn) = LimitOf(stage)
    BY <1>3, <2>1, <2>2
  <2> QED
    BY <1>1, <1>2, <2>3
<1>4. CASE at = Len(Order) + 1 /\ ~progressed
  <2>1. ASSUME NEW c \in Categories PROVE cursor[c] = Len(rows[c])
    <3>1. PICK i \in DOMAIN Order : c = Order[i]
      BY DEF Categories
    <3>2. i < at /\ ~(n < Len(rows[c])) /\ Len(rows[c]) \in Nat
      BY <1>1, <1>2, <1>4, <3>1 DEF SourcesTypeOK
    <3>3. cursor[c] = IF n + 1 <= Len(rows[c]) THEN n + 1 ELSE Len(rows[c])
      BY <1>1, <3>1, <3>2 DEF Turns
    <3> QED
      BY <3>2, <3>3
  <2> QED
    BY <1>1, <1>2, <2>1
<1> QED
  BY <1>3, <1>4 DEF AllDrawn, AtEnd

\* Extraction is given what the second round-robin has drawn.
LEMMA RankingEndsWell == SourcesIInv /\ EndRanking => SourcesIInv'
<1> SUFFICES ASSUME SourcesIInv, EndRanking PROVE SourcesIInv'
  OBVIOUS
<1> USE DEF SourcesIInv
<1>1. /\ stage = "rank" /\ stage' = "extract" /\ AllDrawn
      /\ UNCHANGED <<at, taken, rows, cursor, progressed, drawn, occurrences, root, sources>>
      /\ LimitOf(stage)' = LimitOf(stage)
  BY DEF EndRanking, drawing, LimitOf
<1>2. SourcesTypeOK' /\ RefsAreUnique'
  BY <1>1 DEF SourcesTypeOK, RefsAreUnique
<1>3. DrawnByCursor'
  BY <1>1, DrawnStays DEF DrawnByCursor
<1>4. PassesInTurn'
  BY <1>1, DrawnStays, DrawingEndsWell DEF PassesInTurn
<1>5. GroupsAreSources' /\ WinnersArePlaced' /\ WinnersAreEvidence'
  BY <1>1, GroupsStay DEF GroupsAreSources, WinnersArePlaced, WinnersAreEvidence
<1> QED
  BY <1>2, <1>3, <1>4, <1>5

-----------------------------------------------------------------------------
(* Grouping.                                                               *)

\* At its start each identity is a group.
LEMMA GroupsBegin ==
    ASSUME NEW docs \in Seq(Docs), NEW next \in {"group", "regroup"}, StartGrouping(next, docs),
           \A i, j \in DOMAIN docs : docs[i].ref = docs[j].ref => i = j
    PROVE  /\ occurrences' = docs /\ at' = 1 /\ stage' = next
           /\ root' \in [Identities(occurrences) -> Identities(occurrences)]'
           /\ GroupsAreSources'
           /\ \A i, j \in DOMAIN occurrences' : occurrences'[i].ref = occurrences'[j].ref => i = j
<1>1. occurrences' = docs /\ at' = 1 /\ stage' = next /\ root' = [k \in Identities(docs) |-> k]
  BY DEF StartGrouping
<1>2. Identities(occurrences)' = Identities(docs)
  BY <1>1 DEF Identities
<1>3. \A i \in DOMAIN docs : RootOf(i)' = Identity(docs[i])
  BY <1>1 DEF RootOf, Identities
<1>4. ASSUME NEW i \in DOMAIN docs, NEW j \in DOMAIN docs, RootOf(i)' = RootOf(j)' PROVE Linked(i, j)'
  <2>1. SameSource(docs[i], docs[j]) /\ SameSource(docs[j], docs[i])
    BY <1>3, <1>4 DEF SameSource
  <2> QED
    BY <1>1, <2>1 DEF Linked, Respects
<1>5. \A i \in DOMAIN docs : ~(i < 1)
  OBVIOUS
<1>6. GroupsAreSources'
  BY <1>1, <1>4, <1>5 DEF GroupsAreSources
<1> QED
  BY <1>1, <1>2, <1>6

\* What the first one has drawn is what is kept, and is grouped.
LEMMA AllocationEndsWell == SourcesIInv /\ EndAllocation => SourcesIInv'
<1> SUFFICES ASSUME SourcesIInv, EndAllocation PROVE SourcesIInv'
  OBVIOUS
<1> USE DEF SourcesIInv
<1>1. /\ stage = "allocate" /\ AllDrawn /\ StartGrouping("group", drawn)
      /\ UNCHANGED <<taken, rows, cursor, progressed, drawn, sources>>
  BY DEF EndAllocation, drawing
<1>2. drawn \in Seq(Docs) /\ \A i, j \in DOMAIN drawn : drawn[i].ref = drawn[j].ref => i = j
  BY <1>1 DEF SourcesTypeOK, DrawnByCursor
<1>3. /\ occurrences' = drawn /\ at' = 1 /\ stage' = "group"
      /\ root' \in [Identities(occurrences) -> Identities(occurrences)]'
      /\ GroupsAreSources'
      /\ \A i, j \in DOMAIN occurrences' : occurrences'[i].ref = occurrences'[j].ref => i = j
  BY <1>1, <1>2, GroupsBegin
<1>4. sources = {}
  BY <1>1 DEF WinnersAreEvidence
<1>5. SourcesTypeOK'
  <2>1. 1 <= Len(drawn) + 1 /\ 1 \in Nat \ {0}
    BY <1>2
  <2> QED
    BY <1>1, <1>2, <1>3, <1>4, <2>1 DEF SourcesTypeOK
<1>6. RefsAreUnique'
  BY <1>1, <1>3 DEF RefsAreUnique
<1>7. LimitOf(stage)' = LimitOf(stage)
  BY <1>1, <1>3 DEF LimitOf
<1>8. DrawnByCursor'
  BY <1>1, <1>3, <1>7, DrawnStays DEF DrawnByCursor
<1>9. PassesInTurn'
  BY <1>1, <1>3, <1>7, DrawnStays, DrawingEndsWell DEF PassesInTurn
<1>10. WinnersArePlaced' /\ WinnersAreEvidence'
  BY <1>1, <1>3, <1>4 DEF WinnersArePlaced, WinnersAreEvidence
<1> QED
  BY <1>3, <1>5, <1>6, <1>8, <1>9, <1>10

\* A document joins the group of the first with its digest: nothing else is joined,
\* and the digests up to it are.
LEMMA UniteKeepsSources == SourcesIInv /\ Unite => SourcesIInv'
<1> SUFFICES ASSUME SourcesIInv, Unite PROVE SourcesIInv'
  OBVIOUS
<1> USE DEF SourcesIInv
<1>1. /\ stage \in {"group", "regroup"} /\ at \in DOMAIN occurrences /\ at' = at + 1
      /\ UNCHANGED <<stage, taken, rows, cursor, progressed, drawn, occurrences, sources>>
  BY DEF Unite, drawing
<1>2. /\ occurrences \in Seq(Docs) /\ DOMAIN occurrences = 1..Len(occurrences) /\ Len(occurrences) \in Nat /\ at \in Nat
      /\ root \in [Identities(occurrences) -> Identities(occurrences)]
  BY <1>1 DEF SourcesTypeOK
<1>3. /\ \A i \in DOMAIN occurrences : Identity(occurrences[i]) \in Identities(occurrences)
      /\ \A i \in DOMAIN occurrences : RootOf(i) \in Identities(occurrences)
  BY <1>2 DEF RootOf, Identities
<1>4. SameText = {j \in DOMAIN occurrences : j < at /\ occurrences[j].sha = occurrences[at].sha /\ occurrences[at].sha # "none"}
  BY <1>1, <1>2 DEF SameText
<1>5. ASSUME NEW i \in DOMAIN occurrences, NEW j \in DOMAIN occurrences PROVE Linked(i, j)' <=> Linked(i, j)
  BY <1>1 DEF Linked
<1>6. /\ \A i, j \in DOMAIN occurrences : RootOf(i) = RootOf(j) => Linked(i, j)
      /\ \A i, j \in DOMAIN occurrences :
             i < at /\ j < at /\ occurrences[i].sha # "none" /\ occurrences[i].sha = occurrences[j].sha
             => RootOf(i) = RootOf(j)
  BY <1>1 DEF GroupsAreSources
<1>7. /\ root' \in [Identities(occurrences) -> Identities(occurrences)]
      /\ \A i, j \in DOMAIN occurrences : RootOf(i)' = RootOf(j)' => Linked(i, j)
      /\ \A i, j \in DOMAIN occurrences :
             i < at + 1 /\ j < at + 1 /\ occurrences[i].sha # "none" /\ occurrences[i].sha = occurrences[j].sha
             => RootOf(i)' = RootOf(j)'
  <2>1. CASE SameText = {}
    <3>1. root' = root
      BY <2>1 DEF Unite
    <3>2. \A i \in DOMAIN occurrences : RootOf(i)' = RootOf(i)
      BY <1>1, <3>1 DEF RootOf
    <3>3. ASSUME NEW i \in DOMAIN occurrences, NEW j \in DOMAIN occurrences, i < at + 1, j < at + 1,
                 occurrences[i].sha # "none", occurrences[i].sha = occurrences[j].sha
          PROVE  RootOf(i) = RootOf(j)
      <4>1. (i = at \/ i < at) /\ (j = at \/ j < at)
        BY <1>2, <3>3
      <4> QED
        BY <1>4, <1>6, <2>1, <3>3, <4>1
    <3> QED
      BY <1>2, <1>6, <3>1, <3>2, <3>3
  <2>2. CASE SameText # {}
    <3>1. PICK first \in SameText : /\ \A k \in SameText : first <= k
                                    /\ root' = [k \in DOMAIN root |->
                                                   IF root[k] = root[Identity(occurrences[at])]
                                                   THEN root[Identity(occurrences[first])] ELSE root[k]]
      <4>1. SameText \subseteq Nat
        BY <1>2, <1>4
      <4>2. \E j \in SameText : \A k \in SameText : j <= k
        BY <2>2, <4>1, LeastOfNumbers
      <4> DEFINE one == CHOOSE j \in SameText : \A k \in SameText : j <= k
      <4>3. one \in SameText /\ \A k \in SameText : one <= k
        BY <4>2
      <4>4. root' = [k \in DOMAIN root |->
                        IF root[k] = root[Identity(occurrences[at])]
                        THEN root[Identity(occurrences[one])] ELSE root[k]]
        BY <2>2 DEF Unite
      <4> HIDE DEF one
      <4> QED
        BY <4>3, <4>4
    <3>2. /\ first \in DOMAIN occurrences /\ first < at
          /\ occurrences[first].sha = occurrences[at].sha /\ occurrences[at].sha # "none"
      BY <1>4, <3>1
    <3>3. \A i \in DOMAIN occurrences : RootOf(i)' = IF RootOf(i) = RootOf(at) THEN RootOf(first) ELSE RootOf(i)
      BY <1>1, <1>2, <1>3, <3>1 DEF RootOf
    <3>4. root' \in [Identities(occurrences) -> Identities(occurrences)]
      BY <1>1, <1>2, <1>3, <3>1, <3>2 DEF RootOf
    <3>5. Linked(at, first) /\ Linked(first, at)
      BY <1>1, <3>2, LinksAreClosed DEF SameSource
    <3>6. ASSUME NEW i \in DOMAIN occurrences, NEW j \in DOMAIN occurrences, RootOf(i)' = RootOf(j)' PROVE Linked(i, j)
      <4>1. CASE RootOf(i) = RootOf(j)
        BY <1>6, <4>1
      <4>2. CASE RootOf(i) = RootOf(at) /\ RootOf(j) = RootOf(first)
        <5>1. Linked(i, at) /\ Linked(first, j)
          BY <1>1, <1>6, <3>2, <4>2
        <5> QED
          BY <1>1, <3>2, <3>5, <5>1, LinksAreClosed
      <4>3. CASE RootOf(j) = RootOf(at) /\ RootOf(i) = RootOf(first)
        <5>1. Linked(i, first) /\ Linked(at, j)
          BY <1>1, <1>6, <3>2, <4>3
        <5> QED
          BY <1>1, <3>2, <3>5, <5>1, LinksAreClosed
      <4> QED
        BY <3>3, <3>6, <4>1, <4>2, <4>3
    <3>7. ASSUME NEW i \in DOMAIN occurrences, NEW j \in DOMAIN occurrences, i < at + 1, j < at + 1,
                 occurrences[i].sha # "none", occurrences[i].sha = occurrences[j].sha
          PROVE  RootOf(i)' = RootOf(j)'
      <4>1. ASSUME NEW k \in DOMAIN occurrences, k < at, occurrences[k].sha = occurrences[at].sha
            PROVE  RootOf(k)' = RootOf(first)
        <5>1. RootOf(k) = RootOf(first)
          BY <1>6, <3>2, <4>1
        <5> QED
          BY <3>3, <5>1
      <4>2. (i = at \/ i < at) /\ (j = at \/ j < at)
        BY <1>2, <3>7
      <4>3. CASE i = at
        BY <1>1, <3>3, <3>7, <4>1, <4>2, <4>3
      <4>4. CASE j = at
        BY <1>1, <3>3, <3>7, <4>1, <4>2, <4>4
      <4>5. CASE i < at /\ j < at
        BY <1>6, <3>3, <3>7, <4>5
      <4> QED
        BY <4>2, <4>3, <4>4, <4>5
    <3> QED
      BY <3>4, <3>6, <3>7
  <2> QED
    BY <2>1, <2>2
<1>8. SourcesTypeOK'
  <2>1. at' \in Nat \ {0} /\ at' <= Len(occurrences) + 1
    BY <1>1, <1>2
  <2>2. Identities(occurrences)' = Identities(occurrences)
    BY <1>1 DEF Identities
  <2> QED
    BY <1>1, <1>7, <2>1, <2>2 DEF SourcesTypeOK
<1>9. GroupsAreSources'
  BY <1>1, <1>5, <1>7 DEF GroupsAreSources
<1>10. LimitOf(stage)' = LimitOf(stage)
  BY <1>1 DEF LimitOf
<1>11. RefsAreUnique' /\ DrawnByCursor' /\ PassesInTurn'
  BY <1>1, <1>10, DrawnStays DEF RefsAreUnique, DrawnByCursor, PassesInTurn
<1>12. WinnersArePlaced' /\ WinnersAreEvidence'
  BY <1>1 DEF WinnersArePlaced, WinnersAreEvidence
<1> QED
  BY <1>8, <1>9, <1>11, <1>12

-----------------------------------------------------------------------------
(* Placing the winners.                                                    *)

\* The rows are emptied for the winners.
LEMMA GroupingEndsWell == SourcesIInv /\ EndGrouping => SourcesIInv'
<1> SUFFICES ASSUME SourcesIInv, EndGrouping PROVE SourcesIInv'
  OBVIOUS
<1> USE DEF SourcesIInv
<1>1. /\ stage = "group" /\ at = Len(occurrences) + 1 /\ stage' = "place" /\ at' = 1
      /\ rows' = [c \in Categories |-> <<>>] /\ cursor' = [c \in Categories |-> 0] /\ drawn' = <<>>
      /\ UNCHANGED <<taken, progressed, occurrences, root, sources>>
  BY DEF EndGrouping, AtEnd
<1>2. Len(occurrences) \in Nat /\ DOMAIN occurrences = 1..Len(occurrences)
  BY DEF SourcesTypeOK
<1>3. \A c \in Categories : rows'[c] = <<>> /\ DOMAIN rows'[c] = {} /\ Len(rows'[c]) = 0 /\ cursor'[c] = 0
  BY <1>1
<1>4. SourcesTypeOK'
  <2>1. at' \in Nat \ {0} /\ at' <= Len(occurrences) + 1
    BY <1>1, <1>2
  <2>2. rows' \in [Categories -> Seq(Docs)] /\ cursor' \in [Categories -> Nat] /\ drawn' \in Seq(Docs)
    BY <1>1
  <2>3. Identities(occurrences)' = Identities(occurrences)
    BY <1>1 DEF Identities
  <2> QED
    BY <1>1, <2>1, <2>2, <2>3 DEF SourcesTypeOK
<1>5. RefsAreUnique'
  BY <1>1, <1>3 DEF RefsAreUnique
<1>6. DrawnByCursor'
  <2>1. ASSUME NEW c \in Categories PROVE Got(c)' = 0
    BY <1>1, FS_EmptySet DEF Got
  <2> QED
    BY <1>1, <1>3, <2>1 DEF DrawnByCursor
<1>7. PassesInTurn' /\ WinnersAreEvidence'
  BY <1>1 DEF PassesInTurn, WinnersAreEvidence
<1>8. GroupsAreSources'
  <2>1. \A i \in DOMAIN occurrences : i < at
    BY <1>1, <1>2
  <2> QED
    BY <1>1, <2>1, GroupsStay DEF GroupsAreSources
<1>9. WinnersArePlaced'
  <2>1. \A h \in DOMAIN occurrences : ~(h < 1)
    BY <1>2
  <2> QED
    BY <1>1, <1>3, <2>1 DEF WinnersArePlaced
<1> QED
  BY <1>4, <1>5, <1>6, <1>7, <1>8, <1>9

\* The winner of a group is placed at its head, and was not before.
LEMMA PlaceKeepsSources == SourcesIInv /\ Place => SourcesIInv'
<1> SUFFICES ASSUME SourcesIInv, Place PROVE SourcesIInv'
  OBVIOUS
<1> USE DEF SourcesIInv
<1>1. /\ stage = "place" /\ at \in DOMAIN occurrences /\ at' = at + 1
      /\ UNCHANGED <<stage, taken, cursor, progressed, drawn, occurrences, root, sources>>
  BY DEF Place
<1>2. /\ occurrences \in Seq(Docs) /\ DOMAIN occurrences = 1..Len(occurrences) /\ Len(occurrences) \in Nat /\ at \in Nat
      /\ rows \in [Categories -> Seq(Docs)]
  BY <1>1 DEF SourcesTypeOK
<1>3. IsHead(at) <=> \A j \in Group(at) : at <= j
  BY <1>1 DEF IsHead
<1>4. at' \in Nat \ {0} /\ at' <= Len(occurrences) + 1
  BY <1>1, <1>2
<1>5. Identities(occurrences)' = Identities(occurrences) /\ LimitOf(stage)' = LimitOf(stage)
  BY <1>1 DEF Identities, LimitOf
<1>6. PassesInTurn' /\ WinnersAreEvidence' /\ GroupsAreSources'
  BY <1>1, GroupsStay DEF PassesInTurn, WinnersAreEvidence, GroupsAreSources
<1>7. \A c \in Categories : Got(c)' = Got(c)
  BY <1>1 DEF Got
<1>8. \A h \in DOMAIN occurrences : h < at + 1 <=> h < at \/ h = at
  BY <1>1, <1>2
<1>9. /\ \A h \in DOMAIN occurrences : IsHead(h)' <=> IsHead(h)
      /\ \A h \in DOMAIN occurrences : Winner(h)' = Winner(h)
  BY <1>1, GroupsStay
<1>10. CASE IsHead(at)
  <2> DEFINE doc == occurrences[Winner(at)]
             o == doc.cat
  <2>1. Winner(at) \in DOMAIN occurrences
    BY <1>1, <1>2, WinnersOfGroups
  <2>2. doc \in Docs /\ o \in Categories
    <3>1. doc \in Docs
      BY <1>2, <2>1
    <3> QED
      BY <3>1 DEF Docs
  <2>3. rows' = [rows EXCEPT ![o] = Append(rows[o], doc)]
    BY <1>2, <1>3, <1>10, <2>2 DEF Place
  <2>4. ASSUME NEW c \in Categories, NEW i \in DOMAIN rows[c] PROVE rows[c][i].cat = c /\ rows[c][i].ref # doc.ref
    <3>1. PICK h \in DOMAIN occurrences : IsHead(h) /\ h < at /\ rows[c][i] = occurrences[Winner(h)]
      BY <1>1, <2>4 DEF WinnersArePlaced
    <3>2. Winner(h) \in DOMAIN occurrences
      BY <1>2, <3>1, WinnersOfGroups
    <3>3. ASSUME rows[c][i].ref = doc.ref PROVE FALSE
      <4>1. Winner(h) = Winner(at)
        BY <2>1, <3>1, <3>2, <3>3 DEF RefsAreUnique
      <4>2. RootOf(h) = RootOf(at)
        BY <1>1, <1>2, <3>1, <4>1, WinnersOfGroups
      <4>3. h = at
        BY <1>1, <1>2, <1>10, <3>1, <4>2, HeadsOfGroups
      <4> QED
        BY <1>2, <3>1, <4>3
    <3> QED
      BY <3>3 DEF DrawnByCursor
  <2> HIDE DEF o, doc
  <2>5. /\ rows' \in [Categories -> Seq(Docs)]
        /\ \A c \in Categories : Len(rows[c]) \in Nat /\ Len(rows[c]) <= Len(rows'[c]) /\ Len(rows'[c]) \in Nat
        /\ \A c \in Categories : \A i \in DOMAIN rows[c] : i \in DOMAIN rows'[c] /\ rows'[c][i] = rows[c][i]
        /\ Len(rows[o]) + 1 \in DOMAIN rows'[o] /\ rows'[o][Len(rows[o]) + 1] = doc
        /\ \A c \in Categories : \A i \in DOMAIN rows'[c] :
               \/ i \in DOMAIN rows[c] /\ rows'[c][i] = rows[c][i]
               \/ c = o /\ i = Len(rows[o]) + 1 /\ rows'[c][i] = doc
        /\ \A c, d \in Categories : \A i \in DOMAIN rows'[c], j \in DOMAIN rows'[d] :
               rows'[c][i].ref = rows'[d][j].ref => c = d /\ i = j
        /\ \A c \in Categories : \A i \in DOMAIN rows'[c] : rows'[c][i].cat = c
    <3>1. doc.cat = o
      BY DEF o
    <3> QED
      BY <1>2, <2>2, <2>3, <2>4, <3>1, RowGrows DEF RefsAreUnique
  <2>6. SourcesTypeOK'
    BY <1>1, <1>4, <1>5, <2>5 DEF SourcesTypeOK
  <2>7. RefsAreUnique'
    BY <1>1, <2>5 DEF RefsAreUnique
  <2>8. DrawnByCursor'
    <3>1. \A c \in Categories : cursor[c] \in Nat /\ cursor[c] <= Len(rows'[c])
      BY <2>5 DEF DrawnByCursor, SourcesTypeOK
    <3> QED
      BY <1>1, <1>7, <2>5, <3>1 DEF DrawnByCursor
  <2>9. WinnersArePlaced'
    <3>1. ASSUME NEW h \in DOMAIN occurrences, IsHead(h), h < at + 1
          PROVE  \E k \in DOMAIN rows'[occurrences[Winner(h)].cat] :
                     rows'[occurrences[Winner(h)].cat][k] = occurrences[Winner(h)]
      <4>1. CASE h = at
        BY <2>5, <4>1 DEF o, doc
      <4>2. CASE h < at
        <5>1. PICK k \in DOMAIN rows[occurrences[Winner(h)].cat] :
                  rows[occurrences[Winner(h)].cat][k] = occurrences[Winner(h)]
          BY <1>1, <3>1, <4>2 DEF WinnersArePlaced
        <5>2. occurrences[Winner(h)].cat \in Categories
          <6>1. Winner(h) \in DOMAIN occurrences
            BY <1>2, WinnersOfGroups
          <6>2. occurrences[Winner(h)] \in Docs
            BY <1>2, <6>1
          <6> QED
            BY <6>2 DEF Docs
        <5> QED
          BY <2>5, <5>1, <5>2
      <4> QED
        BY <1>8, <3>1, <4>1, <4>2
    <3>2. ASSUME NEW c \in Categories, NEW k \in DOMAIN rows'[c]
          PROVE  \E h \in DOMAIN occurrences : IsHead(h) /\ h < at + 1 /\ rows'[c][k] = occurrences[Winner(h)]
      <4>1. CASE k \in DOMAIN rows[c] /\ rows'[c][k] = rows[c][k]
        <5>1. PICK h \in DOMAIN occurrences : IsHead(h) /\ h < at /\ rows[c][k] = occurrences[Winner(h)]
          BY <1>1, <4>1 DEF WinnersArePlaced
        <5> QED
          BY <1>8, <4>1, <5>1
      <4>2. CASE rows'[c][k] = doc
        BY <1>1, <1>8, <1>10, <4>2 DEF doc
      <4> QED
        BY <2>5, <4>1, <4>2
    <3> QED
      BY <1>1, <1>9, <3>1, <3>2 DEF WinnersArePlaced
  <2> QED
    BY <1>6, <2>6, <2>7, <2>8, <2>9
<1>11. CASE ~IsHead(at)
  <2>1. rows' = rows
    BY <1>3, <1>11 DEF Place
  <2>2. SourcesTypeOK' /\ RefsAreUnique'
    BY <1>1, <1>4, <1>5, <2>1 DEF SourcesTypeOK, RefsAreUnique
  <2>3. DrawnByCursor'
    BY <1>1, <1>5, <1>7, <2>1 DEF DrawnByCursor
  <2>4. \A h \in DOMAIN occurrences : IsHead(h) /\ h < at + 1 <=> IsHead(h) /\ h < at
    BY <1>8, <1>11
  <2>5. WinnersArePlaced'
    BY <1>1, <1>9, <2>1, <2>4 DEF WinnersArePlaced
  <2> QED
    BY <1>6, <2>2, <2>3, <2>5
<1> QED
  BY <1>10, <1>11

\* Then they are drawn from in passes.
LEMMA RankingBegins == SourcesIInv /\ StartRanking => SourcesIInv'
<1> SUFFICES ASSUME SourcesIInv, StartRanking PROVE SourcesIInv'
  OBVIOUS
<1> USE DEF SourcesIInv
<1>1. /\ stage = "place" /\ at = Len(occurrences) + 1 /\ stage' = "rank" /\ at' = 1 /\ progressed' = FALSE
      /\ UNCHANGED <<taken, rows, cursor, drawn, occurrences, root, sources>>
  BY DEF StartRanking, AtEnd
<1>2. /\ Len(occurrences) \in Nat /\ DOMAIN occurrences = 1..Len(occurrences)
      /\ Len(Order) \in Nat /\ DOMAIN Order = 1..Len(Order)
  BY SourcesAssumption DEF SourcesTypeOK
<1>3. SourcesTypeOK'
  <2>1. at' \in Nat \ {0} /\ at' <= Len(Order) + 1
    BY <1>1, <1>2
  <2>2. Identities(occurrences)' = Identities(occurrences)
    BY <1>1 DEF Identities
  <2> QED
    BY <1>1, <2>1, <2>2 DEF SourcesTypeOK
<1>4. RefsAreUnique'
  BY <1>1 DEF RefsAreUnique
<1>5. DrawnByCursor'
  <2>1. Len(drawn) = 0 /\ LimitOf(stage)' \in Nat
    BY <1>1, SourcesAssumption DEF DrawnByCursor, LimitOf
  <2> QED
    BY <1>1, <2>1, DrawnStays DEF DrawnByCursor
<1>6. PassesInTurn'
  <2>1. \A c \in Categories : cursor[c] = 0 /\ Len(rows[c]) \in Nat
    <3>1. \A c \in Categories : Got(c) = 0
      BY <1>1, FS_EmptySet DEF DrawnByCursor, Got
    <3> QED
      BY <3>1 DEF DrawnByCursor, SourcesTypeOK
  <2>2. \A i \in DOMAIN Order : Order[i] \in Categories /\ ~(i < 1)
    BY <1>2 DEF Categories
  <2>3. Turns(0, 1)
    BY <2>1, <2>2 DEF Turns
  <2>4. Turns(0, 1)'
    BY <1>1, <2>3, DrawnStays
  <2> QED
    BY <1>1, <2>2, <2>4 DEF PassesInTurn
<1>7. GroupsAreSources' /\ WinnersAreEvidence'
  BY <1>1, GroupsStay DEF GroupsAreSources, WinnersAreEvidence
<1>8. WinnersArePlaced'
  <2>1. \A h \in DOMAIN occurrences : h < at
    BY <1>1, <1>2
  <2>2. /\ \A h \in DOMAIN occurrences : IsHead(h)' <=> IsHead(h)
        /\ \A h \in DOMAIN occurrences : Winner(h)' = Winner(h)
    BY <1>1, GroupsStay
  <2> QED
    BY <1>1, <2>1, <2>2 DEF WinnersArePlaced
<1> QED
  BY <1>3, <1>4, <1>5, <1>6, <1>7, <1>8

-----------------------------------------------------------------------------
(* Extraction and what research makes of it.                                *)

\* Whatever the answer says of a document, it is the same one.
LEMMA AnswerKeepsRef ==
    ASSUME NEW d \in Docs, NEW answer \in Extracted
    PROVE  ApplyAnswer(d, answer) \in Docs /\ ApplyAnswer(d, answer).ref = d.ref
<1>1. answer \in [kind : {"read", "empty", "failed", "missing"}, sha : STRING, len : Nat]
  BY SourcesAssumption
<1> QED
  BY <1>1 DEF ApplyAnswer, Docs

\* The documents are changed in place, or not at all, and grouped again.
LEMMA ExtractionKeepsSources == SourcesIInv /\ (ExtractWinners \/ NotExtracted) => SourcesIInv'
<1> SUFFICES ASSUME SourcesIInv, ExtractWinners \/ NotExtracted PROVE SourcesIInv'
  OBVIOUS
<1> USE DEF SourcesIInv
<1>1. stage = "extract" /\ UNCHANGED <<taken, rows, cursor, progressed, drawn, sources>>
  BY DEF ExtractWinners, NotExtracted, drawing
<1>2. occurrences \in Seq(Docs) /\ \A i, j \in DOMAIN occurrences : occurrences[i].ref = occurrences[j].ref => i = j
  BY DEF SourcesTypeOK, RefsAreUnique
<1>3. PICK docs \in Seq(Docs) : /\ StartGrouping("regroup", docs)
                                /\ \A i, j \in DOMAIN docs : docs[i].ref = docs[j].ref => i = j
  <2>1. CASE NotExtracted
    BY <1>2, <2>1 DEF NotExtracted
  <2>2. CASE ExtractWinners
    <3>1. PICK answers \in [{page.raw : page \in Page} -> Extracted] :
              StartGrouping("regroup",
                  [i \in DOMAIN occurrences |->
                      IF \E k \in DOMAIN drawn : drawn[k] = occurrences[i]
                        THEN ApplyAnswer(occurrences[i], answers[occurrences[i].raw])
                        ELSE occurrences[i]])
      BY <2>2 DEF ExtractWinners
    <3> DEFINE docs == [i \in DOMAIN occurrences |->
                           IF \E k \in DOMAIN drawn : drawn[k] = occurrences[i]
                             THEN ApplyAnswer(occurrences[i], answers[occurrences[i].raw])
                             ELSE occurrences[i]]
    <3>2. ASSUME NEW i \in DOMAIN occurrences PROVE docs[i] \in Docs /\ docs[i].ref = occurrences[i].ref
      <4>1. occurrences[i] \in Docs
        BY <1>2
      <4>2. occurrences[i].raw \in {page.raw : page \in Page}
        BY <4>1 DEF Docs
      <4>3. answers[occurrences[i].raw] \in Extracted
        BY <4>2
      <4> QED
        BY <4>1, <4>3, AnswerKeepsRef
    <3>3. DOMAIN docs = 1..Len(occurrences) /\ Len(occurrences) \in Nat /\ DOMAIN occurrences = DOMAIN docs
      BY <1>2
    <3>4. StartGrouping("regroup", docs)
      BY <3>1
    <3> HIDE DEF docs
    <3>5. docs \in Seq(Docs)
      <4>1. docs = [i \in 1..Len(occurrences) |-> docs[i]]
        BY <3>3 DEF docs
      <4>2. \A i \in 1..Len(occurrences) : docs[i] \in Docs
        BY <3>2, <3>3
      <4> QED
        BY <3>3, <4>1, <4>2
    <3>6. \A i, j \in DOMAIN docs : docs[i].ref = docs[j].ref => i = j
      BY <1>2, <3>2, <3>3
    <3> QED
      BY <3>4, <3>5, <3>6
  <2> QED
    BY <2>1, <2>2
<1>4. /\ occurrences' = docs /\ at' = 1 /\ stage' = "regroup"
      /\ root' \in [Identities(occurrences) -> Identities(occurrences)]'
      /\ GroupsAreSources'
      /\ \A i, j \in DOMAIN occurrences' : occurrences'[i].ref = occurrences'[j].ref => i = j
  BY <1>3, GroupsBegin
<1>5. sources = {}
  BY <1>1 DEF WinnersAreEvidence
<1>6. SourcesTypeOK'
  <2>1. 1 <= Len(docs) + 1 /\ 1 \in Nat \ {0}
    BY <1>3
  <2> QED
    BY <1>1, <1>3, <1>4, <1>5, <2>1 DEF SourcesTypeOK
<1>7. RefsAreUnique'
  BY <1>1, <1>4 DEF RefsAreUnique
<1>8. DrawnByCursor' /\ PassesInTurn'
  BY <1>1, <1>4, DrawnStays DEF DrawnByCursor, PassesInTurn
<1>9. WinnersArePlaced' /\ WinnersAreEvidence'
  BY <1>1, <1>4, <1>5 DEF WinnersArePlaced, WinnersAreEvidence
<1> QED
  BY <1>4, <1>6, <1>7, <1>8, <1>9

\* The winners of the second grouping become evidence.
LEMMA ResearchKeepsSources == SourcesIInv /\ Research => SourcesIInv'
<1> SUFFICES ASSUME SourcesIInv, Research PROVE SourcesIInv'
  OBVIOUS
<1> USE DEF SourcesIInv
<1>1. /\ stage = "regroup" /\ at = Len(occurrences) + 1 /\ stage' = "done"
      /\ sources' = {Winner(i) : i \in DOMAIN occurrences}
      /\ UNCHANGED <<at, taken, rows, cursor, progressed, drawn, occurrences, root>>
  BY DEF Research, AtEnd, drawing
<1>2. occurrences \in Seq(Docs) /\ Len(occurrences) \in Nat /\ DOMAIN occurrences = 1..Len(occurrences)
  BY DEF SourcesTypeOK
<1>3. \A i \in DOMAIN occurrences : Winner(i) \in DOMAIN occurrences /\ Winner(i)' = Winner(i)
  BY <1>1, <1>2, WinnersOfGroups, GroupsStay
<1>4. SourcesTypeOK'
  <2>1. Identities(occurrences)' = Identities(occurrences) /\ sources' \subseteq DOMAIN occurrences
    BY <1>1, <1>3 DEF Identities
  <2> QED
    BY <1>1, <2>1 DEF SourcesTypeOK
<1>5. RefsAreUnique' /\ DrawnByCursor' /\ PassesInTurn'
  BY <1>1, DrawnStays DEF RefsAreUnique, DrawnByCursor, PassesInTurn
<1>6. GroupsAreSources'
  <2>1. \A i \in DOMAIN occurrences : i < at
    BY <1>1, <1>2
  <2> QED
    BY <1>1, <2>1, GroupsStay DEF GroupsAreSources
<1>7. WinnersArePlaced' /\ WinnersAreEvidence'
  BY <1>1, <1>3 DEF WinnersArePlaced, WinnersAreEvidence
<1> QED
  BY <1>4, <1>5, <1>6, <1>7

-----------------------------------------------------------------------------
(* The invariant, and what follows from it.                                *)

\* The invariant of the loops is inductive, for any queries, pages, limits and
\* answers (tavily_search.py:112-414, source_identity.py:45-141).
THEOREM SourcesInductive == SourcesSpec => []SourcesIInv
<1>1. SourcesIInv /\ [SourcesNext]_sourceVars => SourcesIInv'
  <2> SUFFICES ASSUME SourcesIInv, [SourcesNext]_sourceVars PROVE SourcesIInv'
    OBVIOUS
  <2>1. CASE UNCHANGED sourceVars
    BY <2>1, SourcesRest
  <2>2. CASE (\E page \in Page : SearchResult(page)) \/ NextQuery \/ StartAllocation
    BY <2>2, SearchKeepsSources, QueriesKeepSources
  <2>3. CASE Draw \/ NextPass \/ EndAllocation \/ EndRanking
    BY <2>3, DrawKeepsSources, PassKeepsSources, AllocationEndsWell, RankingEndsWell
  <2>4. CASE Unite \/ EndGrouping \/ Place \/ StartRanking
    BY <2>4, UniteKeepsSources, GroupingEndsWell, PlaceKeepsSources, RankingBegins
  <2>5. CASE ExtractWinners \/ NotExtracted \/ Research
    BY <2>5, ExtractionKeepsSources, ResearchKeepsSources
  <2> QED
    BY <2>1, <2>2, <2>3, <2>4, <2>5 DEF SourcesNext
<1> QED
  BY <1>1, SourcesBegin, PTL DEF SourcesSpec

\* No category gets a second place before another that has more got its first,
\* and no place is wasted, in what is kept and in what is extracted
\* (tavily_search.py:112-182), for any categories, pages and limits.
THEOREM SourcesAreSharedHolds == SourcesSpec => []SourcesAreShared
BY SourcesInductive, SourcesAreSharedFollows, PTL

\* The groups of the union-find are the sources, each offered once for extraction
\* and once as evidence, by its best document and under an id of its own
\* (source_identity.py:45-141, research.py:46-78).
THEOREM OneWinnerPerSourceHolds == SourcesSpec => []OneWinnerPerSource
BY SourcesInductive, OneWinnerFollows, PTL
=============================================================================
