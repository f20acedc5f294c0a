--------------------------- MODULE RunBudgetsProofs ---------------------------
(***************************************************************************)
(* Proofs about RunBudgets, for any prospects, caps, permits, retries and    *)
(* threshold: the volume of metered calls, the overrun of the soft budget,    *)
(* and the permits of the semaphores.                                       *)
(*                                                                          *)
(* The many ways a call or a step may end come down to a few shapes: it is    *)
(* left before an attempt, ends with an answer, or goes on to another         *)
(* attempt.  Each part of the invariant is kept by each shape.                *)
(***************************************************************************)
EXTENDS RunBudgets, FiniteSetTheorems, TLAPS

LateMax == MaxAttempts("llm")

LEMMA ConstantTypes ==
    /\ MaxConcurrent \in Nat \ {0} /\ Queries \in Nat \ {0} /\ SoftLimit \in Nat
    /\ LateMax \in Nat /\ LateMax >= 2 /\ End \in Nat
    /\ \A k \in Metered \cup {"llm"} :
          PoolOf(k) \in Pool /\ TransportRetries[PoolOf(k)] \in Nat /\ MaxAttempts(k) \in Nat
BY BudgetsAssumption DEF LateMax, MaxAttempts, End, Metered, Pool, PoolOf

\* Every place but the last is a call of some step, and a step starts and ends
\* at places of its own.
LEMMA Places ==
    ASSUME NEW i \in Place
    PROVE  /\ KindAt(i) \in Metered \cup {"llm"} /\ StepAt(i) \in StepName
           /\ After(StepAt(i)) \in Place
           /\ FirstOf(StepAt(i)) \in Place /\ FirstOf(StepAt(i)) < End
           /\ End \in Place
           /\ i < End => i + 1 \in Place
<1> USE ConstantTypes DEF Place, End
<1>1. KindAt(i) \in Metered \cup {"llm"}
  BY DEF KindAt, Metered
<1>2. StepAt(i) \in StepName
  BY DEF StepAt, StepName
<1>3. \A s \in StepName : After(s) \in Place /\ FirstOf(s) \in Place /\ FirstOf(s) < End
  BY DEF StepName, After, FirstOf
<1> QED
  BY <1>1, <1>2, <1>3

-----------------------------------------------------------------------------
(* The shapes of a step.                                                   *)

\* p has no call any more, and is at a place or at the end.
Rests(p) ==
    /\ \E i \in Place, s \in {"ready", "done"} :
          /\ s = "ready" => i < End
          /\ place' = [place EXCEPT ![p] = i]
          /\ phase' = [phase EXCEPT ![p] = s]
    /\ call' = [call EXCEPT ![p] = NoCall]
    /\ tries' \in [Prospect -> Nat]
    /\ hits' \in [Prospect -> BOOLEAN]

Leaves(p) ==
    /\ phase[p] \in {"ready", "waiting"}
    /\ Rests(p)
    /\ UNCHANGED <<budgets, free>>

\* An answer gives the permit back, and costs nothing or one unit.
Answered(p) ==
    /\ phase[p] = "flight"
    /\ Release(p)
    /\ spent' = spent \/ (Kind(p) = "llm" /\ spent' = spent + 1)
    /\ UNCHANGED <<used, issued, late>>

Ends(p) == Answered(p) /\ Rests(p)

Continues(p) ==
    /\ Answered(p)
    /\ \E retries \in Nat, repaired \in BOOLEAN :
          /\ Again(p, retries, repaired)
          /\ \/ /\ retries = call[p].retries + 1 /\ repaired = call[p].repaired
                /\ retries <= TransportRetries[PoolOf(Kind(p))]
             \/ /\ retries = call[p].retries /\ repaired
                /\ Kind(p) = "llm" /\ ~call[p].repaired

Shape(p) ==
    Start(p) \/ Leaves(p) \/ Reserve(p) \/ GateOpen(p) \/ Send(p) \/ Ends(p) \/ Continues(p)

LEMMA GoToRests ==
    ASSUME TypeOK, NEW p \in Prospect, NEW i \in Place, NEW found \in BOOLEAN, GoTo(p, i, found)
    PROVE  Rests(p)
<1>1. i # End => i < End
  BY ConstantTypes DEF Place
<1>2. tries' \in [Prospect -> Nat]
  BY DEF GoTo, TypeOK
<1>3. hits' \in [Prospect -> BOOLEAN]
  BY DEF GoTo, TypeOK
<1>4. CASE i = End
  BY <1>2, <1>3, <1>4 DEF GoTo, Rests
<1>5. CASE i # End
  BY <1>1, <1>2, <1>3, <1>5 DEF GoTo, Rests
<1> QED
  BY <1>4, <1>5

\* Whatever ends a call or its step leaves p at rest.
LEMMA EndingsRest ==
    ASSUME TypeOK, CallsAreCounted, NEW p \in Prospect, phase[p] # "done"
    PROVE  /\ CallReturns(p) => Rests(p)
           /\ StepFails(p) => Rests(p)
           /\ StepRetriesOrFails(p) => Rests(p)
           /\ \A found \in BOOLEAN : GoTo(p, place[p] + 1, found) => Rests(p)
<1>1. place[p] \in Place /\ place[p] < End /\ hits[p] \in BOOLEAN
  BY DEF TypeOK, CallsAreCounted
<1>2. \A found \in BOOLEAN : GoTo(p, place[p] + 1, found) => Rests(p)
  BY <1>1, Places, GoToRests
<1>3. CallReturns(p) => Rests(p)
  BY <1>1, <1>2 DEF CallReturns
<1>4. StepFails(p) => Rests(p)
  BY <1>1, Places, GoToRests DEF StepFails
<1>5. Restart(p) \in Place /\ Restart(p) < End
  BY <1>1, Places DEF Restart
<1>6. ASSUME StepRetriesOrFails(p) PROVE Rests(p)
  <2>1. CASE StepFails(p)
    BY <2>1, <1>4
  <2>2. CASE ~StepFails(p)
    <3>1. /\ tries' = [tries EXCEPT ![p] = @ + 1]
          /\ place' = [place EXCEPT ![p] = Restart(p)]
          /\ hits' = [hits EXCEPT ![p] = Restart(p) # 1 /\ @]
          /\ phase' = [phase EXCEPT ![p] = "ready"]
          /\ call' = [call EXCEPT ![p] = NoCall]
      BY <1>6, <2>2 DEF StepRetriesOrFails
    <3>2. tries' \in [Prospect -> Nat]
      BY <3>1 DEF TypeOK
    <3>3. hits' \in [Prospect -> BOOLEAN]
      BY <3>1 DEF TypeOK
    <3> QED
      BY <3>1, <3>2, <3>3, <1>5 DEF Rests
  <2> QED
    BY <2>1, <2>2
<1> QED
  BY <1>2, <1>3, <1>4, <1>6

LEMMA AnswerShape ==
    ASSUME TypeOK, CallsAreCounted, NEW p \in Prospect, Answer(p)
    PROVE  Ends(p) \/ Continues(p)
<1>1. phase[p] = "flight" /\ phase[p] # "done"
  BY DEF Answer
<1>2. spent \in Nat
  BY DEF TypeOK
<1>3. spent' = spent \/ (Kind(p) = "llm" /\ spent' = spent + 1)
  <2>1. CASE Kind(p) = "llm"
    <3>1. PICK cost \in 0..1 : spent' = spent + cost
      BY <2>1 DEF Answer
    <3>2. cost = 0 \/ cost = 1
      OBVIOUS
    <3> QED
      BY <2>1, <3>1, <3>2, <1>2
  <2>2. CASE Kind(p) # "llm"
    BY <2>2 DEF Answer
  <2> QED
    BY <2>1, <2>2
<1>4. Answered(p)
  BY <1>1, <1>3 DEF Answer, Answered
<1>5. call[p] \in CallState
  BY DEF TypeOK
<1>6. CASE Succeeds(p)
  BY <1>6, <1>1, <1>4, EndingsRest DEF Succeeds, Ends
<1>7. CASE RetryTransport(p)
  <2>1. /\ Again(p, call[p].retries + 1, call[p].repaired)
        /\ call[p].retries < TransportRetries[PoolOf(Kind(p))]
    BY <1>7 DEF RetryTransport
  <2>2. TransportRetries[PoolOf(Kind(p))] \in Nat
    BY ConstantTypes, Places DEF TypeOK, Kind
  <2>3. call[p].retries + 1 \in Nat /\ call[p].repaired \in BOOLEAN
        /\ call[p].retries + 1 <= TransportRetries[PoolOf(Kind(p))]
    BY <1>5, <2>1, <2>2 DEF CallState
  <2> QED
    BY <1>4, <2>1, <2>3 DEF Continues
<1>8. CASE Kind(p) = "llm" /\ Repair(p)
  <2>1. call[p].retries \in Nat
    BY <1>5 DEF CallState
  <2> QED
    BY <1>8, <1>4, <2>1 DEF Repair, Continues
<1>9. CASE TransportExhausted(p) \/ Permanent(p) \/ StepFails(p)
  BY <1>9, <1>1, <1>4, EndingsRest DEF TransportExhausted, Permanent, Ends
<1> QED
  BY <1>6, <1>7, <1>8, <1>9 DEF Answer

LEMMA SkipLeaves ==
    ASSUME TypeOK, CallsAreCounted, NEW p \in Prospect, Skip(p)
    PROVE  Leaves(p)
<1>1. After(StepAt(place[p])) \in Place
  BY Places DEF TypeOK
<1>2. Rests(p)
  BY <1>1, GoToRests DEF Skip
<1> QED
  BY <1>2 DEF Skip, Leaves

LEMMA TimeoutShape ==
    ASSUME TypeOK, CallsAreCounted, NEW p \in Prospect, StepTimeout(p)
    PROVE  Leaves(p) \/ Ends(p)
<1>1. Rests(p) /\ UNCHANGED budgets
  BY EndingsRest DEF StepTimeout
<1>2. CASE phase[p] = "flight"
  BY <1>1, <1>2 DEF StepTimeout, Ends, Answered, budgets
<1>3. CASE phase[p] # "flight"
  BY <1>1, <1>3 DEF StepTimeout, Leaves
<1> QED
  BY <1>2, <1>3

\* Every step of a run has one of the shapes.
LEMMA StepShape ==
    ASSUME TypeOK, CallsAreCounted, [Next]_vars
    PROVE  UNCHANGED vars \/ \E p \in Prospect : Shape(p)
<1>1. ASSUME NEW p \in Prospect, Refused(p) \/ NothingToExtract(p) \/ GateShut(p)
      PROVE  Leaves(p)
  <2>1. phase[p] = "ready" /\ UNCHANGED <<budgets, free>>
    BY <1>1 DEF Refused, NothingToExtract, GateShut
  <2>2. CallReturns(p) \/ StepFails(p)
    BY <1>1 DEF Refused, NothingToExtract, GateShut
  <2> QED
    BY <2>1, <2>2, EndingsRest DEF Leaves
<1>2. ASSUME NEW p \in Prospect, Advance(p) \/ StepTimeout(p) PROVE Shape(p)
  BY <1>1, <1>2, SkipLeaves, AnswerShape, TimeoutShape DEF Advance, Shape
<1> QED
  BY <1>2 DEF Next, Finished
-----------------------------------------------------------------------------
(* What a shape leaves alone: everything of the other prospects.           *)

LEMMA Others ==
    ASSUME TypeOK, NEW p \in Prospect, Shape(p), NEW q \in Prospect, q # p
    PROVE  /\ phase'[q] = phase[q] /\ place'[q] = place[q] /\ call'[q] = call[q]
           /\ InCall(q)' <=> InCall(q)
           /\ Kind(q)' = Kind(q)
           /\ late'[q] = late[q]
<1> USE DEF TypeOK
<1>1. CASE Start(p) \/ GateOpen(p)
  BY <1>1 DEF Start, GateOpen, InCall, Kind, budgets
<1>2. CASE Leaves(p) \/ Ends(p)
  BY <1>2 DEF Leaves, Ends, Rests, Answered, InCall, Kind, budgets
<1>3. CASE Continues(p)
  BY <1>3 DEF Continues, Answered, Again, InCall, Kind
<1>4. CASE Reserve(p)
  BY <1>4 DEF Reserve, InCall, Kind
<1>5. CASE Send(p)
  BY <1>5 DEF Send, InCall, Kind
<1> QED
  BY <1>1, <1>2, <1>3, <1>4, <1>5 DEF Shape

-----------------------------------------------------------------------------
(* The type invariant and the counters of a call.                          *)

LEMMA KindOf ==
    ASSUME TypeOK, NEW p \in Prospect
    PROVE  Kind(p) \in Metered \cup {"llm"} /\ PoolOf(Kind(p)) \in Pool
BY Places, ConstantTypes DEF TypeOK, Kind

LEMMA NoCallType ==
    /\ NoCall \in CallState /\ NoCall.made = 0 /\ NoCall.retries = 0 /\ ~NoCall.repaired
    /\ \A n \in Nat :
          LET c == [NoCall EXCEPT !.ticket = n] IN
          /\ c \in CallState /\ c.ticket = n /\ c.made = 0 /\ c.retries = 0 /\ ~c.repaired
BY Zenon DEF NoCall, CallState

\* What a further attempt does to the counters.
LEMMA SetMade ==
    \A c \in CallState, n \in Nat :
        LET d == [c EXCEPT !.made = n] IN
        /\ d \in CallState /\ d.made = n /\ d.ticket = c.ticket
        /\ d.retries = c.retries /\ d.repaired = c.repaired
BY Zenon DEF CallState

LEMMA CountersOf ==
    ASSUME TypeOK, NEW p \in Prospect
    PROVE  /\ call[p] \in CallState
           /\ call[p].ticket \in Nat /\ call[p].made \in Nat /\ call[p].retries \in Nat
           /\ call[p].repaired \in BOOLEAN
           /\ Repairs(p) \in 0..1 /\ Flying(p) \in 0..1
<1>1. call[p] \in CallState
  BY DEF TypeOK
<1>2. Repairs(p) \in 0..1 /\ Flying(p) \in 0..1
  BY DEF Repairs, Flying
<1> QED
  BY <1>1, <1>2 DEF CallState

LEMMA AgainCounts ==
    ASSUME TypeOK, NEW p \in Prospect, NEW retries \in Nat, NEW repaired \in BOOLEAN,
           Again(p, retries, repaired)
    PROVE  /\ call' \in [Prospect -> CallState]
           /\ call'[p].ticket = call[p].ticket /\ call'[p].made = call[p].made
           /\ call'[p].retries = retries /\ call'[p].repaired = repaired
<1> DEFINE c == call[p]
           d == [c EXCEPT !.retries = retries, !.repaired = repaired]
<1>1. c \in CallState
  BY CountersOf
<1>2. d \in CallState
  BY <1>1, Zenon DEF CallState
<1>3. d.ticket = c.ticket /\ d.made = c.made
  BY <1>1, Zenon DEF CallState
<1>4. d.retries = retries
  BY <1>1, Zenon DEF CallState
<1>5. d.repaired = repaired
  BY <1>1, Zenon DEF CallState
<1>6. call' = [call EXCEPT ![p] = d]
  BY Zenon DEF Again
<1> HIDE DEF d
<1>7. call' \in [Prospect -> CallState] /\ call'[p] = d
  BY <1>2, <1>6 DEF TypeOK
<1> QED
  BY <1>3, <1>4, <1>5, <1>7, Zenon

LEMMA TypesPreserved ==
    ASSUME TypeOK, CallsAreCounted, TicketsAreHeld, NEW p \in Prospect, Shape(p)
    PROVE  TypeOK'
<1> USE DEF TypeOK
<1>1. CASE Start(p)
  BY <1>1 DEF Start, budgets
<1>2. CASE GateOpen(p)
  BY <1>2 DEF GateOpen, budgets
<1>3. ASSUME Rests(p)
      PROVE  /\ phase' \in [Prospect -> {"queued", "ready", "waiting", "flight", "done"}]
             /\ place' \in [Prospect -> Place] /\ call' \in [Prospect -> CallState]
             /\ tries' \in [Prospect -> Nat] /\ hits' \in [Prospect -> BOOLEAN]
  BY <1>3, NoCallType DEF Rests
<1>4. CASE Leaves(p)
  BY <1>3, <1>4 DEF Leaves, budgets
<1>5. ASSUME Answered(p)
      PROVE  /\ used' \in [Metered -> Nat] /\ late' \in [Prospect -> Nat]
             /\ DOMAIN issued' = Metered /\ \A k \in Metered : issued'[k] \in [1..Cap[k] -> Nat]
             /\ spent' \in Nat /\ free' \in [Pool -> Nat]
  BY <1>5, KindOf DEF Answered, Release
<1>6. CASE Ends(p)
  BY <1>3, <1>5, <1>6 DEF Ends
<1>7. CASE Continues(p)
  <2>1. PICK retries \in Nat, repaired \in BOOLEAN : Again(p, retries, repaired)
    BY <1>7 DEF Continues
  <2>4. call' \in [Prospect -> CallState]
    BY <2>1, AgainCounts
  <2>5. phase' \in [Prospect -> {"queued", "ready", "waiting", "flight", "done"}]
        /\ UNCHANGED <<place, tries, hits>>
    BY <2>1 DEF Again
  <2> QED
    BY <1>5, <1>7, <2>4, <2>5 DEF Continues
<1>8. CASE Reserve(p)
  <2>1. used[Kind(p)] + 1 \in Nat /\ Kind(p) \in Metered
    BY <1>8 DEF Reserve
  <2>2. [NoCall EXCEPT !.ticket = used[Kind(p)] + 1] \in CallState
    BY <2>1, NoCallType
  <2> QED
    BY <1>8, <2>1, <2>2 DEF Reserve
<1>9. CASE Send(p)
  <2>1. call[p].made + 1 \in Nat
    BY CountersOf
  <2>2. [call[p] EXCEPT !.made = call[p].made + 1] \in CallState
    BY <2>1, CountersOf, SetMade, Zenon
  <2>3. call' = [call EXCEPT ![p] = [call[p] EXCEPT !.made = call[p].made + 1]]
    BY <1>9, Zenon DEF Send
  <2>4. call' \in [Prospect -> CallState]
    BY <2>2, <2>3
  <2>5. DOMAIN issued' = Metered /\ \A k \in Metered : issued'[k] \in [1..Cap[k] -> Nat]
    <3>1. CASE Kind(p) \in Metered
      <4> HIDE DEF TypeOK
      <4>1. call[p].ticket \in 1..Cap[Kind(p)]
        <5>1. call[p].ticket \in 1..used[Kind(p)] /\ used[Kind(p)] <= Cap[Kind(p)]
          BY <1>9, <3>1 DEF Send, TicketsAreHeld, InCall
        <5>2. used[Kind(p)] \in Nat /\ Cap[Kind(p)] \in Nat
          BY <3>1, BudgetsAssumption DEF TypeOK
        <5> QED
          BY <5>1, <5>2
      <4>2. issued[Kind(p)] \in [1..Cap[Kind(p)] -> Nat] /\ DOMAIN issued = Metered
            /\ \A k \in Metered : issued[k] \in [1..Cap[k] -> Nat]
        BY <3>1 DEF TypeOK
      <4>3. issued' = [issued EXCEPT ![Kind(p)] =
                          [issued[Kind(p)] EXCEPT ![call[p].ticket] = issued[Kind(p)][call[p].ticket] + 1]]
        BY <1>9, <3>1, Zenon DEF Send
      <4>4. issued[Kind(p)][call[p].ticket] + 1 \in Nat
        <5>1. issued[Kind(p)][call[p].ticket] \in Nat
          BY <4>1, <4>2, Zenon
        <5> QED
          BY <5>1
      <4> QED
        BY <3>1, <4>1, <4>2, <4>3, <4>4
    <3>2. CASE Kind(p) \notin Metered
      BY <1>9, <3>2 DEF Send
    <3> QED
      BY <3>1, <3>2
  <2>6. free' \in [Pool -> Nat]
    BY <1>9, KindOf DEF Send
  <2>7. late' \in [Prospect -> Nat]
    BY <1>9 DEF Send
  <2>8. phase' \in [Prospect -> {"queued", "ready", "waiting", "flight", "done"}]
    BY <1>9 DEF Send
  <2> QED
    BY <1>9, <2>4, <2>5, <2>6, <2>7, <2>8 DEF Send
<1> QED
  BY <1>1, <1>2, <1>4, <1>6, <1>7, <1>8, <1>9 DEF Shape

\* What a shape does to the call of the prospect itself.
LEMMA OwnCall ==
    ASSUME TypeOK, CallsAreCounted, NEW p \in Prospect, Shape(p)
    PROVE  /\ phase'[p] # "done" => place'[p] < End
           /\ ~InCall(p)' => call'[p] = NoCall
           /\ InCall(p)' =>
                 /\ Kind(p)' = Kind(p)
                 /\ call'[p].retries <= TransportRetries[PoolOf(Kind(p))]
                 /\ call'[p].repaired => Kind(p) = "llm"
                 /\ call'[p].made = call'[p].retries + Repairs(p)' + Flying(p)'
<1> USE DEF TypeOK, CallsAreCounted, InCall
<1>1. TransportRetries[PoolOf(Kind(p))] \in Nat
  BY KindOf, ConstantTypes
<1>2. CASE Start(p)
  BY <1>2 DEF Start
<1>3. CASE GateOpen(p)
  <2>1. /\ phase'[p] = "waiting" /\ place' = place /\ call' = call /\ call[p] = NoCall
        /\ phase[p] # "done"
    BY <1>3 DEF GateOpen
  <2>2. Repairs(p)' = 0 /\ Flying(p)' = 0
    BY <2>1, NoCallType DEF Repairs, Flying
  <2> QED
    BY <1>1, <2>1, <2>2, NoCallType DEF Kind
<1>4. CASE Leaves(p) \/ Ends(p)
  BY <1>4 DEF Leaves, Ends, Rests
<1>5. CASE Reserve(p)
  <2>1. used[Kind(p)] + 1 \in Nat
    BY <1>5 DEF Reserve
  <2>2. /\ phase'[p] = "waiting" /\ place' = place /\ phase[p] # "done"
        /\ call'[p] = [NoCall EXCEPT !.ticket = used[Kind(p)] + 1]
    BY <1>5 DEF Reserve
  <2>3. call'[p].made = 0 /\ call'[p].retries = 0 /\ ~call'[p].repaired
    BY <2>1, <2>2, NoCallType
  <2>4. Repairs(p)' = 0 /\ Flying(p)' = 0
    BY <2>2, <2>3 DEF Repairs, Flying
  <2> QED
    BY <1>1, <2>2, <2>3, <2>4 DEF Kind
<1>6. CASE Send(p)
  <2>1. /\ call[p].made + 1 \in Nat /\ call[p].retries \in Nat /\ Repairs(p) \in 0..1
        /\ call[p] \in CallState
    BY CountersOf
  <2>2. /\ call'[p] = [call[p] EXCEPT !.made = call[p].made + 1]
        /\ phase'[p] = "flight" /\ place' = place /\ phase[p] = "waiting"
    BY <1>6, Zenon DEF Send
  <2>3. /\ call'[p].made = call[p].made + 1 /\ call'[p].retries = call[p].retries
        /\ call'[p].repaired = call[p].repaired
    <3>1. LET d == [call[p] EXCEPT !.made = call[p].made + 1] IN
          d.made = call[p].made + 1 /\ d.retries = call[p].retries /\ d.repaired = call[p].repaired
      BY <2>1, SetMade, Zenon
    <3> QED
      BY <2>2, <3>1, Zenon
  <2>4. Repairs(p)' = Repairs(p) /\ Flying(p)' = 1 /\ Flying(p) = 0
    BY <2>2, <2>3 DEF Repairs, Flying
  <2>5. /\ call[p].retries <= TransportRetries[PoolOf(Kind(p))]
        /\ call[p].repaired => Kind(p) = "llm"
        /\ call[p].made = call[p].retries + Repairs(p) + Flying(p)
        /\ place[p] < End
    BY <2>2
  <2> QED
    BY <2>1, <2>2, <2>3, <2>4, <2>5 DEF Kind
<1>7. CASE Continues(p)
  <2>1. phase[p] = "flight"
    BY <1>7 DEF Continues, Answered
  <2>2. PICK retries \in Nat, repaired \in BOOLEAN :
          /\ Again(p, retries, repaired)
          /\ \/ /\ retries = call[p].retries + 1 /\ repaired = call[p].repaired
                /\ retries <= TransportRetries[PoolOf(Kind(p))]
             \/ /\ retries = call[p].retries /\ repaired
                /\ Kind(p) = "llm" /\ ~call[p].repaired
    BY <1>7 DEF Continues
  <2>3. phase'[p] = "waiting" /\ place' = place
    BY <2>2, Zenon DEF Again
  <2>4. /\ call'[p].made = call[p].made /\ call'[p].retries = retries
        /\ call'[p].repaired = repaired
    BY <2>2, AgainCounts
  <2>5. /\ call[p].retries <= TransportRetries[PoolOf(Kind(p))]
        /\ call[p].repaired => Kind(p) = "llm"
        /\ call[p].made = call[p].retries + Repairs(p) + 1
        /\ place[p] < End /\ Flying(p)' = 0
    BY <2>1, <2>3 DEF Flying
  <2>6. CASE retries = call[p].retries + 1 /\ repaired = call[p].repaired
                /\ retries <= TransportRetries[PoolOf(Kind(p))]
    <3>1. Repairs(p)' = Repairs(p) /\ Repairs(p) \in 0..1 /\ call[p].retries \in Nat
      BY <2>4, <2>6, CountersOf DEF Repairs
    <3> QED
      BY <2>3, <2>4, <2>5, <2>6, <3>1 DEF Kind
  <2>7. CASE retries = call[p].retries /\ repaired /\ Kind(p) = "llm" /\ ~call[p].repaired
    <3>1. Repairs(p)' = 1 /\ Repairs(p) = 0 /\ call[p].retries \in Nat
      BY <2>4, <2>7, CountersOf DEF Repairs
    <3> QED
      BY <2>3, <2>4, <2>5, <2>7, <3>1 DEF Kind
  <2> QED
    BY <2>2, <2>6, <2>7
<1> QED
  BY <1>2, <1>3, <1>4, <1>5, <1>6, <1>7 DEF Shape

LEMMA CallsPreserved ==
    ASSUME TypeOK, CallsAreCounted, NEW p \in Prospect, Shape(p)
    PROVE  CallsAreCounted'
<1>1. ASSUME NEW q \in Prospect, q # p
      PROVE  /\ phase'[q] # "done" => place'[q] < End
             /\ ~InCall(q)' => call'[q] = NoCall
             /\ InCall(q)' =>
                   /\ call'[q].retries <= TransportRetries[PoolOf(Kind(q)')]
                   /\ call'[q].repaired => Kind(q)' = "llm"
                   /\ call'[q].made = call'[q].retries + Repairs(q)' + Flying(q)'
  BY <1>1, Others DEF CallsAreCounted, Repairs, Flying
<1> QED
  BY <1>1, OwnCall DEF CallsAreCounted
-----------------------------------------------------------------------------
(* The tickets of the metered calls.                                       *)

\* A call that is not beginning, ending or making an attempt keeps its ticket.
LEMMA TicketsUntouched ==
    ASSUME TypeOK, TicketsAreHeld, NEW p \in Prospect, Shape(p),
           UNCHANGED <<used, issued>>,
           InCall(p)' /\ Kind(p)' \in Metered =>
               InCall(p) /\ Kind(p)' = Kind(p) /\ call'[p].ticket = call[p].ticket
                         /\ call'[p].made = call[p].made
    PROVE  TicketsAreHeld'
<1>1. \A q \in Prospect : InCall(q)' /\ Kind(q)' \in Metered =>
          /\ InCall(q) /\ Kind(q)' = Kind(q) /\ call'[q].ticket = call[q].ticket
          /\ call'[q].made = call[q].made
  BY Others
<1> QED
  BY <1>1 DEF TicketsAreHeld

LEMMA TicketReserved ==
    ASSUME TypeOK, TicketsAreHeld, NEW p \in Prospect, Reserve(p)
    PROVE  TicketsAreHeld'
<1> DEFINE k == Kind(p)
<1>1. /\ phase[p] = "ready" /\ k \in Metered /\ used[k] < Cap[k]
      /\ used' = [used EXCEPT ![k] = @ + 1] /\ issued' = issued /\ place' = place
      /\ phase' = [phase EXCEPT ![p] = "waiting"]
      /\ call' = [call EXCEPT ![p] = [NoCall EXCEPT !.ticket = used[k] + 1]]
  BY DEF Reserve, HasRoom
<1>2. used[k] \in Nat /\ Cap[k] \in Nat /\ used \in [Metered -> Nat] /\ Cap \in [Metered -> Nat]
  BY <1>1, BudgetsAssumption DEF TypeOK
<1>3. call'[p].ticket = used[k] + 1 /\ call'[p].made = 0
  <2>1. used[k] + 1 \in Nat
    BY <1>2
  <2>2. LET c == [NoCall EXCEPT !.ticket = used[k] + 1] IN c.ticket = used[k] + 1 /\ c.made = 0
    BY <2>1, NoCallType, Zenon
  <2>3. call'[p] = [NoCall EXCEPT !.ticket = used[k] + 1]
    BY <1>1, Zenon DEF TypeOK
  <2> QED
    BY <2>2, <2>3, Zenon
<1>4. issued[k][used[k] + 1] = 0
  BY <1>1, <1>2 DEF TicketsAreHeld
<1>5. Shape(p) /\ Kind(p)' = k
  BY <1>1 DEF Shape, Kind
<1>6. ASSUME NEW q \in Prospect, InCall(q)', Kind(q)' \in Metered, q # p
      PROVE  /\ InCall(q) /\ Kind(q)' = Kind(q) /\ call'[q] = call[q]
             /\ call[q].ticket \in 1..used[Kind(q)]
             /\ issued[Kind(q)][call[q].ticket] = call[q].made
  BY <1>5, <1>6, Others DEF TicketsAreHeld
<1>7. ASSUME NEW q \in Prospect, InCall(q)', Kind(q)' \in Metered
      PROVE  /\ call'[q].ticket \in 1..used'[Kind(q)']
             /\ issued'[Kind(q)'][call'[q].ticket] = call'[q].made
  <2>1. CASE q = p
    BY <2>1, <1>1, <1>2, <1>3, <1>4, <1>5
  <2>2. CASE q # p
    <3>1. Kind(q) \in Metered /\ used[Kind(q)] \in Nat /\ used'[Kind(q)] >= used[Kind(q)]
      BY <2>2, <1>1, <1>2, <1>6, <1>7
    <3>2. used'[Kind(q)] \in Nat
      BY <3>1, <1>1, <1>2
    <3> QED
      BY <2>2, <1>1, <1>6, <1>7, <3>1, <3>2
  <2> QED
    BY <2>1, <2>2
<1>8. ASSUME NEW q \in Prospect, NEW r \in Prospect, InCall(q)', InCall(r)',
             Kind(q)' \in Metered, Kind(q)' = Kind(r)', call'[q].ticket = call'[r].ticket
      PROVE  q = r
  <2>1. CASE q # p /\ r # p
    BY <2>1, <1>6, <1>8 DEF TicketsAreHeld
  <2>2. CASE (q = p /\ r # p) \/ (q # p /\ r = p)
    BY <2>2, <1>2, <1>3, <1>5, <1>6, <1>8
  <2> QED
    BY <2>1, <2>2
<1>9. ASSUME NEW m \in Metered
      PROVE  /\ used'[m] <= Cap[m]
             /\ \A t \in 1..Cap[m] :
                   /\ issued'[m][t] <= 1 + TransportRetries[PoolOf(m)]
                   /\ t > used'[m] => issued'[m][t] = 0
  BY <1>1, <1>2 DEF TicketsAreHeld
<1> QED
  BY <1>7, <1>8, <1>9 DEF TicketsAreHeld

LEMMA TicketSent ==
    ASSUME TypeOK, CallsAreCounted, TicketsAreHeld, NEW p \in Prospect, Send(p)
    PROVE  TicketsAreHeld'
<1> DEFINE k == Kind(p)
           t == call[p].ticket
<1>1. /\ phase[p] = "waiting" /\ used' = used /\ place' = place
      /\ phase' = [phase EXCEPT ![p] = "flight"] /\ InCall(p)
      /\ issued' = IF k \in Metered THEN [issued EXCEPT ![k][t] = @ + 1] ELSE issued
  BY DEF Send, InCall
<1>2. Shape(p) /\ Kind(p)' = k
  BY <1>1 DEF Shape, Kind
<1>3. call'[p].ticket = t /\ call'[p].made = call[p].made + 1 /\ call[p].made \in Nat
  <2>1. call[p].made + 1 \in Nat /\ call[p].made \in Nat /\ call[p] \in CallState
    BY CountersOf
  <2>2. LET c == [call[p] EXCEPT !.made = call[p].made + 1] IN
        c.ticket = t /\ c.made = call[p].made + 1
    BY <2>1, SetMade, Zenon
  <2>3. call'[p] = [call[p] EXCEPT !.made = call[p].made + 1]
    BY Zenon DEF Send, TypeOK
  <2> QED
    BY <2>1, <2>2, <2>3, Zenon
<1>4. CASE k \notin Metered
  BY <1>1, <1>2, <1>4, TicketsUntouched
<1>5. CASE k \in Metered
  <2>1. /\ t \in 1..used[k] /\ used[k] <= Cap[k] /\ issued[k][t] = call[p].made
        /\ used[k] \in Nat /\ Cap[k] \in Nat
    BY <1>1, <1>5, BudgetsAssumption DEF TicketsAreHeld, TypeOK
  <2>2. t \in 1..Cap[k]
    BY <2>1
  <2>3. call[p].made + 1 <= 1 + TransportRetries[PoolOf(k)]
    <3>1. ~call[p].repaired /\ Repairs(p) = 0 /\ Flying(p) = 0
      BY <1>1, <1>5 DEF CallsAreCounted, Repairs, Flying, Metered
    <3>2. call[p].retries \in Nat /\ TransportRetries[PoolOf(k)] \in Nat
      BY CountersOf, KindOf, ConstantTypes
    <3>3. call[p].made = call[p].retries + Repairs(p) + Flying(p)
          /\ call[p].retries <= TransportRetries[PoolOf(k)]
      BY <1>1 DEF CallsAreCounted
    <3> QED
      BY <3>1, <3>2, <3>3
  <2>4. /\ DOMAIN issued = Metered /\ \A m \in Metered : issued[m] \in [1..Cap[m] -> Nat]
        /\ issued' = [issued EXCEPT ![k] = [issued[k] EXCEPT ![t] = issued[k][t] + 1]]
    BY <1>1, <1>5 DEF TypeOK
  <2>5. /\ issued'[k][t] = call[p].made + 1
        /\ \A m \in Metered : \A s \in 1..Cap[m] :
              m # k \/ s # t => issued'[m][s] = issued[m][s]
    BY <1>5, <2>1, <2>2, <2>4
  <2>6. ASSUME NEW q \in Prospect, InCall(q)', Kind(q)' \in Metered, q # p
        PROVE  /\ InCall(q) /\ Kind(q)' = Kind(q) /\ call'[q] = call[q]
               /\ call[q].ticket \in 1..used[Kind(q)] /\ call[q].ticket \in 1..Cap[Kind(q)]
               /\ issued[Kind(q)][call[q].ticket] = call[q].made
               /\ Kind(q) # k \/ call[q].ticket # t
    <3>1. InCall(q) /\ Kind(q)' = Kind(q) /\ call'[q] = call[q]
      BY <1>2, <2>6, Others
    <3>2. /\ call[q].ticket \in 1..used[Kind(q)] /\ used[Kind(q)] <= Cap[Kind(q)]
          /\ issued[Kind(q)][call[q].ticket] = call[q].made
          /\ Kind(q) # k \/ call[q].ticket # t
      BY <1>1, <2>6, <3>1 DEF TicketsAreHeld
    <3>3. used[Kind(q)] \in Nat /\ Cap[Kind(q)] \in Nat
      BY <2>6, <3>1, BudgetsAssumption DEF TypeOK
    <3> QED
      BY <3>1, <3>2, <3>3
  <2>7. ASSUME NEW q \in Prospect, InCall(q)', Kind(q)' \in Metered
        PROVE  /\ call'[q].ticket \in 1..used'[Kind(q)']
               /\ issued'[Kind(q)'][call'[q].ticket] = call'[q].made
    <3>1. CASE q = p
      BY <3>1, <1>1, <1>2, <1>3, <2>1, <2>5
    <3>2. CASE q # p
      BY <3>2, <1>1, <2>5, <2>6, <2>7
    <3> QED
      BY <3>1, <3>2
  <2>8. ASSUME NEW q \in Prospect, NEW r \in Prospect, InCall(q)', InCall(r)',
               Kind(q)' \in Metered, Kind(q)' = Kind(r)', call'[q].ticket = call'[r].ticket
        PROVE  q = r
    <3>1. CASE q # p /\ r # p
      BY <3>1, <2>6, <2>8 DEF TicketsAreHeld
    <3>2. CASE (q = p /\ r # p) \/ (q # p /\ r = p)
      BY <3>2, <1>2, <1>3, <2>6, <2>8
    <3> QED
      BY <3>1, <3>2
  <2>9. ASSUME NEW m \in Metered
        PROVE  /\ used'[m] <= Cap[m]
               /\ \A s \in 1..Cap[m] :
                     /\ issued'[m][s] <= 1 + TransportRetries[PoolOf(m)]
                     /\ s > used'[m] => issued'[m][s] = 0
    <3>1. used'[m] <= Cap[m]
      BY <1>1 DEF TicketsAreHeld
    <3>2. ASSUME NEW s \in 1..Cap[m], m # k \/ s # t
          PROVE  /\ issued'[m][s] <= 1 + TransportRetries[PoolOf(m)]
                 /\ s > used'[m] => issued'[m][s] = 0
      BY <1>1, <2>5, <3>2 DEF TicketsAreHeld
    <3>3. issued'[k][t] <= 1 + TransportRetries[PoolOf(k)] /\ ~(t > used'[k])
      BY <1>1, <2>1, <2>3, <2>5
    <3> QED
      BY <3>1, <3>2, <3>3
  <2> QED
    BY <2>7, <2>8, <2>9 DEF TicketsAreHeld
<1> QED
  BY <1>4, <1>5

LEMMA TicketsPreserved ==
    ASSUME TypeOK, CallsAreCounted, TicketsAreHeld, NEW p \in Prospect, Shape(p)
    PROVE  TicketsAreHeld'
<1>1. CASE Start(p)
  BY <1>1, TicketsUntouched DEF Start, InCall, budgets, TypeOK
<1>2. CASE GateOpen(p)
  <2>1. Kind(p)' = Kind(p) /\ Kind(p) = "llm" /\ UNCHANGED <<used, issued>>
    BY <1>2 DEF GateOpen, Kind, budgets
  <2>2. Kind(p)' \notin Metered
    BY <2>1 DEF Metered
  <2> QED
    BY <2>1, <2>2, TicketsUntouched
<1>3. CASE Leaves(p) \/ Ends(p)
  <2>1. ~InCall(p)'
    BY <1>3 DEF Leaves, Ends, Rests, InCall, TypeOK
  <2>2. UNCHANGED <<used, issued>>
    BY <1>3 DEF Leaves, Ends, Answered, budgets
  <2> QED
    BY <2>1, <2>2, TicketsUntouched
<1>4. CASE Continues(p)
  <2>1. PICK retries \in Nat, repaired \in BOOLEAN : Again(p, retries, repaired)
    BY <1>4 DEF Continues
  <2>2. place' = place
    BY <2>1 DEF Again
  <2>3. call'[p].ticket = call[p].ticket /\ call'[p].made = call[p].made
    BY <2>1, AgainCounts
  <2>4. InCall(p) /\ Kind(p)' = Kind(p) /\ UNCHANGED <<used, issued>>
    BY <1>4, <2>2 DEF Continues, Answered, InCall, Kind
  <2> QED
    BY <2>3, <2>4, TicketsUntouched
<1>5. CASE Reserve(p)
  BY <1>5, TicketReserved
<1>6. CASE Send(p)
  BY <1>6, TicketSent
<1> QED
  BY <1>1, <1>2, <1>3, <1>4, <1>5, <1>6 DEF Shape
-----------------------------------------------------------------------------
(* The attempts after the trip.                                            *)

LEMMA AttemptsOfCall ==
    ASSUME TypeOK, CallsAreCounted, NEW p \in Prospect
    PROVE  /\ InCall(p) => call[p].made <= MaxAttempts(Kind(p))
           /\ InCall(p) /\ phase[p] = "waiting" => call[p].made < MaxAttempts(Kind(p))
           /\ ~InCall(p) => call[p].made = 0
<1>1. CASE InCall(p)
  <2>1. TransportRetries[PoolOf(Kind(p))] \in Nat /\ Kind(p) \in Metered \cup {"llm"}
    BY KindOf, ConstantTypes
  <2>2. /\ call[p].made = call[p].retries + Repairs(p) + Flying(p)
        /\ call[p].retries <= TransportRetries[PoolOf(Kind(p))]
        /\ call[p].retries \in Nat /\ Repairs(p) \in 0..1 /\ Flying(p) \in 0..1
        /\ phase[p] = "waiting" => Flying(p) = 0
    BY <1>1, CountersOf DEF CallsAreCounted, Flying
  <2>3. Kind(p) # "llm" => Repairs(p) = 0
    BY <1>1 DEF CallsAreCounted, Repairs
  <2>4. MaxAttempts(Kind(p)) = TransportRetries[PoolOf(Kind(p))] + (IF Kind(p) = "llm" THEN 2 ELSE 1)
    BY DEF MaxAttempts
  <2> HIDE DEF MaxAttempts
  <2>5. CASE Kind(p) = "llm"
    BY <1>1, <2>1, <2>2, <2>4, <2>5
  <2>6. CASE Kind(p) # "llm"
    BY <1>1, <2>1, <2>2, <2>3, <2>4, <2>6
  <2> QED
    BY <2>5, <2>6
<1>2. CASE ~InCall(p)
  BY <1>2, NoCallType DEF CallsAreCounted
<1> QED
  BY <1>1, <1>2

LEMMA SpentGrows ==
    ASSUME TypeOK, NEW p \in Prospect, Shape(p)
    PROVE  spent' \in Nat /\ spent' >= spent /\ (Tripped => Tripped')
<1>1. spent \in Nat /\ SoftLimit \in Nat
  BY ConstantTypes DEF TypeOK
<1>2. spent' = spent \/ spent' = spent + 1
  BY DEF Shape, Start, Leaves, Reserve, GateOpen, Send, Ends, Continues, Answered, budgets
<1> QED
  BY <1>1, <1>2 DEF Tripped

LEMMA LatePreserved ==
    ASSUME TypeOK, CallsAreCounted, LateIsOneCall, NEW p \in Prospect, Shape(p)
    PROVE  LateIsOneCall'
<1>1. \A q \in Prospect : late[q] \in Nat /\ call[q].made \in Nat
  BY CountersOf DEF TypeOK
<1>2. ASSUME NEW q \in Prospect, q # p
      PROVE  /\ late'[q] > 0 => Tripped'
             /\ late'[q] <= MaxAttempts("llm")
             /\ InCall(q)' /\ Kind(q)' = "llm" => late'[q] <= call'[q].made
  BY <1>2, Others, SpentGrows DEF LateIsOneCall
<1>3. ASSUME late'[p] = late[p],
             InCall(p)' /\ Kind(p)' = "llm" => late[p] <= call'[p].made
      PROVE  LateIsOneCall'
  BY <1>2, <1>3, SpentGrows DEF LateIsOneCall
<1>4. CASE Start(p)
  BY <1>3, <1>4 DEF Start, InCall, budgets, TypeOK
<1>5. CASE Reserve(p)
  <2>1. Kind(p)' = Kind(p) /\ Kind(p) \in Metered /\ late' = late
    BY <1>5 DEF Reserve, Kind
  <2> QED
    BY <1>3, <2>1 DEF Metered
<1>6. CASE GateOpen(p)
  <2>1. late' = late /\ ~Tripped /\ call' = call
    BY <1>6 DEF GateOpen, budgets
  <2>2. late[p] = 0
    BY <1>1, <2>1 DEF LateIsOneCall
  <2> QED
    BY <1>1, <1>3, <2>1, <2>2
<1>7. CASE Leaves(p) \/ Ends(p)
  <2>1. ~InCall(p)' /\ late' = late
    BY <1>7 DEF Leaves, Ends, Rests, Answered, InCall, budgets, TypeOK
  <2> QED
    BY <1>3, <2>1
<1>8. CASE Continues(p)
  <2>1. PICK retries \in Nat, repaired \in BOOLEAN : Again(p, retries, repaired)
    BY <1>8 DEF Continues
  <2>2. call'[p].made = call[p].made
    BY <2>1, AgainCounts
  <2>3. InCall(p) /\ Kind(p)' = Kind(p) /\ late' = late
    BY <1>8, <2>1 DEF Continues, Answered, InCall, Kind, Again
  <2> QED
    BY <1>3, <2>2, <2>3 DEF LateIsOneCall
<1>9. CASE Send(p)
  <2>1. /\ InCall(p) /\ phase[p] = "waiting" /\ Kind(p)' = Kind(p)
        /\ call'[p] = [call[p] EXCEPT !.made = call[p].made + 1]
    BY <1>9, Zenon DEF Send, InCall, Kind, TypeOK
  <2>2. call'[p].made = call[p].made + 1
    <3>1. call[p].made + 1 \in Nat /\ call[p] \in CallState
      BY CountersOf
    <3>2. LET c == [call[p] EXCEPT !.made = call[p].made + 1] IN c.made = call[p].made + 1
      BY <3>1, SetMade, Zenon
    <3> QED
      BY <2>1, <3>2, Zenon
  <2>3. CASE Kind(p) = "llm" /\ Tripped
    <3>1. late'[p] = late[p] + 1 /\ late[p] <= call[p].made /\ Tripped'
      BY <1>9, <2>1, <2>3, SpentGrows DEF Send, LateIsOneCall, TypeOK
    <3>2. call[p].made < MaxAttempts("llm")
      BY <2>1, <2>3, AttemptsOfCall
    <3>3. late'[p] <= MaxAttempts("llm")
      BY <1>1, <3>1, <3>2, ConstantTypes DEF LateMax
    <3>4. late'[p] <= call'[p].made
      BY <1>1, <2>2, <3>1
    <3> QED
      BY <1>2, <3>1, <3>3, <3>4 DEF LateIsOneCall
  <2>4. CASE ~(Kind(p) = "llm" /\ Tripped)
    <3>1. late'[p] = late[p]
      BY <1>9, <2>4 DEF Send
    <3>2. Kind(p) = "llm" => late[p] <= call'[p].made
      BY <1>1, <2>1, <2>2 DEF LateIsOneCall
    <3> QED
      BY <1>3, <2>1, <3>1, <3>2
  <2> QED
    BY <2>3, <2>4
<1> QED
  BY <1>4, <1>5, <1>6, <1>7, <1>8, <1>9 DEF Shape

-----------------------------------------------------------------------------
(* The permits.                                                            *)

Using(q) == {p \in Prospect : phase[p] = "flight" /\ PoolOf(Kind(p)) = q}

LEMMA UsingIsFinite == \A q \in Pool : IsFiniteSet(Using(q)) /\ Cardinality(Using(q)) \in Nat
BY FS_Subset, FS_CardinalityType, BudgetsAssumption DEF Using

\* The count of one pool moves against its permits, the others stay.
LEMMA PermitsBalance ==
    ASSUME TypeOK, PermitsAreKept, NEW mine \in Pool,
           \A q \in Pool \ {mine} : Using(q)' = Using(q) /\ free'[q] = free[q],
           free'[mine] + Cardinality(Using(mine)') = free[mine] + Cardinality(Using(mine))
    PROVE  PermitsAreKept'
<1>1. \A q \in Pool : free[q] + Cardinality(Using(q)) = Slots[q]
  BY DEF PermitsAreKept, Using
<1>2. ASSUME NEW q \in Pool PROVE free'[q] + Cardinality(Using(q)') = Slots[q]
  <2>1. CASE q = mine
    BY <1>1, <2>1
  <2>2. CASE q # mine
    <3>1. Using(q)' = Using(q) /\ free'[q] = free[q]
      BY <2>2
    <3> QED
      BY <1>1, <3>1
  <2> QED
    BY <2>1, <2>2
<1> QED
  BY <1>2 DEF PermitsAreKept, Using

LEMMA PermitsPreserved ==
    ASSUME TypeOK, PermitsAreKept, NEW p \in Prospect, Shape(p)
    PROVE  PermitsAreKept'
<1>1. \A q \in Pool : free[q] \in Nat /\ Cardinality(Using(q)) \in Nat
  BY UsingIsFinite DEF TypeOK
<1>3. \A r \in Prospect \ {p} : \A q \in Pool : r \in Using(q)' <=> r \in Using(q)
  BY Others DEF Using
<1>4. PICK mine \in Pool : mine = PoolOf(Kind(p))
  BY KindOf
<1>5. CASE Start(p) \/ Leaves(p) \/ Reserve(p) \/ GateOpen(p)
  <2>1. free' = free /\ phase[p] # "flight" /\ phase'[p] # "flight"
    BY <1>5 DEF Start, Leaves, Rests, Reserve, GateOpen, TypeOK
  <2>2. \A q \in Pool : Using(q)' = Using(q)
    BY <1>3, <2>1 DEF Using
  <2> QED
    BY <1>4, <2>1, <2>2, PermitsBalance
<1>6. CASE Send(p)
  <2>1. /\ free' = [free EXCEPT ![mine] = @ - 1] /\ free[mine] > 0
        /\ phase[p] # "flight" /\ phase'[p] = "flight" /\ place' = place
    BY <1>4, <1>6 DEF Send, TypeOK
  <2>2. Using(mine)' = Using(mine) \cup {p} /\ p \notin Using(mine)
    BY <1>3, <1>4, <2>1 DEF Using, Kind
  <2>3. Cardinality(Using(mine)') = Cardinality(Using(mine)) + 1
    BY <1>4, <2>2, UsingIsFinite, FS_AddElement
  <2>4. ASSUME NEW q \in Pool \ {mine} PROVE Using(q)' = Using(q)
    <3>1. p \notin Using(q) /\ p \notin Using(q)'
      BY <1>4, <2>1 DEF Using, Kind
    <3> QED
      BY <1>3, <3>1, Zenon DEF Using
  <2>5. free'[mine] = free[mine] - 1
    BY <1>4, <2>1 DEF TypeOK
  <2>6. \A q \in Pool \ {mine} : free'[q] = free[q]
    BY <2>1 DEF TypeOK
  <2>7. free'[mine] + Cardinality(Using(mine)') = free[mine] + Cardinality(Using(mine))
    BY <1>1, <1>4, <2>3, <2>5
  <2>8. \A q \in Pool \ {mine} : Using(q)' = Using(q) /\ free'[q] = free[q]
    BY <2>4, <2>6, Zenon
  <2> QED
    BY <1>4, <2>7, <2>8, PermitsBalance, Zenon
<1>7. CASE Ends(p) \/ Continues(p)
  <2>1. /\ free' = [free EXCEPT ![mine] = @ + 1]
        /\ phase[p] = "flight" /\ phase'[p] # "flight"
    BY <1>4, <1>7 DEF Ends, Continues, Answered, Release, Rests, Again, TypeOK
  <2>2. Using(mine)' = Using(mine) \ {p} /\ p \in Using(mine)
    <3>1. p \in Using(mine) /\ p \notin Using(mine)'
      BY <1>4, <2>1 DEF Using
    <3>2. Using(mine) \subseteq Prospect /\ Using(mine)' \subseteq Prospect
      BY Zenon DEF Using
    <3> QED
      BY <1>3, <1>4, <3>1, <3>2
  <2>3. Cardinality(Using(mine)') = Cardinality(Using(mine)) - 1
    BY <1>4, <2>2, UsingIsFinite, FS_RemoveElement
  <2>4. ASSUME NEW q \in Pool \ {mine} PROVE Using(q)' = Using(q)
    <3>1. p \notin Using(q) /\ p \notin Using(q)'
      BY <1>4, <2>1 DEF Using
    <3> QED
      BY <1>3, <3>1, Zenon DEF Using
  <2>5. free'[mine] = free[mine] + 1
    BY <1>4, <2>1 DEF TypeOK
  <2>6. \A q \in Pool \ {mine} : free'[q] = free[q]
    BY <2>1 DEF TypeOK
  <2>7. free'[mine] + Cardinality(Using(mine)') = free[mine] + Cardinality(Using(mine))
    BY <1>1, <1>4, <2>3, <2>5
  <2>8. \A q \in Pool \ {mine} : Using(q)' = Using(q) /\ free'[q] = free[q]
    BY <2>4, <2>6, Zenon
  <2> QED
    BY <1>4, <2>7, <2>8, PermitsBalance, Zenon
<1> QED
  BY <1>5, <1>6, <1>7 DEF Shape
-----------------------------------------------------------------------------
(* What the calls under way may still charge.                              *)

\* p is in an LLM call, and its n-th attempt was not charged yet.
Owes(p, n) == InCall(p) /\ Kind(p) = "llm" /\ n > call[p].made - Flying(p)

LEMMA DueIsOwed ==
    ASSUME TypeOK
    PROVE  \A d : d \in Due <=> \E q \in Prospect, n \in 1..LateMax : d = <<q, n>> /\ Owes(q, n)
<1>1. Running \subseteq Prospect /\ \A q \in Prospect : InCall(q) => q \in Running
  BY DEF Running, InCall
<1>2. ASSUME NEW d \in Due
      PROVE  \E q \in Prospect, n \in 1..LateMax : d = <<q, n>> /\ Owes(q, n)
  <2>1. d \in Running \X (1..LateMax) /\ Owes(d[1], d[2])
    BY <1>2 DEF Due, Owes, LateMax
  <2>2. d = <<d[1], d[2]>> /\ d[1] \in Prospect /\ d[2] \in 1..LateMax
    BY <1>1, <2>1
  <2> QED
    BY <2>1, <2>2
<1>3. ASSUME NEW q \in Prospect, NEW n \in 1..LateMax, Owes(q, n)
      PROVE  <<q, n>> \in Due
  <2>1. <<q, n>> \in Running \X (1..LateMax)
    BY <1>1, <1>3 DEF Owes
  <2> QED
    BY <1>3, <2>1 DEF Due, Owes, LateMax
<1> QED
  BY <1>2, <1>3

LEMMA DueIsOwedNext ==
    ASSUME TypeOK'
    PROVE  \A d : d \in Due' <=> \E q \in Prospect, n \in 1..LateMax : d = <<q, n>> /\ Owes(q, n)'
<1>1. Running' \subseteq Prospect /\ \A q \in Prospect : InCall(q)' => q \in Running'
  BY DEF Running, InCall
<1>2. ASSUME NEW d \in Due'
      PROVE  \E q \in Prospect, n \in 1..LateMax : d = <<q, n>> /\ Owes(q, n)'
  <2>1. d \in Running' \X (1..LateMax) /\ Owes(d[1], d[2])'
    BY <1>2 DEF Due, Owes, LateMax
  <2>2. d = <<d[1], d[2]>> /\ d[1] \in Prospect /\ d[2] \in 1..LateMax
    BY <1>1, <2>1
  <2> QED
    BY <2>1, <2>2
<1>3. ASSUME NEW q \in Prospect, NEW n \in 1..LateMax, Owes(q, n)'
      PROVE  <<q, n>> \in Due'
  <2>1. <<q, n>> \in Running' \X (1..LateMax)
    BY <1>1, <1>3 DEF Owes
  <2> QED
    BY <1>3, <2>1 DEF Due, Owes, LateMax
<1> QED
  BY <1>2, <1>3

\* Only a call the gate lets through adds to what is due.
LEMMA NothingMoreIsOwed ==
    ASSUME TypeOK, NEW p \in Prospect, Shape(p), ~GateOpen(p),
           NEW n \in 1..LateMax, Owes(p, n)'
    PROVE  Owes(p, n)
<1>1. call[p].made \in Nat
  BY CountersOf
<1>2. CASE Start(p) \/ Leaves(p) \/ Ends(p)
  <2>1. ~InCall(p)'
    BY <1>2 DEF Start, Leaves, Ends, Rests, InCall, TypeOK
  <2> QED
    BY <2>1 DEF Owes
<1>3. CASE Reserve(p)
  <2>1. Kind(p)' = Kind(p) /\ Kind(p) \in Metered
    BY <1>3 DEF Reserve, Kind
  <2> QED
    BY <2>1 DEF Owes, Metered
<1>4. CASE Send(p)
  <2>1. /\ phase[p] = "waiting" /\ phase'[p] = "flight" /\ Kind(p)' = Kind(p)
        /\ call'[p] = [call[p] EXCEPT !.made = call[p].made + 1]
    BY <1>4, Zenon DEF Send, Kind, TypeOK
  <2>2. call'[p].made = call[p].made + 1
    <3>1. call[p].made + 1 \in Nat /\ call[p] \in CallState
      BY CountersOf
    <3>2. LET c == [call[p] EXCEPT !.made = call[p].made + 1] IN c.made = call[p].made + 1
      BY <3>1, SetMade, Zenon
    <3> QED
      BY <2>1, <3>2, Zenon
  <2> QED
    BY <1>1, <2>1, <2>2 DEF Owes, InCall, Flying
<1>5. CASE Continues(p)
  <2>1. PICK retries \in Nat, repaired \in BOOLEAN : Again(p, retries, repaired)
    BY <1>5 DEF Continues
  <2>2. call'[p].made = call[p].made
    BY <2>1, AgainCounts
  <2>3. InCall(p) /\ Kind(p)' = Kind(p) /\ phase'[p] = "waiting"
    BY <1>5, <2>1 DEF Continues, Answered, InCall, Kind, Again, TypeOK
  <2>4. n > call[p].made
    BY <1>1, <2>2, <2>3 DEF Owes, Flying
  <2> QED
    BY <1>1, <2>3, <2>4 DEF Owes, Flying
<1> QED
  BY <1>2, <1>3, <1>4, <1>5 DEF Shape

\* The attempt an answer charges was due, and is not due any more.
LEMMA AnsweredWasOwed ==
    ASSUME TypeOK, CallsAreCounted, NEW p \in Prospect, Ends(p) \/ Continues(p),
           NEW n \in Nat, n = call[p].made
    PROVE  /\ ~Owes(p, n)'
           /\ Kind(p) = "llm" => n \in 1..LateMax /\ Owes(p, n)
<1>1. call[p].made \in Nat /\ phase[p] = "flight" /\ InCall(p)
  BY CountersOf DEF Ends, Continues, Answered, InCall
<1>2. ASSUME Kind(p) = "llm"
      PROVE  n \in 1..LateMax /\ Owes(p, n)
  <2>1. call[p].made = call[p].retries + Repairs(p) + 1
    BY <1>1 DEF CallsAreCounted, Flying
  <2>2. call[p].retries \in Nat /\ Repairs(p) \in 0..1
    BY CountersOf DEF Repairs
  <2>3. call[p].made <= LateMax
    BY <1>1, <1>2, AttemptsOfCall DEF LateMax
  <2>4. n \in 1..LateMax
    BY <1>1, <2>1, <2>2, <2>3, ConstantTypes
  <2> QED
    BY <1>1, <1>2, <2>4 DEF Owes, Flying
<1>3. CASE Ends(p)
  <2>1. ~InCall(p)'
    BY <1>3 DEF Ends, Rests, InCall, TypeOK
  <2> QED
    BY <1>2, <2>1 DEF Owes
<1>4. CASE Continues(p)
  <2>1. PICK retries \in Nat, repaired \in BOOLEAN : Again(p, retries, repaired)
    BY <1>4 DEF Continues
  <2>2. call'[p].made = call[p].made /\ phase'[p] = "waiting"
    BY <2>1, AgainCounts DEF Again, TypeOK
  <2>3. ~(n > call'[p].made - Flying(p)')
    BY <1>1, <2>2 DEF Flying
  <2> QED
    BY <1>2, <2>2, <2>3 DEF Owes
<1> QED
  BY <1>3, <1>4

LEMMA DueIsFinite ==
    /\ IsFiniteSet(Running) /\ Cardinality(Running) \in Nat
    /\ IsFiniteSet(Running \X (1..LateMax))
    /\ Cardinality(Running \X (1..LateMax)) = Cardinality(Running) * LateMax
    /\ Due \subseteq Running \X (1..LateMax)
    /\ IsFiniteSet(Due) /\ Cardinality(Due) \in Nat
<1>1. IsFiniteSet(Running) /\ Cardinality(Running) \in Nat
  BY FS_Subset, FS_CardinalityType, BudgetsAssumption DEF Running
<1>2. IsFiniteSet(1..LateMax) /\ Cardinality(1..LateMax) = LateMax
  BY FS_Interval, ConstantTypes
<1>3. /\ IsFiniteSet(Running \X (1..LateMax))
      /\ Cardinality(Running \X (1..LateMax)) = Cardinality(Running) * LateMax
  BY <1>1, <1>2, FS_Product
<1>4. Due \subseteq Running \X (1..LateMax)
  BY DEF Due, LateMax
<1> QED
  BY <1>1, <1>3, <1>4, FS_Subset, FS_CardinalityType

\* A step charges nothing and adds nothing to what is due, or charges one
\* attempt that was due; the gate adds to it, before the trip.
LEMMA DueMoves ==
    ASSUME TypeOK, TypeOK', CallsAreCounted, NEW p \in Prospect, Shape(p)
    PROVE  \/ spent' = spent /\ Due' \subseteq Due
           \/ spent' = spent /\ ~Tripped
           \/ spent' = spent + 1 /\ \E d \in Due : Due' \subseteq Due \ {d}
<1>1. CASE GateOpen(p)
  BY <1>1 DEF GateOpen, budgets
<1>2. CASE ~GateOpen(p)
  <2>1. \A q \in Prospect \ {p} : \A n \in 1..LateMax : Owes(q, n)' <=> Owes(q, n)
    BY Others DEF Owes, Flying
  <2>2. \A n \in 1..LateMax : Owes(p, n)' => Owes(p, n)
    BY <1>2, NothingMoreIsOwed
  <2>3. Due' \subseteq Due
    BY <2>1, <2>2, DueIsOwed, DueIsOwedNext
  <2>4. CASE spent' = spent
    BY <2>3, <2>4
  <2>5. CASE spent' # spent
    <3>1. Kind(p) = "llm" /\ spent' = spent + 1 /\ (Ends(p) \/ Continues(p))
      BY <1>2, <2>5 DEF Shape, Start, Leaves, Reserve, Send, Ends, Continues, Answered, budgets
    <3>2. PICK n \in Nat : n = call[p].made
      BY CountersOf
    <3>3. n \in 1..LateMax /\ Owes(p, n) /\ ~Owes(p, n)'
      BY <3>1, <3>2, AnsweredWasOwed
    <3>4. <<p, n>> \in Due
      BY <3>3, DueIsOwed
    <3>5. <<p, n>> \notin Due'
      BY <3>3, DueIsOwedNext
    <3> QED
      BY <2>3, <3>1, <3>4, <3>5
  <2> QED
    BY <2>4, <2>5
<1> QED
  BY <1>1, <1>2

LEMMA RunningPreserved ==
    ASSUME TypeOK, Cardinality(Running) <= MaxConcurrent, NEW p \in Prospect, Shape(p)
    PROVE  Cardinality(Running') <= MaxConcurrent
<1>1. \A q \in Prospect \ {p} : q \in Running' <=> q \in Running
  BY Others DEF Running
<1>2. CASE Start(p)
  <2>1. Running' = Running \cup {p} /\ p \notin Running /\ Cardinality(Running) < MaxConcurrent
    BY <1>1, <1>2 DEF Start, Running, TypeOK
  <2>2. Cardinality(Running \cup {p}) = Cardinality(Running) + 1
    BY <2>1, DueIsFinite, FS_AddElement
  <2> QED
    BY <2>1, <2>2, DueIsFinite, ConstantTypes
<1>3. CASE ~Start(p)
  <2>1. p \in Running
    BY <1>3 DEF Shape, Leaves, Reserve, GateOpen, Send, Ends, Continues, Answered, Running
  <2>2. Running' \subseteq Running
    BY <1>1, <2>1 DEF Running
  <2>3. Cardinality(Running') <= Cardinality(Running) /\ Cardinality(Running') \in Nat
    BY <2>2, DueIsFinite, FS_Subset, FS_CardinalityType
  <2> QED
    BY <2>3, DueIsFinite, ConstantTypes
<1> QED
  BY <1>2, <1>3

LEMMA Monotone ==
    ASSUME NEW a \in Nat, NEW b \in Nat, NEW c \in Nat, a <= b
    PROVE  a * c \in Nat /\ b * c \in Nat /\ a * c <= b * c
OBVIOUS

LEMMA OverrunPreserved ==
    ASSUME TypeOK, TypeOK', CallsAreCounted, OverrunIsDue, NEW p \in Prospect, Shape(p)
    PROVE  OverrunIsDue'
<1> DEFINE room == MaxConcurrent * LateMax
<1>1. /\ spent \in Nat /\ SoftLimit \in Nat /\ room \in Nat
      /\ Cardinality(Running) <= MaxConcurrent
      /\ Tripped => spent + Cardinality(Due) < SoftLimit + room
  BY ConstantTypes, Monotone DEF TypeOK, OverrunIsDue, LateMax
<1>2. IsFiniteSet(Due) /\ Cardinality(Due) \in Nat /\ Cardinality(Due) <= room
  <2>1. Cardinality(Running) * LateMax \in Nat /\ Cardinality(Running) * LateMax <= room
    BY <1>1, DueIsFinite, ConstantTypes, Monotone
  <2>2. Cardinality(Due) <= Cardinality(Running \X (1..LateMax))
    BY DueIsFinite, FS_Subset
  <2> HIDE DEF room
  <2> QED
    BY <1>1, <2>1, <2>2, DueIsFinite
<1>3. Cardinality(Running') <= MaxConcurrent
  BY <1>1, RunningPreserved
<1>4. ASSUME Tripped'
      PROVE  spent' + Cardinality(Due') < SoftLimit + room
  <2>1. CASE spent' = spent /\ Due' \subseteq Due
    <3>1. Cardinality(Due') \in Nat /\ Cardinality(Due') <= Cardinality(Due)
      BY <1>2, <2>1, FS_Subset, FS_CardinalityType
    <3>2. Tripped
      BY <1>4, <2>1 DEF Tripped
    <3> HIDE DEF room
    <3> QED
      BY <1>1, <1>2, <2>1, <3>1, <3>2
  <2>2. CASE spent' = spent /\ ~Tripped
    BY <1>4, <2>2 DEF Tripped
  <2>3. CASE spent' = spent + 1 /\ \E d \in Due : Due' \subseteq Due \ {d}
    <3>1. PICK d \in Due : Due' \subseteq Due \ {d}
      BY <2>3
    <3>2. IsFiniteSet(Due \ {d}) /\ Cardinality(Due \ {d}) = Cardinality(Due) - 1
      BY <1>2, <3>1, FS_RemoveElement
    <3>3. Cardinality(Due') \in Nat /\ Cardinality(Due') <= Cardinality(Due) - 1
      BY <3>1, <3>2, FS_Subset, FS_CardinalityType
    <3>4. ~Tripped => spent + 1 <= SoftLimit
      BY <1>1 DEF Tripped
    <3> HIDE DEF room
    <3> QED
      BY <1>1, <1>2, <2>3, <3>3, <3>4
  <2> QED
    BY <2>1, <2>2, <2>3, DueMoves
<1> QED
  BY <1>3, <1>4 DEF OverrunIsDue, LateMax
-----------------------------------------------------------------------------
(* The theorems.                                                           *)

LEMMA RoomIsPositive ==
    MaxConcurrent * LateMax \in Nat /\ MaxConcurrent * LateMax > 0
<1>1. 1 <= MaxConcurrent /\ 1 * LateMax = LateMax
  BY ConstantTypes
<1>2. MaxConcurrent * LateMax \in Nat /\ 1 * LateMax <= MaxConcurrent * LateMax
  BY <1>1, ConstantTypes, Monotone
<1> QED
  BY <1>1, <1>2, ConstantTypes

LEMMA InitTypes ==
    ASSUME Init
    PROVE  TypeOK
<1>1. 1 \in Place
  BY ConstantTypes DEF Place, End
<1>2. free \in [Pool -> Nat]
  BY BudgetsAssumption DEF Init
<1>3. DOMAIN issued = Metered /\ \A k \in Metered : issued[k] \in [1..Cap[k] -> Nat]
  BY DEF Init
<1>4. call \in [Prospect -> CallState]
  BY NoCallType DEF Init
<1> QED
  BY <1>1, <1>2, <1>3, <1>4 DEF Init, TypeOK

LEMMA InitInvariant ==
    ASSUME Init
    PROVE  IInv
<1>1. TypeOK
  BY InitTypes
<1>2. \A p \in Prospect :
          phase[p] = "queued" /\ place[p] = 1 /\ call[p] = NoCall /\ late[p] = 0 /\ ~InCall(p)
  BY DEF Init, InCall
<1>3. CallsAreCounted
  BY <1>2, ConstantTypes DEF CallsAreCounted, End
<1>4. TicketsAreHeld
  <2>1. ASSUME NEW k \in Metered
        PROVE  /\ used[k] <= Cap[k]
               /\ \A t \in 1..Cap[k] :
                     /\ issued[k][t] <= 1 + TransportRetries[PoolOf(k)]
                     /\ t > used[k] => issued[k][t] = 0
    <3>1. Cap[k] \in Nat /\ TransportRetries[PoolOf(k)] \in Nat
      BY ConstantTypes, BudgetsAssumption
    <3>2. used[k] = 0 /\ \A t \in 1..Cap[k] : issued[k][t] = 0
      BY DEF Init
    <3> QED
      BY <3>1, <3>2
  <2> QED
    BY <1>2, <2>1 DEF TicketsAreHeld
<1>5. LateIsOneCall
  BY <1>2, ConstantTypes DEF LateIsOneCall, LateMax
<1>6. OverrunIsDue
  <2>1. Running = {} /\ spent = 0
    BY <1>2 DEF Running, Init
  <2>2. Due = {}
    BY <2>1, DueIsFinite
  <2>3. Cardinality({}) = 0
    BY FS_EmptySet
  <2> QED
    BY <2>1, <2>2, <2>3, ConstantTypes, RoomIsPositive DEF OverrunIsDue, LateMax
<1>7. PermitsAreKept
  <2>1. ASSUME NEW q \in Pool PROVE free[q] + Cardinality(Using(q)) = Slots[q]
    <3>1. Using(q) = {}
      BY <1>2 DEF Using
    <3>2. free[q] = Slots[q] /\ Slots[q] \in Nat
      BY BudgetsAssumption DEF Init
    <3>3. Cardinality({}) = 0
      BY FS_EmptySet
    <3> QED
      BY <3>1, <3>2, <3>3
  <2> QED
    BY <2>1 DEF PermitsAreKept, Using
<1> QED
  BY <1>1, <1>3, <1>4, <1>5, <1>6, <1>7 DEF IInv

LEMMA StutterInvariant ==
    ASSUME IInv, UNCHANGED vars
    PROVE  IInv'
<1>1. /\ UNCHANGED <<phase, place, tries, hits, call>>
      /\ UNCHANGED <<used, issued, spent, late, free>>
  BY DEF vars, progress, budgets
<1> QED
  BY <1>1 DEF IInv, TypeOK, CallsAreCounted, TicketsAreHeld, LateIsOneCall, OverrunIsDue,
              PermitsAreKept, InCall, Kind, Repairs, Flying, Tripped, Running, Due

\* Whatever the caps, the permits and the retries, and wherever steps are
\* cancelled: the counters of every call, the tickets it holds, and what it may
\* still charge stay consistent with each other.
THEOREM Inductive == Spec => []IInv
<1>1. ASSUME IInv, [Next]_vars PROVE IInv'
  <2>1. /\ TypeOK /\ CallsAreCounted /\ TicketsAreHeld
        /\ LateIsOneCall /\ OverrunIsDue /\ PermitsAreKept
    BY <1>1 DEF IInv
  <2>2. CASE UNCHANGED vars
    BY <1>1, <2>2, StutterInvariant
  <2>3. ASSUME NEW p \in Prospect, Shape(p) PROVE IInv'
    <3>1. TypeOK'
      BY <2>1, <2>3, TypesPreserved
    <3>2. CallsAreCounted'
      BY <2>1, <2>3, CallsPreserved
    <3>3. TicketsAreHeld'
      BY <2>1, <2>3, TicketsPreserved
    <3>4. LateIsOneCall'
      BY <2>1, <2>3, LatePreserved
    <3>5. OverrunIsDue'
      BY <2>1, <2>3, <3>1, OverrunPreserved
    <3>6. PermitsAreKept'
      BY <2>1, <2>3, PermitsPreserved
    <3> QED
      BY <3>1, <3>2, <3>3, <3>4, <3>5, <3>6 DEF IInv
  <2> QED
    BY <1>1, <2>1, <2>2, <2>3, StepShape
<1> QED
  BY InitInvariant, <1>1, PTL DEF Spec

\* The coroutines of a run keep the types of their state.
THEOREM TypeCorrect == Spec => []TypeOK
<1>1. IInv => TypeOK
  BY DEF IInv
<1> QED
  BY Inductive, <1>1, PTL

\* SearchCallBudget and EnrichmentCallBudget bound what the providers see,
\* whoever races for the last place and whatever is retried.
THEOREM VolumeIsBoundedHolds == Spec => []VolumeIsBounded
<1>1. ASSUME IInv PROVE VolumeIsBounded
  <2>1. TypeOK /\ CallsAreCounted /\ TicketsAreHeld
    BY <1>1 DEF IInv
  <2>2. ASSUME NEW p \in Prospect, NEW k \in Metered, NEW t \in 1..Cap[k], Holds(p, k, t)
        PROVE  InCall(p) /\ Kind(p) = k /\ call[p].ticket = t
    <3>1. ~InCall(p) => call[p].ticket = 0
      BY <2>1 DEF CallsAreCounted, NoCall
    <3> QED
      BY <2>2, <3>1 DEF Holds
  <2>3. ASSUME NEW k \in Metered, NEW t \in 1..Cap[k],
               NEW p \in Prospect, NEW q \in Prospect, Holds(p, k, t), Holds(q, k, t)
        PROVE  p = q
    BY <2>1, <2>2, <2>3 DEF TicketsAreHeld
  <2> QED
    BY <2>1, <2>3 DEF VolumeIsBounded, TicketsAreHeld
<1> QED
  BY Inductive, <1>1, PTL

\* Live providers are not asked for more than the caps allow, and the soft
\* budget is overrun by no more than one logical call of each running prospect.
THEOREM BudgetsHoldHolds == Spec => []BudgetsHold
<1>1. ASSUME IInv PROVE OverrunIsBounded
  <2>1. TypeOK /\ CallsAreCounted /\ LateIsOneCall /\ OverrunIsDue
    BY <1>1 DEF IInv
  <2>2. ASSUME NEW p \in Prospect PROVE call[p].made <= MaxAttempts(Kind(p))
    <3>1. MaxAttempts(Kind(p)) \in Nat
      BY <2>1, KindOf, ConstantTypes
    <3> QED
      BY <2>1, <3>1, AttemptsOfCall
  <2>3. spent < SoftLimit + MaxConcurrent * LateMax
    <3>1. spent \in Nat /\ SoftLimit \in Nat /\ Cardinality(Due) \in Nat
      BY <2>1, ConstantTypes, DueIsFinite DEF TypeOK
    <3>2. Tripped => spent + Cardinality(Due) < SoftLimit + MaxConcurrent * LateMax
      BY <2>1 DEF OverrunIsDue, LateMax
    <3> QED
      BY <3>1, <3>2, RoomIsPositive DEF Tripped
  <2> QED
    BY <2>1, <2>2, <2>3 DEF OverrunIsBounded, LateIsOneCall, LateMax
<1> QED
  BY Inductive, VolumeIsBoundedHolds, <1>1, PTL DEF BudgetsHold

\* Wherever wait_for cancels a step, the semaphore of its provider gets back
\* the permit of the attempt in flight, once.
THEOREM PermitsAreKeptHolds == Spec => []PermitsAreKept
<1>1. IInv => PermitsAreKept
  BY DEF IInv
<1> QED
  BY Inductive, <1>1, PTL
=============================================================================
