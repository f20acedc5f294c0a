----------------------- MODULE ContactChannelsProofs -----------------------
(***************************************************************************)
(* Proofs about ContactChannels, for any prospects, addresses, observations *)
(* and number of retries: types, the last known good row, and restrictions  *)
(* that stay in force.                                                      *)
(***************************************************************************)
EXTENDS ContactChannels, TLAPS

\* What an observation derives has the type of a row (contact_identity.py:324-375).
LEMMA DerivedTypes ==
    ASSUME NEW o \in ObservationType
    PROVE  DeriveEmail(o) \in EmailType /\ DeriveLinkedIn(o) \in LinkedInType
<1>1. DeriveEmail(o) \in EmailType
  BY DEF ObservationType, DeriveEmail, EmailType
<1>2. CombineIdentity(o.person, o.company)
        \in {"UNKNOWN", "WEAK_MATCH", "STRONG_MATCH", "MISMATCH"}
  BY DEF CombineIdentity
<1>3. DeriveLinkedIn(o) \in LinkedInType
  BY <1>2 DEF ObservationType, DeriveLinkedIn, LinkedInType
<1>4. QED
  BY <1>1, <1>3

\* A failed call keeps the type of a row (contact_enrichment.py:451-497).
LEMMA AfterFailureTypes ==
    /\ \A row \in EmailType : AfterFailure(row) \in EmailType
    /\ \A row \in LinkedInType : AfterFailure(row) \in LinkedInType
BY DEF AfterFailure, EmailType, LinkedInType

\* A failed call keeps what the last observation said (contact_enrichment.py:451-497).
LEMMA AfterFailureReflects ==
    ASSUME NEW row, NEW derived, NEW found \in BOOLEAN,
           row \in EmailType \/ row \in LinkedInType,
           Reflects(row, derived, found), derived.discovery # "NONE"
    PROVE  Reflects(AfterFailure(row), derived, found)
BY DEF AfterFailure, Reflects, EmailType, LinkedInType

-----------------------------------------------------------------------------

LEMMA InitInvariant == Init => IInv
<1> SUFFICES ASSUME Init PROVE IInv
  OBVIOUS
<1>1. Blank \in ObservationType /\ NoEmail \in EmailType /\ NoLinkedIn \in LinkedInType
  BY DEF Blank, NoEmail, NoLinkedIn, ObservationType, EmailType, LinkedInType,
         PersonMatch, CompanyMatch
<1>2. TypeOK
  BY <1>1, RetryAssumption DEF Init, TypeOK, Calling
<1>3. LastKnownGood
  BY DEF Init, LastKnownGood, Reflects, Blank, NoEmail, NoLinkedIn
<1>4. RestrictionHeld
  BY DEF Init, RestrictionHeld
<1>5. QED
  BY <1>2, <1>3, <1>4 DEF IInv

\* A retry stays within the attempts of the step (step.py:72-90).
LEMMA RetryTypes ==
    ASSUME TypeOK, NEW p \in Prospect, NEW retryable \in BOOLEAN, RetryOrDegrade(p, retryable)
    PROVE  /\ pc' = [pc EXCEPT ![p] = "call"] \/ pc' = [pc EXCEPT ![p] = "review"]
           /\ pc' \in [Prospect -> Calling \union {"review", "done"}]
           /\ attempt' \in [Prospect -> 1 .. MaxRetries + 1]
<1>1. CASE retryable /\ attempt[p] <= MaxRetries
  <2>1. attempt \in [Prospect -> 1 .. MaxRetries + 1] /\ attempt[p] + 1 \in 1 .. MaxRetries + 1
    BY <1>1, RetryAssumption DEF TypeOK
  <2>2. pc' = [pc EXCEPT ![p] = "call"] /\ attempt' = [attempt EXCEPT ![p] = @ + 1]
    BY <1>1 DEF RetryOrDegrade, Goto
  <2>3. QED
    BY <2>1, <2>2 DEF TypeOK, Calling
<1>2. CASE ~(retryable /\ attempt[p] <= MaxRetries)
  BY <1>2 DEF TypeOK, RetryOrDegrade, Goto, Calling
<1>3. QED
  BY <1>1, <1>2

LEMMA TypesPreserved == IInv /\ [Next]_vars => TypeOK'
<1> SUFFICES ASSUME IInv, [Next]_vars PROVE TypeOK'
  OBVIOUS
<1> USE DEF IInv
<1>1. CASE UNCHANGED vars
  BY <1>1 DEF TypeOK, vars, stepVars, rowVars, history
<1>2. ASSUME NEW p \in Prospect, Step(p) PROVE TypeOK'
  <2>1. CASE NotAttempted(p)
    BY <2>1 DEF TypeOK, NotAttempted, Goto, Calling, rowVars, history
  <2>2. ASSUME NEW o \in Observation, ProviderObserves(p, o) PROVE TypeOK'
    BY <2>2, ObservationAssumption DEF TypeOK, ProviderObserves, Goto, Calling, rowVars, history
  <2>3. CASE ProviderFails(p) \/ ProviderRestricts(p)
    BY <2>3 DEF TypeOK, ProviderFails, ProviderRestricts, ProviderRaises, Goto, Calling,
                rowVars, history
  <2>4. CASE TimeOut(p)
    BY <2>4, RetryTypes DEF TypeOK, TimeOut, rowVars, history
  <2>5. CASE RecordRaises(p)
    BY <2>5 DEF TypeOK, RecordRaises, Goto, Calling, rowVars, history
  <2>6. CASE Deliver(p)
    <3>1. /\ pc' \in [Prospect -> Calling \union {"review", "done"}]
          /\ attempt' \in [Prospect -> 1 .. MaxRetries + 1]
      <4>1. CASE error[p] = "NONE"
        BY <2>6, <4>1 DEF TypeOK, Deliver, Goto, Calling
      <4>2. CASE error[p] # "NONE"
        <5>1. RetryOrDegrade(p, error[p] = "TRANSIENT")
          BY <2>6, <4>2 DEF Deliver
        <5>2. (error[p] = "TRANSIENT") \in BOOLEAN
          OBVIOUS
        <5>3. QED
          BY <5>1, <5>2, RetryTypes
      <4>3. QED
        BY <4>1, <4>2
    <3>2. context' \in [Prospect -> [email : EmailType, linkedin : LinkedInType]]
      BY <2>6 DEF TypeOK, Deliver
    <3>3. QED
      BY <2>6, <3>1, <3>2 DEF TypeOK, Deliver, rowVars, history
  <2>7. CASE RecordSuccess(p)
    <3>1. /\ AfterSuccess(email[p], DeriveEmail(observation[p])) \in EmailType
          /\ AfterSuccess(linkedin[p], DeriveLinkedIn(observation[p])) \in LinkedInType
      BY DerivedTypes DEF TypeOK, AfterSuccess
    <3>2. email' \in [Prospect -> EmailType] /\ linkedin' \in [Prospect -> LinkedInType]
      BY <2>7, <3>1 DEF TypeOK, RecordSuccess
    <3>3. known' \in [Prospect -> [email : ObservationType, linkedin : ObservationType]]
      <4> DEFINE o == observation[p]
                 k == [known[p] EXCEPT !.email = IF o.address # Nil THEN o ELSE @,
                                       !.linkedin = IF o.profile # Nil THEN o ELSE @]
      <4>1. o \in ObservationType
            /\ known[p] \in [email : ObservationType, linkedin : ObservationType]
        BY DEF TypeOK
      <4>2. k \in [email : ObservationType, linkedin : ObservationType]
        BY <4>1
      <4>3. known' = [known EXCEPT ![p] = k]
        BY <2>7, <4>1 DEF TypeOK, RecordSuccess
      <4>4. QED
        BY <4>2, <4>3 DEF TypeOK
    <3>4. QED
      BY <2>7, <3>2, <3>3 DEF TypeOK, RecordSuccess, Goto, Calling
  <2>8. CASE RecordFailure(p)
    <3>1. email' \in [Prospect -> EmailType] /\ linkedin' \in [Prospect -> LinkedInType]
      BY <2>8, AfterFailureTypes DEF TypeOK, RecordFailure
    <3>2. QED
      BY <2>8, <3>1 DEF TypeOK, RecordFailure, Goto, Calling, history
  <2>9. CASE CheckSuppression(p)
    BY <2>9 DEF TypeOK, CheckSuppression, Goto, Calling, rowVars, history
  <2>10. CASE RecordRestriction(p)
    <3>1. email[p].identifier \in Address \union {Nil}
      BY DEF TypeOK, EmailType
    <3>2. linkedin' \in [Prospect -> LinkedInType]
      BY <2>10, AfterFailureTypes DEF TypeOK, RecordRestriction
    <3>3. QED
      BY <2>10, <3>1, <3>2 DEF TypeOK, RecordRestriction, Goto, Calling
  <2>11. CASE RestrictionCollides(p)
    <3>1. email[p].identifier \in Address \union {Nil}
      BY DEF TypeOK, EmailType
    <3>2. QED
      BY <2>11, <3>1 DEF TypeOK, RestrictionCollides, Goto, Calling, rowVars
  <2>12. ASSUME NEW v \in {"PASS", "FAIL"}, ReviewProspect(p, v) PROVE TypeOK'
    BY <2>12 DEF TypeOK, ReviewProspect, Goto, Calling, rowVars, history
  <2>13. QED
    BY <1>2, <2>1, <2>2, <2>3, <2>4, <2>5, <2>6, <2>7, <2>8, <2>9, <2>10, <2>11, <2>12 DEF Step
<1>3. QED
  BY <1>1, <1>2 DEF Next

LEMMA LastKnownGoodPreserved == IInv /\ [Next]_vars => LastKnownGood'
<1> SUFFICES ASSUME IInv, [Next]_vars PROVE LastKnownGood'
  OBVIOUS
<1> USE DEF IInv
<1>1. CASE UNCHANGED <<email, linkedin, known>>
  BY <1>1 DEF LastKnownGood, Reflects
<1>2. ASSUME NEW p \in Prospect, RecordSuccess(p) PROVE LastKnownGood'
  <2> DEFINE o == observation[p]
  <2>1. o \in ObservationType /\ email[p] \in EmailType /\ linkedin[p] \in LinkedInType
    BY DEF TypeOK
  <2>2. ASSUME NEW q \in Prospect, q # p
        PROVE  email'[q] = email[q] /\ linkedin'[q] = linkedin[q] /\ known'[q] = known[q]
    BY <1>2, <2>2 DEF RecordSuccess, TypeOK
  <2>3. /\ email'[p] = AfterSuccess(email[p], DeriveEmail(o))
        /\ linkedin'[p] = AfterSuccess(linkedin[p], DeriveLinkedIn(o))
        /\ known'[p].email = IF o.address # Nil THEN o ELSE known[p].email
        /\ known'[p].linkedin = IF o.profile # Nil THEN o ELSE known[p].linkedin
    BY <1>2 DEF RecordSuccess, TypeOK
  <2>4. Reflects(email[p], DeriveEmail(known[p].email), known[p].email.address # Nil)
    BY DEF LastKnownGood
  <2>5. Reflects(email'[p], DeriveEmail(known'[p].email), known'[p].email.address # Nil)
    BY <2>1, <2>3, <2>4 DEF Reflects, AfterSuccess, DeriveEmail, ObservationType
  <2>6. Reflects(linkedin[p], DeriveLinkedIn(known[p].linkedin), known[p].linkedin.profile # Nil)
    BY DEF LastKnownGood
  <2>7. Reflects(linkedin'[p], DeriveLinkedIn(known'[p].linkedin), known'[p].linkedin.profile # Nil)
    <3>1. CASE o.profile # Nil
      BY <3>1, <2>3 DEF Reflects, AfterSuccess, DeriveLinkedIn
    <3>2. CASE o.profile = Nil
      <4>1. DeriveLinkedIn(o).identifier = Nil /\ DeriveLinkedIn(o).discovery = "NOT_FOUND"
        BY <3>2, NilAssumption DEF DeriveLinkedIn, Profile
      <4>2. known'[p].linkedin = known[p].linkedin
        BY <3>2, <2>3
      <4>3. QED
        BY <4>1, <4>2, <2>3, <2>6 DEF Reflects, AfterSuccess, DeriveLinkedIn
    <3>3. QED
      BY <3>1, <3>2
  <2>8. QED
    BY <2>2, <2>5, <2>7 DEF LastKnownGood
<1>3. ASSUME NEW p \in Prospect, RecordFailure(p) \/ RecordRestriction(p) PROVE LastKnownGood'
  <2>1. known' = known
    BY <1>3 DEF RecordFailure, RecordRestriction, history
  <2>2. ASSUME NEW q \in Prospect
        PROVE  /\ email'[q] \in {email[q], AfterFailure(email[q])}
               /\ linkedin'[q] \in {linkedin[q], AfterFailure(linkedin[q])}
    BY <1>3 DEF RecordFailure, RecordRestriction, TypeOK
  <2>3. ASSUME NEW q \in Prospect
        PROVE  /\ Reflects(email'[q], DeriveEmail(known[q].email), known[q].email.address # Nil)
               /\ Reflects(linkedin'[q], DeriveLinkedIn(known[q].linkedin),
                           known[q].linkedin.profile # Nil)
    <3>1. email[q] \in EmailType /\ linkedin[q] \in LinkedInType
      BY DEF TypeOK
    <3>2. /\ Reflects(email[q], DeriveEmail(known[q].email), known[q].email.address # Nil)
          /\ Reflects(linkedin[q], DeriveLinkedIn(known[q].linkedin), known[q].linkedin.profile # Nil)
      BY DEF LastKnownGood
    <3>3. /\ DeriveEmail(known[q].email).discovery # "NONE"
          /\ DeriveLinkedIn(known[q].linkedin).discovery # "NONE"
      BY DEF DeriveEmail, DeriveLinkedIn
    <3>4. /\ Reflects(AfterFailure(email[q]), DeriveEmail(known[q].email), known[q].email.address # Nil)
          /\ Reflects(AfterFailure(linkedin[q]), DeriveLinkedIn(known[q].linkedin),
                      known[q].linkedin.profile # Nil)
      BY <3>1, <3>2, <3>3, AfterFailureReflects
    <3>5. QED
      BY <2>2, <3>2, <3>4
  <2>4. QED
    BY <2>1, <2>3 DEF LastKnownGood
<1>4. QED
  BY <1>1, <1>2, <1>3 DEF Next, Step, vars, stepVars, rowVars, history, NotAttempted,
     ProviderObserves, ProviderFails, ProviderRestricts, ProviderRaises, TimeOut, RecordRaises,
     Deliver, CheckSuppression, RestrictionCollides, ReviewProspect

LEMMA RestrictionHeldPreserved == IInv /\ [Next]_vars => RestrictionHeld'
<1> SUFFICES ASSUME IInv, [Next]_vars PROVE RestrictionHeld'
  OBVIOUS
<1> USE DEF IInv
<1>1. CASE UNCHANGED vars
  BY <1>1 DEF RestrictionHeld, vars, stepVars, rowVars, history
<1>2. ASSUME NEW p \in Prospect, Step(p) PROVE RestrictionHeld'
  <2>1. ASSUME suppressed' = suppressed, barred' = barred, restrictions' = restrictions,
               pc[p] = "done" => UNCHANGED <<pc, email>>,
               pc[p] = "review" => email' = email /\ pc'[p] \in {"review", "done"},
               \A q \in Prospect \ {p} : pc'[q] = pc[q] /\ email'[q] = email[q]
        PROVE  RestrictionHeld'
    <3> SUFFICES ASSUME NEW r \in restrictions
                 PROVE  /\ r[2] # Nil => r[2] \in barred
                        /\ \/ r[1] \in suppressed
                           \/ /\ pc'[r[1]] \in {"review", "done"}
                              /\ email'[r[1]].identifier = r[2]
                              /\ r[2] # Nil
      BY <2>1 DEF RestrictionHeld
    <3>1. r[1] \in Prospect
      BY DEF TypeOK
    <3>2. QED
      BY <2>1, <3>1 DEF RestrictionHeld
  <2>2. CASE NotAttempted(p)
    BY <2>1, <2>2 DEF NotAttempted, Goto, TypeOK, rowVars, history
  <2>3. ASSUME NEW o \in Observation, ProviderObserves(p, o) PROVE RestrictionHeld'
    BY <2>1, <2>3 DEF ProviderObserves, Goto, TypeOK, rowVars, history
  <2>4. CASE ProviderFails(p) \/ ProviderRestricts(p)
    BY <2>1, <2>4 DEF ProviderFails, ProviderRestricts, ProviderRaises, Goto, TypeOK,
                      rowVars, history
  <2>5. CASE TimeOut(p)
    <3>1. pc' = [pc EXCEPT ![p] = "call"] \/ pc' = [pc EXCEPT ![p] = "review"]
      BY <2>5, RetryTypes DEF TimeOut
    <3>2. QED
      BY <2>1, <2>5, <3>1 DEF TimeOut, TypeOK, rowVars, history
  <2>6. CASE RecordRaises(p)
    BY <2>1, <2>6 DEF RecordRaises, Goto, TypeOK, rowVars, history
  <2>7. CASE Deliver(p)
    <3>1. pc' = [pc EXCEPT ![p] = "call"] \/ pc' = [pc EXCEPT ![p] = "review"]
      BY <2>7, RetryTypes DEF Deliver, Goto
    <3>2. QED
      BY <2>1, <2>7, <3>1 DEF Deliver, TypeOK, rowVars, history
  <2>8. CASE RecordSuccess(p)
    BY <2>1, <2>8 DEF RecordSuccess, Goto, TypeOK
  <2>9. CASE RecordFailure(p)
    BY <2>1, <2>9 DEF RecordFailure, Goto, TypeOK, history
  <2>10. CASE CheckSuppression(p)
    BY <2>1, <2>10 DEF CheckSuppression, Goto, TypeOK, rowVars, history
  <2>11. CASE RecordRestriction(p)
    <3> SUFFICES ASSUME NEW r \in restrictions'
                 PROVE  /\ r[2] # Nil => r[2] \in barred'
                        /\ \/ r[1] \in suppressed'
                           \/ /\ pc'[r[1]] \in {"review", "done"}
                              /\ email'[r[1]].identifier = r[2]
                              /\ r[2] # Nil
      BY DEF RestrictionHeld
    <3>1. CASE r = <<p, email[p].identifier>>
      BY <2>11, <3>1 DEF RecordRestriction
    <3>2. CASE r \in restrictions
      <4>1. r[1] \in Prospect
        BY <3>2 DEF TypeOK
      <4>2. CASE r[1] = p
        BY <2>11, <3>2, <4>2 DEF RecordRestriction, RestrictionHeld
      <4>3. CASE r[1] # p
        BY <2>11, <3>2, <4>1, <4>3 DEF RecordRestriction, RestrictionHeld, Goto, TypeOK
      <4>4. QED
        BY <4>2, <4>3
    <3>3. QED
      BY <2>11, <3>1, <3>2 DEF RecordRestriction
  <2>12. CASE RestrictionCollides(p)
    <3> SUFFICES ASSUME NEW r \in restrictions'
                 PROVE  /\ r[2] # Nil => r[2] \in barred'
                        /\ \/ r[1] \in suppressed'
                           \/ /\ pc'[r[1]] \in {"review", "done"}
                              /\ email'[r[1]].identifier = r[2]
                              /\ r[2] # Nil
      BY DEF RestrictionHeld
    <3>1. CASE r = <<p, email[p].identifier>>
      <4>1. email[p].identifier \in barred /\ barred \subseteq Address
        BY <2>12 DEF RestrictionCollides, Collides, TypeOK
      <4>2. pc'[p] = "review"
        BY <2>12 DEF RestrictionCollides, Goto, TypeOK
      <4>3. QED
        BY <2>12, <3>1, <4>1, <4>2, NilAssumption DEF RestrictionCollides, rowVars
    <3>2. CASE r \in restrictions
      <4>1. r[1] \in Prospect
        BY <3>2 DEF TypeOK
      <4>2. CASE r[1] = p
        BY <2>12, <3>2, <4>2 DEF RestrictionCollides, RestrictionHeld, rowVars
      <4>3. CASE r[1] # p
        BY <2>12, <3>2, <4>1, <4>3 DEF RestrictionCollides, RestrictionHeld, Goto, TypeOK, rowVars
      <4>4. QED
        BY <4>2, <4>3
    <3>3. QED
      BY <2>12, <3>1, <3>2 DEF RestrictionCollides
  <2>13. ASSUME NEW v \in {"PASS", "FAIL"}, ReviewProspect(p, v) PROVE RestrictionHeld'
    BY <2>1, <2>13 DEF ReviewProspect, Goto, TypeOK, rowVars, history
  <2>14. QED
    BY <1>2, <2>2, <2>3, <2>4, <2>5, <2>6, <2>7, <2>8, <2>9, <2>10, <2>11, <2>12, <2>13 DEF Step
<1>3. QED
  BY <1>1, <1>2 DEF Next

-----------------------------------------------------------------------------

\* The inductive invariant holds in every state of the step and its transactions
\* (engine/enrichment.py:35-101, contact_enrichment.py:103-497).
THEOREM Inductive == Spec => []IInv
<1>1. IInv /\ [Next]_vars => IInv'
  BY TypesPreserved, LastKnownGoodPreserved, RestrictionHeldPreserved DEF IInv
<1>2. QED
  BY InitInvariant, <1>1, PTL DEF Spec

\* The variables keep their types, and no step is attempted more often than its
\* budget allows (step.py:72-73).
THEOREM TypeCorrect == Spec => []TypeOK
<1>1. IInv => TypeOK
  BY DEF IInv
<1>2. QED
  BY <1>1, Inductive, PTL

\* No sequence of failed, empty, restricted or cut-off calls loses or mixes what
\* was last found (contact_enrichment.py:10-34).
THEOREM LastKnownGoodHolds == Spec => []LastKnownGood
<1>1. IInv => LastKnownGood
  BY DEF IInv
<1>2. QED
  BY <1>1, Inductive, PTL

\* A restriction that took effect bars its prospect and its address for good
\* (contact_enrichment.py:259-274, action_policy.py:306-318).
THEOREM RestrictionBarsHolds == Spec => []RestrictionBars
<1>1. ASSUME IInv, NEW r \in restrictions
      PROVE  /\ ~Sendable(r[1])
             /\ \A p \in Prospect : r[2] # Nil /\ email[p].identifier = r[2] => ~Sendable(p)
  BY <1>1 DEF IInv, RestrictionHeld, Sendable, Suppressed
<1>2. IInv => RestrictionBars
  BY <1>1 DEF RestrictionBars
<1>3. QED
  BY <1>2, Inductive, PTL
=============================================================================
