--------------------------- MODULE LiveSendProofs ---------------------------
(***************************************************************************)
(* Proofs about LiveSend, for every set of proposals, recipients and        *)
(* requests and every value of the timing and attempt settings.             *)
(***************************************************************************)
EXTENDS LiveSend, TLAPS

\* The labels and statuses, expanded together wherever a step compares them.
USE DEF BeforeClaim, Dispatching, Ended, Status, Blocking, Shipped

LEMMA InitIInv == Init => IInv
BY MappingAssumption DEF Init, IInv, TypeOK, HandlerMatchesRow, HandlerMatchesWire, StepsInOrder,
   OneVerdict, OneHolder, DispatchIsOrdered, OnWire, Decision, SendOutcome

\* Every operator call that leaves the rows alone, and the clock.
LEMMA DecideStep ==
    ASSUME NEW p \in Proposal, Approve(p) \/ Reject(p), IInv
    PROVE  IInv'
<1>1. /\ decision' \in [Proposal -> Decision]
      /\ decisionNo' \in [Proposal -> Nat]
  BY DEF Approve, Reject, Decide, IInv, TypeOK, Decision
<1>2. UNCHANGED <<callVars, rowVars, lookups, gmailVars>>
  BY DEF Approve, Reject, Decide
<1> QED
  BY <1>1, <1>2 DEF IInv, TypeOK, HandlerMatchesRow, HandlerMatchesWire, StepsInOrder,
     OneVerdict, OneHolder, DispatchIsOrdered, OnWire, Rcpt, callVars, rowVars, gmailVars

\* A handler's step that inserts no row and writes none.
LEMMA GateStep ==
    ASSUME NEW r \in Request, IInv,
           \/ ReadApproval(r) \/ EvaluatePolicy(r) \/ LookupExecution(r) \/ LoseInsert(r)
           \/ SendNeverLeft(r) \/ SendAnswered(r) \/ SendUnclear(r) \/ Die(r)
    PROVE  IInv'
<1>1. UNCHANGED <<approvalVars, rowVars, lookups, gmailVars>>
  BY DEF ReadApproval, EvaluatePolicy, LookupExecution, LoseInsert, SendNeverLeft,
     SendAnswered, SendUnclear, Die
<1>2. TypeOK'
  <2>1. pc' \in [Request -> BeforeClaim \union Dispatching \union Ended]
    BY DEF IInv, TypeOK, ReadApproval, EvaluatePolicy, LookupExecution, LoseInsert,
       SendNeverLeft, SendAnswered, SendUnclear, Die, Goto, Classify
  <2>2. approvalNo' \in [Request -> Nat]
    BY MappingAssumption DEF IInv, TypeOK, ReadApproval, EvaluatePolicy, LookupExecution,
       LoseInsert, SendNeverLeft, SendAnswered, SendUnclear, Die
  <2>3. outcome' \in [Request -> SendOutcome \union {"NONE"}]
    BY DEF IInv, TypeOK, SendOutcome, ReadApproval, EvaluatePolicy, LookupExecution,
       LoseInsert, SendNeverLeft, SendAnswered, SendUnclear, Die, Classify
  <2> QED
    BY <1>1, <2>1, <2>2, <2>3 DEF IInv, TypeOK, approvalVars, rowVars, gmailVars
<1>3. HandlerMatchesRow'
  BY <1>1 DEF IInv, TypeOK, HandlerMatchesRow, ReadApproval, EvaluatePolicy,
     LookupExecution, LoseInsert, SendNeverLeft, SendAnswered, SendUnclear, Die, Goto,
     Classify, rowVars
<1>4. HandlerMatchesWire'
  BY <1>1 DEF IInv, TypeOK, HandlerMatchesWire, OneVerdict, OnWire, StatusForOutcome,
     ReadApproval, EvaluatePolicy, LookupExecution, LoseInsert, SendNeverLeft,
     SendAnswered, SendUnclear, Die, Goto, Classify, gmailVars
<1>5. StepsInOrder'
  BY <1>1 DEF IInv, TypeOK, StepsInOrder, ReadApproval, EvaluatePolicy, LookupExecution,
     LoseInsert, SendNeverLeft, SendAnswered, SendUnclear, Die, Goto, Classify, rowVars
<1> QED
  BY <1>1, <1>2, <1>3, <1>4, <1>5
     DEF IInv, OneVerdict, OneHolder, DispatchIsOrdered, OnWire, rowVars, gmailVars

\* The claim: the two unique constraints keep one holder per recipient.
LEMMA ClaimStep ==
    ASSUME NEW r \in Request, IInv, InsertClaimed(r)
    PROVE  IInv'
<1>1. TypeOK'
  BY DEF IInv, TypeOK, InsertClaimed, Goto, approvalVars, gmailVars
<1>2. status[r] = "NONE" /\ r \notin OnWire \union refused
  BY DEF IInv, InsertClaimed, HandlerMatchesRow, StepsInOrder, DispatchIsOrdered
<1>3. OneHolder'
  BY DEF IInv, TypeOK, OneHolder, InsertClaimed, RecipientTaken, Rcpt
<1>4. HandlerMatchesRow' /\ StepsInOrder'
  BY <1>2 DEF IInv, TypeOK, HandlerMatchesRow, StepsInOrder, InsertClaimed, Goto
<1>5. HandlerMatchesWire'
  BY <1>2 DEF IInv, TypeOK, HandlerMatchesWire, OnWire, InsertClaimed, Goto, gmailVars
<1> QED
  BY <1>1, <1>2, <1>3, <1>4, <1>5
     DEF IInv, TypeOK, OneVerdict, DispatchIsOrdered, OnWire, InsertClaimed, gmailVars

\* The write-ahead steps between the claim and the send.
LEMMA PrepareStep ==
    ASSUME NEW r \in Request, IInv, RecordCheckpoint(r) \/ ReserveGranted(r)
    PROVE  IInv'
<1>1. TypeOK'
  BY DEF IInv, TypeOK, RecordCheckpoint, ReserveGranted, Goto, approvalVars, gmailVars
<1>2. UNCHANGED <<status, dispatched, settled, outcome, gmailVars>>
  BY DEF RecordCheckpoint, ReserveGranted
<1>3. HandlerMatchesRow' /\ StepsInOrder'
  BY <1>2 DEF IInv, TypeOK, HandlerMatchesRow, StepsInOrder, RecordCheckpoint,
     ReserveGranted, Goto
<1>4. HandlerMatchesWire'
  BY <1>2 DEF IInv, TypeOK, HandlerMatchesWire, OnWire, RecordCheckpoint, ReserveGranted,
     Goto, gmailVars
<1>5. DispatchIsOrdered'
  BY <1>2 DEF IInv, DispatchIsOrdered, OnWire, RecordCheckpoint, ReserveGranted, gmailVars
<1> QED
  BY <1>1, <1>2, <1>3, <1>4, <1>5 DEF IInv, OneVerdict, OneHolder, OnWire, gmailVars

\* CLAIMED -> IN_FLIGHT happens only to a row that recovery has not failed.
LEMMA InFlightStep ==
    ASSUME NEW r \in Request, IInv, TransitionToInFlight(r)
    PROVE  IInv'
<1>1. TypeOK'
  BY DEF IInv, TypeOK, TransitionToInFlight, Goto, approvalVars, gmailVars
<1>2. status[r] = "CLAIMED" => r \notin OnWire \union refused
  BY DEF IInv, StepsInOrder, DispatchIsOrdered, OnWire
<1>3. HandlerMatchesRow' /\ StepsInOrder'
  BY DEF IInv, TypeOK, HandlerMatchesRow, StepsInOrder, TransitionToInFlight, Goto
<1>4. HandlerMatchesWire'
  BY <1>2 DEF IInv, TypeOK, HandlerMatchesWire, OnWire, TransitionToInFlight, Goto, gmailVars
<1>5. OneHolder'
  BY DEF IInv, TypeOK, OneHolder, TransitionToInFlight, Rcpt
<1>6. DispatchIsOrdered' /\ \A e \in OnWire' : status'[e] \in Shipped
  BY DEF IInv, TypeOK, DispatchIsOrdered, OnWire, TransitionToInFlight, gmailVars
<1> QED
  BY <1>1, <1>3, <1>4, <1>5, <1>6 DEF IInv, OneVerdict, OnWire, TransitionToInFlight, gmailVars

LEMMA SendStep ==
    ASSUME NEW r \in Request, IInv, SendRequest(r)
    PROVE  IInv'
<1>1. TypeOK'
  BY DEF IInv, TypeOK, SendRequest, Goto, approvalVars, rowVars
<1>2. /\ r \notin OnWire \union refused
      /\ status[r] \in Shipped
      /\ r \in checkpointed /\ r \in reserved /\ r \in dispatched
  BY DEF IInv, SendRequest, HandlerMatchesRow, HandlerMatchesWire, StepsInOrder
<1>3. HandlerMatchesRow' /\ StepsInOrder'
  BY DEF IInv, TypeOK, HandlerMatchesRow, StepsInOrder, SendRequest, Goto, rowVars
<1>4. HandlerMatchesWire'
  BY <1>2 DEF IInv, TypeOK, HandlerMatchesWire, OnWire, SendRequest, Goto
<1> QED
  BY <1>1, <1>2, <1>3, <1>4
     DEF IInv, TypeOK, OneVerdict, OneHolder, DispatchIsOrdered, OnWire, SendRequest, rowVars

LEMMA GmailStep ==
    ASSUME NEW r \in Request, IInv, Gmail(r)
    PROVE  IInv'
<1>1. TypeOK'
  BY DEF IInv, TypeOK, Gmail, GmailAccepts, GmailRefuses, approvalVars, callVars, rowVars
<1>2. HandlerMatchesRow' /\ StepsInOrder' /\ OneHolder'
  BY DEF IInv, HandlerMatchesRow, StepsInOrder, OneHolder, Gmail, GmailAccepts, GmailRefuses,
     callVars, rowVars
<1>3. /\ OnWire' \subseteq OnWire
      /\ OnWire' \union refused' = OnWire \union refused
  BY DEF OnWire, Gmail, GmailAccepts, GmailRefuses
<1>4. HandlerMatchesWire'
  BY <1>3 DEF IInv, HandlerMatchesWire, Gmail, GmailAccepts, GmailRefuses, callVars
<1>5. OneVerdict'
  BY DEF IInv, OneVerdict, OnWire, Gmail, GmailAccepts, GmailRefuses
<1>6. DispatchIsOrdered' /\ \A e \in OnWire' : status'[e] \in Shipped
  BY <1>3 DEF IInv, DispatchIsOrdered, Gmail, GmailAccepts, GmailRefuses, rowVars
<1> QED
  BY <1>1, <1>2, <1>4, <1>5, <1>6 DEF IInv

\* What every writer of a settled status has to respect: FAILED only for a row
\* whose message is not on the wire, any other status only for a shipped row.
LEMMA SettleStep ==
    ASSUME NEW r \in Request, NEW s \in {"SUCCEEDED", "FAILED", "UNCERTAIN", "ABANDONED"},
           IInv, SettleAs(r, s),
           pc' = pc \/ Goto(r, "done"),
           UNCHANGED <<approvalVars, approvalNo, outcome, checkpointed, reserved, dispatched,
                       age, gmailVars>>,
           attempts' \in [Request -> Nat], lookups' \in [Request -> Nat],
           status[r] # "NONE",
           s = "FAILED" => r \notin OnWire /\ pc'[r] \notin {"send", "await", "settle"},
           s # "FAILED" => status[r] \in Shipped
    PROVE  IInv'
<1>1. TypeOK'
  BY DEF IInv, TypeOK, SettleAs, Goto, approvalVars, gmailVars
<1>2. HandlerMatchesRow'
  BY DEF IInv, TypeOK, HandlerMatchesRow, SettleAs, Goto
<1>3. StepsInOrder'
  BY DEF IInv, TypeOK, StepsInOrder, SettleAs, Goto
<1>4. HandlerMatchesWire'
  BY DEF IInv, TypeOK, HandlerMatchesWire, OnWire, Goto, gmailVars
<1>5. OneHolder'
  BY DEF IInv, TypeOK, OneHolder, SettleAs, Rcpt
<1>6. OneVerdict' /\ DispatchIsOrdered' /\ \A e \in OnWire' : status'[e] \in Shipped
  BY DEF IInv, TypeOK, OneVerdict, DispatchIsOrdered, OnWire, SettleAs, gmailVars
<1> QED
  BY <1>1, <1>2, <1>3, <1>4, <1>5, <1>6 DEF IInv

LEMMA FailUndispatchedStep ==
    ASSUME NEW r \in Request, IInv, FailUndispatched(r)
    PROVE  IInv'
<1>1. status[r] # "NONE" /\ r \notin OnWire
  BY DEF IInv, FailUndispatched, HandlerMatchesRow
<1>2. pc'[r] = "done"
  BY DEF IInv, TypeOK, FailUndispatched, Goto
<1> QED
  BY <1>1, <1>2, SettleStep DEF FailUndispatched, IInv, TypeOK

LEMMA SettleSendStep ==
    ASSUME NEW r \in Request, IInv, SettleSend(r)
    PROVE  IInv'
<1> DEFINE s == StatusForOutcome(outcome[r])
<1>1. status[r] \in Shipped
  BY DEF IInv, SettleSend, HandlerMatchesRow
<1>2. s = "FAILED" => r \notin OnWire
  BY DEF IInv, SettleSend, HandlerMatchesWire
<1>3. pc'[r] = "done"
  BY DEF IInv, TypeOK, SettleSend, Goto
<1>4. s \in {"SUCCEEDED", "FAILED", "UNCERTAIN", "ABANDONED"}
  BY DEF StatusForOutcome
<1>5. /\ SettleAs(r, s) /\ Goto(r, "done")
      /\ UNCHANGED <<approvalVars, approvalNo, outcome, checkpointed, reserved, dispatched,
                     age, gmailVars>>
      /\ attempts' \in [Request -> Nat] /\ lookups' \in [Request -> Nat]
  BY DEF SettleSend, IInv, TypeOK
<1> HIDE DEF s
<1> QED
  BY <1>1, <1>2, <1>3, <1>4, <1>5, SettleStep

\* Stale recovery: a CLAIMED row has shipped nothing, so it may be failed.
LEMMA RecoverStep ==
    ASSUME NEW e \in Request, IInv, RecoverExecution(e)
    PROVE  IInv'
<1> DEFINE s == IF status[e] = "CLAIMED" /\ ~Anomaly(e) THEN "FAILED" ELSE "UNCERTAIN"
<1>1. status[e] = "CLAIMED" => ~Anomaly(e)
  BY DEF IInv, StepsInOrder, Anomaly
<1>2. status[e] = "CLAIMED" => e \notin OnWire /\ pc[e] \notin {"send", "await", "settle"}
  BY DEF IInv, HandlerMatchesRow
<1>3. /\ SettleAs(e, s)
      /\ status[e] \in {"CLAIMED", "IN_FLIGHT"}
      /\ UNCHANGED <<approvalVars, callVars, checkpointed, reserved, dispatched,
                     age, gmailVars>>
      /\ attempts' \in [Request -> Nat] /\ lookups' \in [Request -> Nat]
  BY DEF RecoverExecution, IInv, TypeOK
<1>4. CASE status[e] = "CLAIMED"
  <2>1. SettleAs(e, "FAILED")
    BY <1>1, <1>3, <1>4
  <2> QED
    BY <1>2, <1>3, <1>4, <2>1, SettleStep DEF callVars
<1>5. CASE status[e] = "IN_FLIGHT"
  <2>1. SettleAs(e, "UNCERTAIN")
    BY <1>3, <1>5
  <2> QED
    BY <1>3, <1>5, <2>1, SettleStep DEF callVars
<1> QED
  BY <1>3, <1>4, <1>5

LEMMA ReconcileStep ==
    ASSUME NEW e \in Request, IInv, Reconcile(e)
    PROVE  IInv'
<1>1. CASE AbandonExpired(e)
  <2>1. /\ SettleAs(e, "ABANDONED")
        /\ status[e] = "UNCERTAIN"
        /\ UNCHANGED <<approvalVars, callVars, checkpointed, reserved, dispatched,
                       age, gmailVars>>
        /\ attempts' \in [Request -> Nat] /\ lookups' \in [Request -> Nat]
    BY <1>1 DEF AbandonExpired, Reconcilable, IInv, TypeOK
  <2> QED
    BY <2>1, SettleStep DEF callVars
<1>2. CASE LookupFound(e) /\ status[e] = "UNCERTAIN"
  <2>1. /\ SettleAs(e, "SUCCEEDED")
        /\ UNCHANGED <<approvalVars, callVars, checkpointed, reserved, dispatched,
                       age, gmailVars>>
        /\ attempts' \in [Request -> Nat] /\ lookups' \in [Request -> Nat]
    BY <1>2 DEF LookupFound, EndLookup, IInv, TypeOK
  <2> QED
    BY <1>2, <2>1, SettleStep DEF callVars
<1>3. CASE \/ StartLookup(e) \/ LookupMissed(e)
           \/ LookupFound(e) /\ status[e] # "UNCERTAIN"
  <2>1. UNCHANGED <<approvalVars, callVars, status, checkpointed, reserved, dispatched,
                    settled, age, gmailVars>>
    BY <1>3 DEF StartLookup, LookupMissed, LookupFound, EndLookup, rowVars
  <2>2. attempts' \in [Request -> Nat] /\ lookups' \in [Request -> Nat]
    BY <1>3 DEF StartLookup, LookupMissed, LookupFound, EndLookup, IInv, TypeOK, rowVars
  <2> QED
    BY <2>1, <2>2 DEF IInv, TypeOK, HandlerMatchesRow, HandlerMatchesWire, StepsInOrder,
       OneVerdict, OneHolder, DispatchIsOrdered, OnWire, Rcpt, approvalVars, callVars, gmailVars
<1> QED
  BY <1>1, <1>2, <1>3 DEF Reconcile

LEMMA TickStep == IInv /\ Tick => IInv'
<1> SUFFICES ASSUME IInv, Tick PROVE IInv'
  OBVIOUS
<1>1. age' \in [Request -> Nat]
  BY DEF Tick, IInv, TypeOK
<1> QED
  BY <1>1 DEF Tick, IInv, TypeOK, HandlerMatchesRow, HandlerMatchesWire, StepsInOrder,
     OneVerdict, OneHolder, DispatchIsOrdered, OnWire, Rcpt, approvalVars, callVars, gmailVars

-----------------------------------------------------------------------------
(* The theorems.                                                           *)

LEMMA NextIInv == IInv /\ [Next]_vars => IInv'
<1> SUFFICES ASSUME IInv, [Next]_vars PROVE IInv'
  OBVIOUS
<1>1. ASSUME NEW p \in Proposal, Approve(p) \/ Reject(p) PROVE IInv'
  BY <1>1, DecideStep
<1>2. ASSUME NEW r \in Request, Execute(r) PROVE IInv'
  BY <1>2, GateStep, ClaimStep, PrepareStep, FailUndispatchedStep, InFlightStep, SendStep,
     SettleSendStep DEF Execute
<1>3. ASSUME NEW r \in Request, Die(r) PROVE IInv'
  BY <1>3, GateStep
<1>4. ASSUME NEW r \in Request, Gmail(r) PROVE IInv'
  BY <1>4, GmailStep
<1>5. ASSUME NEW e \in Request, RecoverExecution(e) PROVE IInv'
  BY <1>5, RecoverStep
<1>6. ASSUME NEW e \in Request, Reconcile(e) PROVE IInv'
  BY <1>6, ReconcileStep
<1>7. CASE Tick
  BY <1>7, TickStep
<1>8. CASE UNCHANGED vars
  BY <1>8 DEF IInv, TypeOK, HandlerMatchesRow, HandlerMatchesWire, StepsInOrder, OneVerdict,
     OneHolder, DispatchIsOrdered, OnWire, Rcpt, vars, approvalVars, callVars, rowVars, gmailVars
<1> QED
  BY <1>1, <1>2, <1>3, <1>4, <1>5, <1>6, <1>7, <1>8 DEF Next

\* The invariant holds in every reachable state.
THEOREM Inductive == Spec => []IInv
<1>1. Init => IInv
  BY InitIInv
<1>2. IInv /\ [Next]_vars => IInv'
  BY NextIInv
<1> QED
  BY <1>1, <1>2, PTL DEF Spec

\* Type correctness.
THEOREM TypeCorrect == Spec => []TypeOK
<1>1. IInv => TypeOK
  BY DEF IInv
<1> QED
  BY <1>1, Inductive, PTL

\* No recipient is written to twice, for any number of proposals and calls.
THEOREM AtMostOneDeliveryHolds == Spec => []AtMostOneDelivery
<1>1. IInv => AtMostOneDelivery
  BY DEF IInv, TypeOK, OneHolder, AtMostOneDelivery, OnWire
<1> QED
  BY <1>1, Inductive, PTL

\* FAILED is only ever said of a message that cannot arrive.
THEOREM FailedIsUndeliveredHolds == Spec => []FailedIsUndelivered
<1>1. IInv => FailedIsUndelivered
  BY DEF IInv, FailedIsUndelivered
<1> QED
  BY <1>1, Inductive, PTL

\* Nothing reaches the wire before checkpoint, reservation and dispatched_at.
THEOREM DispatchIsOrderedHolds == Spec => []DispatchIsOrdered
<1>1. IInv => DispatchIsOrdered
  BY DEF IInv
<1> QED
  BY <1>1, Inductive, PTL

\* No UNCERTAIN row is beyond reconciliation, and the anomaly branch is dead code.
THEOREM RecoveryIsTotal == Spec => [](UncertainIsReconcilable /\ NoAnomaly)
<1>1. IInv => UncertainIsReconcilable /\ NoAnomaly
  BY DEF IInv, StepsInOrder, UncertainIsReconcilable, Reconcilable, NoAnomaly, Anomaly
<1> QED
  BY <1>1, Inductive, PTL

\* Every way a step can write a status or deliver a message.
LEMMA StatusStep ==
    ASSUME IInv, [Next]_vars
    PROVE  \/ UNCHANGED <<status, delivered>>
           \/ \E r \in Request : InsertClaimed(r) /\ status[r] = "NONE"
           \/ \E r \in Request : GmailAccepts(r)
           \/ \E r \in Request :
                /\ status[r] = "CLAIMED"
                /\ status' = [status EXCEPT ![r] = "IN_FLIGHT"]
                /\ UNCHANGED delivered
           \/ \E r \in Request, s \in Status \ {"CLAIMED"} :
                /\ SettleAs(r, s)
                /\ UNCHANGED delivered
                /\ status[r] # "NONE"
                /\ s = "FAILED" => r \notin OnWire
                /\ s # "FAILED" => status[r] \in Shipped
<1>1. ASSUME NEW r \in Request, InsertClaimed(r) PROVE status[r] = "NONE"
  BY <1>1 DEF InsertClaimed, IInv, HandlerMatchesRow
<1>2. ASSUME NEW r \in Request, FailUndispatched(r)
      PROVE  /\ SettleAs(r, "FAILED") /\ UNCHANGED delivered
             /\ status[r] # "NONE" /\ r \notin OnWire
  BY <1>2 DEF FailUndispatched, IInv, HandlerMatchesRow, gmailVars
<1>3. ASSUME NEW r \in Request, TransitionToInFlight(r)
      PROVE  \/ UNCHANGED <<status, delivered>>
             \/ /\ status[r] = "CLAIMED" /\ status' = [status EXCEPT ![r] = "IN_FLIGHT"]
                /\ UNCHANGED delivered
  BY <1>3 DEF TransitionToInFlight, gmailVars
<1>4. ASSUME NEW r \in Request, SettleSend(r)
      PROVE  \E s \in Status \ {"CLAIMED"} :
               /\ SettleAs(r, s) /\ UNCHANGED delivered
               /\ status[r] \in Shipped
               /\ s = "FAILED" => r \notin OnWire
  <2>1. StatusForOutcome(outcome[r]) \in Status \ {"CLAIMED"}
    BY DEF StatusForOutcome
  <2> QED
    BY <1>4, <2>1 DEF SettleSend, IInv, HandlerMatchesRow, HandlerMatchesWire, gmailVars
<1>5. ASSUME NEW r \in Request, RecoverExecution(r)
      PROVE  \E s \in {"FAILED", "UNCERTAIN"} :
               /\ SettleAs(r, s) /\ UNCHANGED delivered
               /\ status[r] # "NONE"
               /\ s = "FAILED" => r \notin OnWire
               /\ s # "FAILED" => status[r] \in Shipped
  BY <1>5 DEF RecoverExecution, Anomaly, IInv, StepsInOrder, gmailVars
<1>6. ASSUME NEW r \in Request, Reconcile(r)
      PROVE  \/ UNCHANGED <<status, delivered>>
             \/ \E s \in {"SUCCEEDED", "ABANDONED"} :
                  SettleAs(r, s) /\ UNCHANGED delivered /\ status[r] = "UNCERTAIN"
  BY <1>6 DEF Reconcile, AbandonExpired, StartLookup, LookupFound, LookupMissed, EndLookup,
     Reconcilable, rowVars, gmailVars
<1>7. ASSUME NEW r \in Request,
             \/ ReadApproval(r) \/ EvaluatePolicy(r) \/ LookupExecution(r) \/ LoseInsert(r)
             \/ RecordCheckpoint(r) \/ ReserveGranted(r) \/ SendNeverLeft(r)
             \/ SendRequest(r) \/ SendAnswered(r) \/ SendUnclear(r) \/ Die(r)
             \/ GmailRefuses(r)
      PROVE  UNCHANGED <<status, delivered>>
  BY <1>7 DEF ReadApproval, EvaluatePolicy, LookupExecution, LoseInsert, RecordCheckpoint,
     ReserveGranted, SendNeverLeft, SendRequest, SendAnswered, SendUnclear, Die,
     GmailRefuses, rowVars, gmailVars
<1>8. ASSUME \/ \E p \in Proposal : Approve(p) \/ Reject(p)
             \/ Tick \/ UNCHANGED vars
      PROVE  UNCHANGED <<status, delivered>>
  BY <1>8 DEF Approve, Reject, Decide, Tick, vars, rowVars, gmailVars
<1> QED
  BY <1>1, <1>2, <1>3, <1>4, <1>5, <1>6, <1>7, <1>8 DEF Next, Execute, Gmail

\* A freed recipient is never taken back by the row that freed it.
THEOREM FailedIsFinalHolds == Spec => FailedIsFinal
<1>1. IInv /\ [Next]_vars
        => [\A e \in Request : status[e] = "FAILED" => status'[e] = "FAILED"]_vars
  <2> SUFFICES ASSUME IInv, [Next]_vars, NEW e \in Request, status[e] = "FAILED"
               PROVE  status'[e] = "FAILED"
    OBVIOUS
  <2> QED
    BY StatusStep DEF InsertClaimed, GmailAccepts, SettleAs, IInv, TypeOK, rowVars
<1> QED
  BY <1>1, Inductive, PTL DEF Spec, FailedIsFinal

-----------------------------------------------------------------------------
(* The attempt cap.                                                        *)

\* StartLookup and EndLookup are the only writers of the two counters.
LEMMA CountersStep ==
    ASSUME TypeOK, [Next]_vars
    PROVE  \/ UNCHANGED <<attempts, lookups>>
           \/ \E e \in Request : StartLookup(e) \/ LookupFound(e) \/ LookupMissed(e)
<1>1. ASSUME NEW r \in Request, Execute(r) \/ Die(r) \/ Gmail(r)
      PROVE  UNCHANGED <<attempts, lookups>>
  <2>1. CASE \/ ReadApproval(r) \/ EvaluatePolicy(r) \/ LookupExecution(r)
             \/ InsertClaimed(r) \/ LoseInsert(r)
    BY <2>1 DEF ReadApproval, EvaluatePolicy, LookupExecution, InsertClaimed, LoseInsert, rowVars
  <2>2. CASE \/ RecordCheckpoint(r) \/ ReserveGranted(r) \/ FailUndispatched(r)
             \/ TransitionToInFlight(r)
    BY <2>2 DEF RecordCheckpoint, ReserveGranted, FailUndispatched, TransitionToInFlight
  <2>3. CASE \/ SendNeverLeft(r) \/ SendRequest(r) \/ SendAnswered(r) \/ SendUnclear(r)
             \/ SettleSend(r) \/ Die(r) \/ Gmail(r)
    BY <2>3 DEF SendNeverLeft, SendRequest, SendAnswered, SendUnclear, SettleSend, Die, Gmail,
       GmailAccepts, GmailRefuses, rowVars
  <2> QED
    BY <1>1, <2>1, <2>2, <2>3 DEF Execute
<1>2. ASSUME NEW e \in Request, RecoverExecution(e) \/ AbandonExpired(e)
      PROVE  UNCHANGED <<attempts, lookups>>
  BY <1>2 DEF RecoverExecution, AbandonExpired
<1>3. ASSUME \/ \E p \in Proposal : Approve(p) \/ Reject(p)
             \/ Tick \/ UNCHANGED vars
      PROVE  UNCHANGED <<attempts, lookups>>
  BY <1>3 DEF Approve, Reject, Decide, Tick, vars, rowVars
<1> QED
  BY <1>1, <1>2, <1>3 DEF Next, Reconcile

\* reconcile_execution reads reconcile_attempts before it awaits Gmail and
\* counts after the answer: calls that overlap overshoot the cap by no more
\* than their own number, whatever else happens to the row in between.
THEOREM AttemptsBoundedHolds == Spec => []AttemptsBounded
<1>1. Init => AttemptsBounded
  BY BoundAssumption DEF Init, AttemptsBounded
<1>2. TypeOK /\ AttemptsBounded /\ [Next]_vars => AttemptsBounded'
  <2> SUFFICES ASSUME TypeOK, AttemptsBounded, [Next]_vars, NEW f \in Request
               PROVE  attempts'[f] + lookups'[f] < MaxAttempts + MaxLookups
    BY DEF AttemptsBounded
  <2>1. attempts[f] + lookups[f] < MaxAttempts + MaxLookups
    BY DEF AttemptsBounded
  <2>2. CASE UNCHANGED <<attempts, lookups>>
    BY <2>1, <2>2
  <2>3. ASSUME NEW e \in Request, StartLookup(e)
        PROVE  attempts'[f] + lookups'[f] < MaxAttempts + MaxLookups
    BY <2>1, <2>3, BoundAssumption DEF TypeOK, StartLookup, rowVars
  <2>4. ASSUME NEW e \in Request, LookupFound(e) \/ LookupMissed(e)
        PROVE  attempts'[f] + lookups'[f] < MaxAttempts + MaxLookups
    BY <2>1, <2>4, BoundAssumption DEF TypeOK, LookupFound, LookupMissed, EndLookup
  <2> QED
    BY <2>2, <2>3, <2>4, CountersStep
<1> QED
  BY <1>1, <1>2, TypeCorrect, PTL DEF Spec

\* The send path implements the slot discipline of OutreachSlots.
THEOREM Refinement == Spec => ImplementsSlots
<1> DEFINE to == [r \in Request |-> Rcpt(r)]
           held == {r \in Request : status[r] \in Blocking}
<1>1. Init => Slots!SlotInit
  BY DEF Init, Slots!SlotInit
<1>2. IInv /\ [Next]_vars => [Slots!SlotNext]_(Slots!slotVars)
  <2> SUFFICES ASSUME IInv, [Next]_vars
               PROVE  Slots!SlotNext \/ UNCHANGED <<held, delivered>>
    BY DEF Slots!slotVars
  <2>1. CASE UNCHANGED <<status, delivered>>
    BY <2>1
  <2>2. ASSUME NEW r \in Request, InsertClaimed(r), status[r] = "NONE"
        PROVE  Slots!Acquire(r)
    <3>1. held' = held \union {r}
      BY <2>2 DEF InsertClaimed, IInv, TypeOK
    <3>2. \A h \in held : to[h] # to[r]
      BY <2>2 DEF InsertClaimed, RecipientTaken
    <3> QED
      BY <2>2, <3>1, <3>2 DEF Slots!Acquire, Slots!Free, InsertClaimed, gmailVars
  <2>3. ASSUME NEW r \in Request, GmailAccepts(r)
        PROVE  Slots!Deliver(r)
    <3>1. r \in held /\ r \notin delivered
      BY <2>3 DEF GmailAccepts, IInv, OnWire, OneVerdict
    <3> QED
      BY <2>3, <3>1 DEF Slots!Deliver, GmailAccepts, rowVars
  <2>4. ASSUME NEW r \in Request, status[r] = "CLAIMED",
               status' = [status EXCEPT ![r] = "IN_FLIGHT"], UNCHANGED delivered
        PROVE  UNCHANGED <<held, delivered>>
    BY <2>4 DEF IInv, TypeOK
  <2>5. ASSUME NEW r \in Request, NEW s \in Status \ {"CLAIMED"}, SettleAs(r, s),
               UNCHANGED delivered, status[r] # "NONE",
               s = "FAILED" => r \notin OnWire, s # "FAILED" => status[r] \in Shipped
        PROVE  Slots!Release(r) \/ UNCHANGED <<held, delivered>>
    <3>1. CASE s = "FAILED" /\ status[r] \in Blocking
      <4>1. held' = held \ {r}
        BY <2>5, <3>1 DEF SettleAs, IInv, TypeOK
      <4> QED
        BY <2>5, <3>1, <4>1 DEF Slots!Release, OnWire
    <3>2. CASE ~(s = "FAILED" /\ status[r] \in Blocking)
      BY <2>5, <3>2 DEF SettleAs, IInv, TypeOK
    <3> QED
      BY <3>1, <3>2
  <2> QED
    BY <2>1, <2>2, <2>3, <2>4, <2>5, StatusStep DEF Slots!SlotNext
<1> QED
  BY <1>1, <1>2, Inductive, PTL DEF Spec, ImplementsSlots, Slots!SlotSpec
==============================================================================
