------------------------------ MODULE LiveSend ------------------------------
(***************************************************************************)
(* Governed LIVE_EXTERNAL e-mail sending: POST /proposals/{id}/execute from *)
(* the approval gate to the settled execution row, together with everything *)
(* that may run between two of its awaits - other execute calls, an         *)
(* operator's approve and reject, stale recovery, reconciliation, the death *)
(* of the handler - and with Gmail, which may accept a message long after   *)
(* the handler has given up on it.                                          *)
(*                                                                          *)
(* One Request is one HTTP execute call.  A request inserts at most one     *)
(* execution row, under an id minted for it, so a row is named by the       *)
(* request that inserted it.  One step below is one database transaction or *)
(* one exchange with Gmail, the points at which the handler awaits.         *)
(***************************************************************************)
EXTENDS Naturals, FiniteSets

CONSTANTS
    Proposal,       \* action proposals whose policy verdict is ELIGIBLE
    Recipient,      \* recipient identity keys
    Request,        \* POST .../execute calls
    RecipientOf,    \* the recipient_identity_key of a proposal
    ProposalOf,     \* the proposal a request is about
    StaleLease,     \* execution_stale_lease_s
    Window,         \* reconcile_window_s
    MaxAttempts,    \* reconcile_max_attempts
    MaxLookups,     \* bound: reconcile calls on one row that overlap
    MaxDecisions    \* bound: approve/reject calls per proposal

ASSUME MappingAssumption ==
    /\ RecipientOf \in [Proposal -> Recipient]
    /\ ProposalOf \in [Request -> Proposal]

ASSUME BoundAssumption ==
    /\ StaleLease \in Nat
    /\ Window \in Nat
    /\ MaxAttempts \in Nat
    /\ MaxLookups \in Nat \ {0}
    /\ MaxDecisions \in Nat

VARIABLES
    decision,       \* the newest ACTION approval of a proposal, by decided_at
    decisionNo,     \* its id: the number of decisions taken so far
    pc,             \* what a request does next
    approvalNo,     \* the approval id a request read (0: none)
    status,         \* status of the row a request inserted ("NONE": no row)
    checkpointed,   \* rows with pre_dispatch_history_id
    reserved,       \* rows with a live_send_reservations row
    dispatched,     \* rows with dispatched_at
    settled,        \* rows with settled_at
    attempts,       \* reconcile_attempts of a row
    lookups,        \* reconcile calls on a row that await Gmail
    age,            \* time since claimed_at, once IN_FLIGHT since dispatched_at
    outcome,        \* the dispatcher's classification of its one send call
    inTransit,      \* messages written to the wire that Gmail has not judged
    refused,        \* messages Gmail answered with an error status
    delivered       \* messages Gmail accepted: they are in SENT

approvalVars == <<decision, decisionNo>>
rowVars == <<status, checkpointed, reserved, dispatched, settled, attempts, age>>
callVars == <<pc, approvalNo, outcome>>
gmailVars == <<inTransit, refused, delivered>>
vars == <<approvalVars, callVars, rowVars, lookups, gmailVars>>

-----------------------------------------------------------------------------
(* Statuses and helpers.                                                   *)

Decision == {"NONE", "APPROVED", "REJECTED"}
Status == {"CLAIMED", "IN_FLIGHT", "SUCCEEDED", "FAILED", "UNCERTAIN", "ABANDONED"}

\* The statuses the partial unique index and policy clause 12 count: all but FAILED.
Blocking == Status \ {"FAILED"}

Terminal == {"SUCCEEDED", "FAILED", "ABANDONED"}

SendOutcome ==
    {"ACCEPTED", "PROVEN_NOT_DISPATCHED", "DEFINITIVE_REJECTION", "ACCEPTANCE_UNKNOWN"}

\* Mutant: no answer counts as no delivery.
StatusForOutcomeOptimistic(o) == IF o = "ACCEPTED" THEN "SUCCEEDED" ELSE "FAILED"

StatusForOutcome(o) ==
    CASE o = "ACCEPTED" -> "SUCCEEDED"
      [] o \in {"PROVEN_NOT_DISPATCHED", "DEFINITIVE_REJECTION"} -> "FAILED"
      [] OTHER -> "UNCERTAIN"

BeforeClaim == {"approval", "policy", "lookup", "claim"}
Dispatching == {"checkpoint", "reserve", "flight", "send", "await", "settle"}
Ended == {"done", "assert_failed", "dead"}

Rcpt(r) == RecipientOf[ProposalOf[r]]

\* sha256(approval.id | content_hash): an approval fixes its content hash.
IdempotencyKey(r) == <<ProposalOf[r], approvalNo[r]>>
HasRow(r) == status[r] # "NONE"
KeyTaken(r) == \E q \in Request : HasRow(q) /\ IdempotencyKey(q) = IdempotencyKey(r)
RecipientTaken(r) == \E q \in Request : status[q] \in Blocking /\ Rcpt(q) = Rcpt(r)

\* Ages are exact up to the largest age any guard tells apart.
MaxAge == IF StaleLease + 1 > Window THEN StaleLease + 1 ELSE Window

Init ==
    /\ decision = [p \in Proposal |-> "NONE"]
    /\ decisionNo = [p \in Proposal |-> 0]
    /\ pc = [r \in Request |-> "approval"]
    /\ approvalNo = [r \in Request |-> 0]
    /\ status = [r \in Request |-> "NONE"]
    /\ checkpointed = {} /\ reserved = {} /\ dispatched = {} /\ settled = {}
    /\ attempts = [r \in Request |-> 0]
    /\ lookups = [r \in Request |-> 0]
    /\ age = [r \in Request |-> 0]
    /\ outcome = [r \in Request |-> "NONE"]
    /\ inTransit = {} /\ refused = {} /\ delivered = {}

Goto(r, label) == pc' = [pc EXCEPT ![r] = label]

-----------------------------------------------------------------------------
(* The operator's decisions.                                               *)

\* An approval row is appended; the newest one counts.  Rejecting is also
\* possible after an execution exists, and so is approving again.
Decide(p, d) ==
    /\ decisionNo[p] < MaxDecisions
    /\ decision' = [decision EXCEPT ![p] = d]
    /\ decisionNo' = [decisionNo EXCEPT ![p] = @ + 1]
    /\ UNCHANGED <<callVars, rowVars, lookups, gmailVars>>

Approve(p) == Decide(p, "APPROVED")
Reject(p) == Decide(p, "REJECTED")

-----------------------------------------------------------------------------
(* The gates of execute_action.                                            *)

ReadApproval(r) ==
    /\ pc[r] = "approval"
    /\ IF decision[ProposalOf[r]] = "APPROVED"
         THEN /\ approvalNo' = [approvalNo EXCEPT ![r] = decisionNo[ProposalOf[r]]]
              /\ Goto(r, "policy")
         ELSE /\ Goto(r, "done")
              /\ UNCHANGED approvalNo
    /\ UNCHANGED <<approvalVars, outcome, rowVars, lookups, gmailVars>>

\* Clause 12: a blocking row of ANOTHER proposal for the same recipient.
RecipientConflict(r) ==
    \E q \in Request :
        /\ status[q] \in Blocking
        /\ Rcpt(q) = Rcpt(r)
        /\ ProposalOf[q] # ProposalOf[r]

\* The fresh policy evaluation.  Every other clause reads state kept outside
\* this module and may block at any time.
EvaluatePolicy(r) ==
    /\ pc[r] = "policy"
    /\ \/ ~RecipientConflict(r) /\ Goto(r, "lookup")
       \/ Goto(r, "done")
    /\ UNCHANGED <<approvalVars, approvalNo, outcome, rowVars, lookups, gmailVars>>

\* An execution under the same key is returned as it is; a send provider that
\* cannot be built ends the request too.
LookupExecution(r) ==
    /\ pc[r] = "lookup"
    /\ \/ ~KeyTaken(r) /\ Goto(r, "claim")
       \/ Goto(r, "done")
    /\ UNCHANGED <<approvalVars, approvalNo, outcome, rowVars, lookups, gmailVars>>

-----------------------------------------------------------------------------
(* dispatch_live_email_send.                                               *)

\* Mutant: no partial unique index over the recipient.
InsertClaimedNoIndex(r) ==
    /\ pc[r] = "claim"
    /\ ~KeyTaken(r)
    /\ status' = [status EXCEPT ![r] = "CLAIMED"]
    /\ Goto(r, "checkpoint")
    /\ UNCHANGED <<approvalVars, approvalNo, outcome, checkpointed, reserved,
                   dispatched, settled, attempts, age, lookups, gmailVars>>

\* INSERT of the CLAIMED row: UNIQUE(idempotency_key) and the partial unique
\* index over blocking rows of one recipient decide.
InsertClaimed(r) ==
    /\ pc[r] = "claim"
    /\ ~KeyTaken(r)
    /\ ~RecipientTaken(r)
    /\ status' = [status EXCEPT ![r] = "CLAIMED"]
    /\ Goto(r, "checkpoint")
    /\ UNCHANGED <<approvalVars, approvalNo, outcome, checkpointed, reserved,
                   dispatched, settled, attempts, age, lookups, gmailVars>>

\* The INSERT fails.  The handler looks the existing row up by its key only,
\* and asserts that it is there.
LoseInsert(r) ==
    /\ pc[r] = "claim"
    /\ KeyTaken(r) \/ RecipientTaken(r)
    /\ Goto(r, IF KeyTaken(r) THEN "done" ELSE "assert_failed")
    /\ UNCHANGED <<approvalVars, approvalNo, outcome, rowVars, lookups, gmailVars>>

\* _settle reads the row and writes it back with no condition on its status.
SettleAs(r, newStatus) ==
    /\ status' = [status EXCEPT ![r] = newStatus]
    /\ settled' = settled \union {r}

\* Mutant: the checkpoint is taken but not persisted.
RecordCheckpointInMemory(r) ==
    /\ pc[r] = "checkpoint"
    /\ Goto(r, IF status[r] = "CLAIMED" THEN "reserve" ELSE "done")
    /\ UNCHANGED <<approvalVars, approvalNo, outcome, rowVars, lookups, gmailVars>>

RecordCheckpoint(r) ==
    /\ pc[r] = "checkpoint"
    /\ IF status[r] = "CLAIMED"
         THEN checkpointed' = checkpointed \union {r} /\ Goto(r, "reserve")
         ELSE Goto(r, "done") /\ UNCHANGED checkpointed
    /\ UNCHANGED <<approvalVars, approvalNo, outcome, status, reserved, dispatched,
                   settled, attempts, age, lookups, gmailVars>>

\* The reservation transaction (module SendAllowance) grants a slot.
ReserveGranted(r) ==
    /\ pc[r] = "reserve"
    /\ reserved' = reserved \union {r}
    /\ Goto(r, "flight")
    /\ UNCHANGED <<approvalVars, approvalNo, outcome, status, checkpointed, dispatched,
                   settled, attempts, age, lookups, gmailVars>>

\* No checkpoint from Gmail, or no allowance: settled FAILED before any send.
FailUndispatched(r) ==
    /\ pc[r] \in {"checkpoint", "reserve"}
    /\ SettleAs(r, "FAILED")
    /\ Goto(r, "done")
    /\ UNCHANGED <<approvalVars, approvalNo, outcome, checkpointed, reserved,
                   dispatched, attempts, age, lookups, gmailVars>>

\* The guarded CLAIMED -> IN_FLIGHT update, the last write before the call.
TransitionToInFlight(r) ==
    /\ pc[r] = "flight"
    /\ IF status[r] = "CLAIMED"
         THEN /\ status' = [status EXCEPT ![r] = "IN_FLIGHT"]
              /\ dispatched' = dispatched \union {r}
              /\ age' = [age EXCEPT ![r] = 0]
              /\ Goto(r, "send")
         ELSE Goto(r, "done") /\ UNCHANGED <<status, dispatched, age>>
    /\ UNCHANGED <<approvalVars, approvalNo, outcome, checkpointed, reserved, settled,
                   attempts, lookups, gmailVars>>

Classify(r, o) ==
    /\ outcome' = [outcome EXCEPT ![r] = o]
    /\ Goto(r, "settle")

\* Token refresh, MIME build or connect failed: nothing was written.
SendNeverLeft(r) ==
    /\ pc[r] = "send"
    /\ Classify(r, "PROVEN_NOT_DISPATCHED")
    /\ UNCHANGED <<approvalVars, approvalNo, rowVars, lookups, gmailVars>>

SendRequest(r) ==
    /\ pc[r] = "send"
    /\ inTransit' = inTransit \union {r}
    /\ Goto(r, "await")
    /\ UNCHANGED <<approvalVars, approvalNo, outcome, rowVars, lookups, refused, delivered>>

\* 200 with a Message.id, or one of 400, 401, 404.
SendAnswered(r) ==
    /\ pc[r] = "await"
    /\ \/ r \in delivered /\ Classify(r, "ACCEPTED")
       \/ r \in refused /\ Classify(r, "DEFINITIVE_REJECTION")
    /\ UNCHANGED <<approvalVars, approvalNo, rowVars, lookups, gmailVars>>

\* A timeout, a reset connection, a 200 without an id or any other status.
SendUnclear(r) ==
    /\ pc[r] = "await"
    /\ Classify(r, "ACCEPTANCE_UNKNOWN")
    /\ UNCHANGED <<approvalVars, approvalNo, rowVars, lookups, gmailVars>>

SettleSend(r) ==
    /\ pc[r] = "settle"
    /\ SettleAs(r, StatusForOutcome(outcome[r]))
    /\ Goto(r, "done")
    /\ UNCHANGED <<approvalVars, approvalNo, outcome, checkpointed, reserved, dispatched,
                   attempts, age, lookups, gmailVars>>

\* The process is killed, or an exception leaves the handler, at any await.
Die(r) ==
    /\ pc[r] \notin Ended
    /\ Goto(r, "dead")
    /\ UNCHANGED <<approvalVars, approvalNo, outcome, rowVars, lookups, gmailVars>>

-----------------------------------------------------------------------------
(* Gmail.                                                                  *)

\* Gmail judges a message on the wire, whether or not anyone still waits.
GmailAccepts(r) ==
    /\ r \in inTransit
    /\ inTransit' = inTransit \ {r}
    /\ delivered' = delivered \union {r}
    /\ UNCHANGED <<approvalVars, callVars, rowVars, lookups, refused>>

GmailRefuses(r) ==
    /\ r \in inTransit
    /\ inTransit' = inTransit \ {r}
    /\ refused' = refused \union {r}
    /\ UNCHANGED <<approvalVars, callVars, rowVars, lookups, delivered>>

-----------------------------------------------------------------------------
(* Stale recovery and reconciliation, one operator call each.              *)

\* A status that contradicts dispatched_at is settled UNCERTAIN, not trusted.
Anomaly(e) ==
    \/ status[e] = "CLAIMED" /\ e \in dispatched
    \/ status[e] = "IN_FLIGHT" /\ e \notin dispatched

RecoverExecution(e) ==
    /\ status[e] \in {"CLAIMED", "IN_FLIGHT"}
    /\ age[e] > StaleLease
    /\ SettleAs(e, IF status[e] = "CLAIMED" /\ ~Anomaly(e) THEN "FAILED" ELSE "UNCERTAIN")
    /\ UNCHANGED <<approvalVars, callVars, checkpointed, reserved, dispatched, attempts,
                   age, lookups, gmailVars>>

\* What reconcile_execution insists on before it triages a row.
Reconcilable(e) ==
    /\ status[e] = "UNCERTAIN"
    /\ e \in checkpointed /\ e \in dispatched /\ e \in settled

\* The window has closed: UNCERTAIN -> ABANDONED without a call.
AbandonExpired(e) ==
    /\ Reconcilable(e)
    /\ age[e] >= Window
    /\ SettleAs(e, "ABANDONED")
    /\ UNCHANGED <<approvalVars, callVars, checkpointed, reserved, dispatched, attempts,
                   age, lookups, gmailVars>>

\* Mutant: the attempt cap is not read.
StartLookupUncapped(e) ==
    /\ Reconcilable(e)
    /\ age[e] < Window
    /\ lookups[e] < MaxLookups
    /\ lookups' = [lookups EXCEPT ![e] = @ + 1]
    /\ UNCHANGED <<approvalVars, callVars, rowVars, gmailVars>>

\* Window open, attempts left: the bounded search of SENT begins.
StartLookup(e) ==
    /\ Reconcilable(e)
    /\ age[e] < Window
    /\ attempts[e] < MaxAttempts
    /\ lookups[e] < MaxLookups
    /\ lookups' = [lookups EXCEPT ![e] = @ + 1]
    /\ UNCHANGED <<approvalVars, callVars, rowVars, gmailVars>>

EndLookup(e) ==
    /\ lookups[e] > 0
    /\ lookups' = [lookups EXCEPT ![e] = @ - 1]
    /\ UNCHANGED <<approvalVars, callVars, checkpointed, reserved, dispatched, age, gmailVars>>

\* FOUND: exactly one message in SENT matches.  Guarded UNCERTAIN -> SUCCEEDED.
LookupFound(e) ==
    /\ EndLookup(e)
    /\ e \in delivered
    /\ IF status[e] = "UNCERTAIN"
         THEN SettleAs(e, "SUCCEEDED")
         ELSE UNCHANGED <<status, settled>>
    /\ UNCHANGED attempts

\* Any other result only counts the attempt, while the row is UNCERTAIN.
LookupMissed(e) ==
    /\ EndLookup(e)
    /\ attempts' = IF status[e] = "UNCERTAIN"
                     THEN [attempts EXCEPT ![e] = @ + 1] ELSE attempts
    /\ UNCHANGED <<status, settled>>

-----------------------------------------------------------------------------
Tick ==
    /\ age' = [r \in Request |->
                 IF HasRow(r) /\ age[r] < MaxAge THEN age[r] + 1 ELSE age[r]]
    /\ UNCHANGED <<approvalVars, callVars, status, checkpointed, reserved, dispatched,
                   settled, attempts, lookups, gmailVars>>

Execute(r) ==
    \/ ReadApproval(r) \/ EvaluatePolicy(r) \/ LookupExecution(r)
    \/ InsertClaimed(r) \/ LoseInsert(r)
    \/ RecordCheckpoint(r) \/ ReserveGranted(r) \/ FailUndispatched(r)
    \/ TransitionToInFlight(r)
    \/ SendNeverLeft(r) \/ SendRequest(r) \/ SendAnswered(r) \/ SendUnclear(r)
    \/ SettleSend(r)

Gmail(r) == GmailAccepts(r) \/ GmailRefuses(r)

Reconcile(e) == AbandonExpired(e) \/ StartLookup(e) \/ LookupFound(e) \/ LookupMissed(e)

Next ==
    \/ \E p \in Proposal : Approve(p) \/ Reject(p)
    \/ \E r \in Request : Execute(r) \/ Die(r) \/ Gmail(r)
    \/ \E e \in Request : RecoverExecution(e) \/ Reconcile(e)
    \/ Tick

Spec == Init /\ [][Next]_vars

-----------------------------------------------------------------------------
(* Properties.                                                             *)

\* The variables have their types.
TypeOK ==
    /\ decision \in [Proposal -> Decision]
    /\ decisionNo \in [Proposal -> Nat]
    /\ pc \in [Request -> BeforeClaim \union Dispatching \union Ended]
    /\ approvalNo \in [Request -> Nat]
    /\ status \in [Request -> Status \union {"NONE"}]
    /\ checkpointed \subseteq Request /\ reserved \subseteq Request
    /\ dispatched \subseteq Request /\ settled \subseteq Request
    /\ attempts \in [Request -> Nat]
    /\ lookups \in [Request -> Nat]
    /\ age \in [Request -> Nat]
    /\ outcome \in [Request -> SendOutcome \union {"NONE"}]
    /\ inTransit \subseteq Request /\ refused \subseteq Request /\ delivered \subseteq Request

OnWire == inTransit \union delivered

\* No recipient ever gets two initial e-mails, counting the ones Gmail may
\* still accept: whatever requests race, whatever dies, is recovered,
\* reconciled, given up, approved again or tried again.
AtMostOneDelivery ==
    \A e, f \in OnWire : Rcpt(e) = Rcpt(f) => e = f

\* FAILED, the one status that frees the recipient, is never the status of a
\* message that was or may yet be delivered (settle_execution_failed and the
\* CLAIMED branch of recover_execution are the only writers of FAILED).
FailedIsUndelivered ==
    \A e \in OnWire : status[e] # "FAILED"

\* The write-ahead order of dispatch_live_email_send: whatever reached the
\* wire has a persisted checkpoint, an allowance slot and dispatched_at.
DispatchIsOrdered ==
    \A e \in OnWire \union refused :
        e \in checkpointed /\ e \in reserved /\ e \in dispatched

\* No row is stuck: reconcile_execution never answers NOT_RECONCILABLE, so an
\* UNCERTAIN row can always still be found or abandoned.
UncertainIsReconcilable ==
    \A e \in Request : status[e] = "UNCERTAIN" => Reconcilable(e)

\* The anomaly branch of recover_execution is what its comment calls it:
\* a persisted shape that no step of the code produces.
NoAnomaly == \A e \in Request : ~Anomaly(e)

\* Once a row has freed its recipient nothing takes the recipient back, not
\* even the unconditional write of a dispatcher that was thought dead.
FailedIsFinal ==
    [][\A e \in Request : status[e] = "FAILED" => status'[e] = "FAILED"]_vars

\* The attempt cap is read before the lookup and counted after it: it is
\* overshot by at most the calls that overlap.
AttemptsBounded ==
    \A e \in Request : attempts[e] + lookups[e] < MaxAttempts + MaxLookups

\* LiveSend implements the slot discipline: a row occupies its recipient while
\* its status is blocking, and Gmail's SENT folder is the inbox.
Slots == INSTANCE OutreachSlots WITH
    Message <- Request,
    RecipientOf <- [r \in Request |-> Rcpt(r)],
    holding <- {r \in Request : status[r] \in Blocking},
    inbox <- delivered

ImplementsSlots == Slots!SlotSpec

\* An operator who keeps using the recover and reconcile buttons while time
\* passes; nothing is assumed of the handlers.
FairSpec ==
    /\ Spec
    /\ WF_vars(Tick)
    /\ \A e \in Request : WF_vars(RecoverExecution(e)) /\ WF_vars(AbandonExpired(e))

\* Every claimed row ends in a terminal status for good, however its handler died.
EveryClaimSettles ==
    \A e \in Request : [](status[e] = "CLAIMED" => <>[](status[e] \in Terminal))

-----------------------------------------------------------------------------
(* The inductive invariant behind the safety properties.                   *)

\* The statuses a row can have once its message may have reached the wire.
Shipped == {"IN_FLIGHT", "SUCCEEDED", "UNCERTAIN", "ABANDONED"}

\* A live handler and its row agree, up to what recovery and reconciliation
\* may have done behind the handler's back.
HandlerMatchesRow ==
    \A r \in Request :
        /\ pc[r] \in BeforeClaim \union {"assert_failed"} => status[r] = "NONE"
        /\ pc[r] \in {"checkpoint", "reserve", "flight"} => status[r] \in {"CLAIMED", "FAILED"}
        /\ pc[r] \in {"send", "await", "settle"} => status[r] \in Shipped

\* What a handler knows of the wire when it classifies its call.
HandlerMatchesWire ==
    \A r \in Request :
        /\ pc[r] = "send" => r \notin OnWire \union refused
        /\ pc[r] = "settle" /\ StatusForOutcome(outcome[r]) = "FAILED" => r \notin OnWire

\* Checkpoint, then reservation, then IN_FLIGHT.
StepsInOrder ==
    \A r \in Request :
        /\ pc[r] \in {"reserve", "flight"} => r \in checkpointed
        /\ pc[r] = "flight" => r \in reserved
        /\ status[r] \in Shipped => r \in checkpointed /\ r \in reserved /\ r \in dispatched
        /\ r \in dispatched => status[r] \notin {"NONE", "CLAIMED"}
        /\ status[r] = "UNCERTAIN" => r \in settled

\* Gmail judges a message once.
OneVerdict ==
    /\ inTransit \intersect delivered = {}
    /\ refused \intersect OnWire = {}

OneHolder ==
    \A e, f \in Request :
        status[e] \in Blocking /\ status[f] \in Blocking /\ Rcpt(e) = Rcpt(f) => e = f

\* Every part of the argument that no recipient is written to twice.
IInv ==
    /\ TypeOK
    /\ HandlerMatchesRow
    /\ HandlerMatchesWire
    /\ StepsInOrder
    /\ OneVerdict
    /\ OneHolder
    /\ \A e \in OnWire : status[e] \in Shipped
    /\ DispatchIsOrdered
==============================================================================
