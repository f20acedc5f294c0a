----------------------------- MODULE ActionGate -----------------------------
(***************************************************************************)
(* Who may be written to, from which account, on whose say: proposals and   *)
(* the policy, the operator's decisions, the gates of an execute call up to *)
(* the dispatch, and the Gmail connection they read.  Proposing, executing  *)
(* and connecting are requests that interleave at their awaits; LiveSend    *)
(* details what follows a claim, ContactChannels what makes a contact       *)
(* sendable, and both appear here as what the gates can see of them.        *)
(*                                                                          *)
(* The text of a draft and its recipient never change once it is stored, so *)
(* the content hash of a proposal is its draft and its sender.              *)
(***************************************************************************)

EXTENDS Naturals

CONSTANTS
    Account,        \* Google accounts that may be connected
    Draft,          \* e-mail drafts of LIVE runs
    Address,        \* recipient identity keys
    Nil,            \* no account
    RecipientOf,    \* the address a draft goes to
    Propose,        \* POST /propose calls
    Execute,        \* POST /execute calls
    Flow,           \* Gmail OAuth flows
    MaxApprovals    \* bound: approvals of one proposal

\* UNIQUE(draft_id, content_hash): a proposal is a draft and the sender it binds.
Proposal == Draft \X (Account \union {Nil})
Sender(k) == k[2]
Recipient(k) == RecipientOf[k[1]]

ASSUME NilAssumption == Nil \notin Account /\ Nil \notin Proposal /\ Nil \notin Execute
ASSUME MaxApprovalsAssumption == MaxApprovals \in Nat
ASSUME RecipientAssumption == RecipientOf \in [Draft -> Address]

VARIABLES
    connection,     \* the connected account: the one gmail_connections row
    flow,           \* the oauth_states row of a flow and its callback
    ready,          \* drafts whose review, status, contact and text pass clauses 1 to 7
    barred,         \* addresses under a legal restriction
    exhausted,      \* has the rolling day no send left?
    verdict,        \* policy_verdict of a proposal ("NONE": no such row)
    superseder,     \* superseded_by
    decision,       \* the newest ACTION decision on a proposal
    approvals,      \* how often a proposal was approved: the identity of the newest approval
    askPc, askFor, askVerdict, askPriors,   \* a propose call: step, proposal, what it read
    pc, about, by, from,    \* an execute call: step, proposal, approval, account of its provider
    executed,       \* idempotency keys that have an execution row
    holder,         \* the call whose execution row blocks an address
    sent,           \* execute calls whose message left
    met,            \* history: what held at some moment of an execute call
    barredThen      \* history: the addresses barred when an execute call arrived

connectVars == <<connection, flow>>
worldVars == <<ready, barred, exhausted>>
proposalVars == <<verdict, superseder, decision, approvals>>
askVars == <<askPc, askFor, askVerdict, askPriors>>
callVars == <<pc, about, by, from>>
sendVars == <<executed, holder, sent>>
history == <<met, barredThen>>
vars == <<connectVars, worldVars, proposalVars, askVars, callVars, sendVars, history>>

Exists(k) == verdict[k] # "NONE"

Init ==
    /\ connection \in Account \union {Nil}       \* an earlier process may have left one
    /\ flow = [f \in Flow |-> "unused"]
    /\ ready = {} /\ barred = {} /\ exhausted = FALSE
    /\ verdict = [k \in Proposal |-> "NONE"]
    /\ superseder = [k \in Proposal |-> Nil]
    /\ decision = [k \in Proposal |-> "NONE"]
    /\ approvals = [k \in Proposal |-> 0]
    /\ askPc = [q \in Propose |-> "idle"]
    /\ askFor = [q \in Propose |-> Nil]
    /\ askVerdict = [q \in Propose |-> "NONE"]
    /\ askPriors = [q \in Propose |-> {}]
    /\ pc = [x \in Execute |-> "idle"]
    /\ about = [x \in Execute |-> Nil]
    /\ by = [x \in Execute |-> 0]
    /\ from = [x \in Execute |-> Nil]
    /\ executed = {}
    /\ holder = [a \in Address |-> Nil]
    /\ sent = {}
    /\ met = [x \in Execute |-> {}]
    /\ barredThen = [x \in Execute |-> {}]

-----------------------------------------------------------------------------
(* What the gates observe but do not decide.                               *)

\* The pipeline ends with a PASS and a verified address, the wall clock writes the
\* prospect off, thirty days pass.  A draft is stored, and may be proposed, before.
ReadinessChanges(d) ==
    /\ ready' = IF d \in ready THEN ready \ {d} ELSE ready \union {d}
    /\ UNCHANGED <<connectVars, barred, exhausted, proposalVars, askVars, callVars, sendVars,
                   history>>

\* Some run's enrichment reports a legal restriction (see ContactChannels).
AddressBarred(a) ==
    /\ a \notin barred
    /\ barred' = barred \union {a}
    /\ UNCHANGED <<connectVars, ready, exhausted, proposalVars, askVars, callVars, sendVars,
                   history>>

\* Reservations fill the rolling day, or leave it.
AllowanceChanges ==
    /\ exhausted' = ~exhausted
    /\ UNCHANGED <<connectVars, ready, barred, proposalVars, askVars, callVars, sendVars, history>>

-----------------------------------------------------------------------------
(* The Gmail connection.                                                   *)

OpenCalls(s) == {x \in Execute : pc[x] \notin {"idle", "done"} /\ Sender(about[x]) = s}

\* POST /connect stores a single-use state.
Connect(f) ==
    /\ flow[f] = "unused"
    /\ flow' = [flow EXCEPT ![f] = "issued"]
    /\ UNCHANGED <<connection, worldVars, proposalVars, askVars, callVars, sendVars, history>>

\* The guarded UPDATE of consume_state: a replay and an expired state find no row.
ConsumeState(f) ==
    /\ flow[f] = "issued"
    /\ flow' = [flow EXCEPT ![f] = "consumed"]
    /\ UNCHANGED <<connection, worldVars, proposalVars, askVars, callVars, sendVars, history>>

\* The state expires, Google reports an error, or the exchange fails.
FlowEnds(f) ==
    /\ flow[f] \in {"issued", "consumed"}
    /\ flow' = [flow EXCEPT ![f] = "over"]
    /\ UNCHANGED <<connection, worldVars, proposalVars, askVars, callVars, sendVars, history>>

\* Code exchanged, profile read: the one row is overwritten, whatever it holds now.
UpsertConnection(f, a) ==
    /\ flow[f] = "consumed"
    /\ flow' = [flow EXCEPT ![f] = "over"]
    /\ connection' = a
    /\ met' = [x \in Execute |-> IF x \in OpenCalls(a) THEN met[x] \union {"sender"} ELSE met[x]]
    /\ UNCHANGED <<worldVars, proposalVars, askVars, callVars, sendVars, barredThen>>

\* The row is deleted, whichever connection it holds by then.
Disconnect ==
    /\ connection # Nil
    /\ connection' = Nil
    /\ UNCHANGED <<flow, worldVars, proposalVars, askVars, callVars, sendVars, history>>

-----------------------------------------------------------------------------
(* The policy, and proposing.                                              *)

\* Clause 12 counts blocking executions for the address, but for those of the
\* proposal that is being executed.
Conflict(k, excluded) ==
    /\ holder[Recipient(k)] # Nil
    /\ about[holder[Recipient(k)]] # excluded

\* evaluate() for a live e-mail, given the account its caller has just read.
\* Clauses 8 and 9 cannot fail here: neither the text nor the hash version changes.
PolicyPasses(k, connected, excluded) ==
    /\ k[1] \in ready
    /\ connected # Nil /\ connected = Sender(k)
    /\ ~Conflict(k, excluded)
    /\ ~exhausted
    /\ Recipient(k) \notin barred

AskGoto(q, label) == askPc' = [askPc EXCEPT ![q] = label]

\* The sender is read first; it names the proposal.
AskSender(q, d) ==
    /\ askPc[q] = "idle"
    /\ askFor' = [askFor EXCEPT ![q] = <<d, connection>>]
    /\ AskGoto(q, "policy")
    /\ UNCHANGED <<askVerdict, askPriors, connectVars, worldVars, proposalVars, callVars,
                   sendVars, history>>

AskPolicy(q) ==
    LET k == askFor[q] IN
    /\ askPc[q] = "policy"
    /\ askVerdict' = [askVerdict EXCEPT
           ![q] = IF PolicyPasses(k, Sender(k), Nil) THEN "ELIGIBLE" ELSE "BLOCKED"]
    /\ AskGoto(q, "find")
    /\ UNCHANGED <<askFor, askPriors, connectVars, worldVars, proposalVars, callVars,
                   sendVars, history>>

Siblings(k) == {j \in Proposal : j[1] = k[1] /\ j # k}

\* An existing proposal is returned as it is, with the verdict it was born with;
\* otherwise the proposals to supersede are read.
FindProposal(q) ==
    LET k == askFor[q] IN
    /\ askPc[q] = "find"
    /\ IF Exists(k)
         THEN AskGoto(q, "done") /\ UNCHANGED askPriors
         ELSE /\ AskGoto(q, "insert")
              /\ askPriors' = [askPriors EXCEPT
                     ![q] = {j \in Siblings(k) : Exists(j) /\ superseder[j] = Nil}]
    /\ UNCHANGED <<askFor, askVerdict, connectVars, worldVars, proposalVars, callVars,
                   sendVars, history>>

\* Mutant: the prior rows are read when the new one is stored, whatever their content.
InsertAmongPriors(q) ==
    LET k == askFor[q] IN
    /\ askPc[q] = "insert"
    /\ ~Exists(k)
    /\ verdict' = [verdict EXCEPT ![k] = askVerdict[q]]
    /\ superseder' = [j \in Proposal |->
           IF j[1] = k[1] /\ superseder[j] = Nil /\ verdict'[j] # "NONE" THEN k ELSE superseder[j]]
    /\ AskGoto(q, "done")
    /\ UNCHANGED <<askFor, askVerdict, askPriors, connectVars, worldVars, decision, approvals,
                   callVars, sendVars, history>>

\* INSERT and the UPDATE of the prior rows commit together.
InsertProposal(q) ==
    LET k == askFor[q] IN
    /\ askPc[q] = "insert"
    /\ ~Exists(k)
    /\ verdict' = [verdict EXCEPT ![k] = askVerdict[q]]
    /\ superseder' = [j \in Proposal |-> IF j \in askPriors[q] THEN k ELSE superseder[j]]
    /\ AskGoto(q, "done")
    /\ UNCHANGED <<askFor, askVerdict, askPriors, connectVars, worldVars, decision, approvals,
                   callVars, sendVars, history>>

\* Another call inserted the same proposal: the IntegrityError ends this one.
InsertCollides(q) ==
    /\ askPc[q] = "insert"
    /\ Exists(askFor[q])
    /\ AskGoto(q, "done")
    /\ UNCHANGED <<askFor, askVerdict, askPriors, connectVars, worldVars, proposalVars, callVars,
                   sendVars, history>>

-----------------------------------------------------------------------------
(* The operator decides.                                                   *)

\* A BLOCKED proposal cannot be approved; a superseded one can.
Approve(k) ==
    /\ verdict[k] = "ELIGIBLE"
    /\ approvals[k] < MaxApprovals
    /\ approvals' = [approvals EXCEPT ![k] = @ + 1]
    /\ decision' = [decision EXCEPT ![k] = "APPROVED"]
    /\ met' = [x \in Execute |->
           IF pc[x] \notin {"idle", "done"} /\ about[x] = k
             THEN met[x] \union {"approval"} ELSE met[x]]
    /\ UNCHANGED <<connectVars, worldVars, verdict, superseder, askVars, callVars, sendVars,
                   barredThen>>

Reject(k) ==
    /\ Exists(k)
    /\ decision' = [decision EXCEPT ![k] = "REJECTED"]
    /\ UNCHANGED <<connectVars, worldVars, verdict, superseder, approvals, askVars, callVars,
                   sendVars, history>>

-----------------------------------------------------------------------------
(* An execute call.                                                        *)

Goto(x, label) == pc' = [pc EXCEPT ![x] = label]
Proceed(x, passes, label) == Goto(x, IF passes THEN label ELSE "done")

Arrive(x, k) ==
    /\ pc[x] = "idle"
    /\ Exists(k)
    /\ about' = [about EXCEPT ![x] = k]
    /\ Goto(x, "approval")
    /\ barredThen' = [barredThen EXCEPT ![x] = barred]
    /\ met' = [met EXCEPT ![x] =
           {m \in {"approval", "sender"} :
               IF m = "approval" THEN decision[k] = "APPROVED" ELSE connection = Sender(k)}]
    /\ UNCHANGED <<by, from, connectVars, worldVars, proposalVars, askVars, sendVars>>

\* Mutant: a proposal once decided on counts as approved.
ReadApprovalAny(x) ==
    /\ pc[x] = "approval"
    /\ Proceed(x, decision[about[x]] # "NONE", "sender")
    /\ by' = [by EXCEPT ![x] = approvals[about[x]]]
    /\ UNCHANGED <<about, from, connectVars, worldVars, proposalVars, askVars, sendVars, history>>

\* NOT_APPROVED.
ReadApproval(x) ==
    /\ pc[x] = "approval"
    /\ Proceed(x, decision[about[x]] = "APPROVED", "sender")
    /\ by' = [by EXCEPT ![x] = approvals[about[x]]]
    /\ UNCHANGED <<about, from, connectVars, worldVars, proposalVars, askVars, sendVars, history>>

\* SENDER_NOT_CONNECTED, SENDER_CHANGED.
ReadSender(x) ==
    /\ pc[x] = "sender"
    /\ Proceed(x, connection # Nil /\ connection = Sender(about[x]), "policy")
    /\ UNCHANGED <<about, by, from, connectVars, worldVars, proposalVars, askVars, sendVars, history>>

\* Mutant: the verdict the proposal was born with stands.
EvaluatePolicyStored(x) ==
    /\ pc[x] = "policy"
    /\ Proceed(x, verdict[about[x]] = "ELIGIBLE", "provider")
    /\ UNCHANGED <<about, by, from, connectVars, worldVars, proposalVars, askVars, sendVars, history>>

\* A fresh evaluation, with the sender read before.
EvaluatePolicy(x) ==
    /\ pc[x] = "policy"
    /\ Proceed(x, PolicyPasses(about[x], Sender(about[x]), about[x]), "provider")
    /\ UNCHANGED <<about, by, from, connectVars, worldVars, proposalVars, askVars, sendVars, history>>

\* build_gmail_send_provider reads the connection again: GMAIL_NOT_CONNECTED, or a
\* provider for the account that is connected now.
BuildProvider(x) ==
    /\ pc[x] = "provider"
    /\ Proceed(x, connection # Nil, "claim")
    /\ from' = [from EXCEPT ![x] = connection]
    /\ UNCHANGED <<about, by, connectVars, worldVars, proposalVars, askVars, sendVars, history>>

Key(x) == <<about[x], by[x]>>

\* The CLAIMED row.  An execution under this approval is returned as it is, and an
\* address that is held refuses the INSERT (see LiveSend).
Claim(x) ==
    LET address == Recipient(about[x])
        won == Key(x) \notin executed /\ holder[address] = Nil
    IN
    /\ pc[x] = "claim"
    /\ Proceed(x, won, "dispatch")
    /\ executed' = IF won THEN executed \union {Key(x)} ELSE executed
    /\ holder' = IF won THEN [holder EXCEPT ![address] = x] ELSE holder
    /\ UNCHANGED <<about, by, from, sent, connectVars, worldVars, proposalVars, askVars, history>>

\* The message leaves with the credentials, and the From header, of the provider.
Dispatch(x) ==
    /\ pc[x] = "dispatch"
    /\ sent' = sent \union {x}
    /\ Goto(x, "done")
    /\ UNCHANGED <<about, by, from, executed, holder, connectVars, worldVars, proposalVars,
                   askVars, history>>

\* FAILED, and nothing was delivered: the address is free again.
DispatchFails(x) ==
    /\ pc[x] = "dispatch"
    /\ holder' = [holder EXCEPT ![Recipient(about[x])] = Nil]
    /\ Goto(x, "done")
    /\ UNCHANGED <<about, by, from, executed, sent, connectVars, worldVars, proposalVars,
                   askVars, history>>

-----------------------------------------------------------------------------

Ask(q) ==
    \/ \E d \in Draft : AskSender(q, d)
    \/ AskPolicy(q) \/ FindProposal(q) \/ InsertProposal(q) \/ InsertCollides(q)

Call(x) ==
    \/ \E k \in Proposal : Arrive(x, k)
    \/ ReadApproval(x) \/ ReadSender(x) \/ EvaluatePolicy(x) \/ BuildProvider(x)
    \/ Claim(x) \/ Dispatch(x) \/ DispatchFails(x)

Connecting ==
    \/ \E f \in Flow : Connect(f) \/ ConsumeState(f) \/ FlowEnds(f)
    \/ \E f \in Flow, a \in Account : UpsertConnection(f, a)
    \/ Disconnect

World ==
    \/ \E d \in Draft : ReadinessChanges(d)
    \/ \E a \in Address : AddressBarred(a)
    \/ AllowanceChanges

Next ==
    \/ World
    \/ Connecting
    \/ \E q \in Propose : Ask(q)
    \/ \E k \in Proposal : Approve(k) \/ Reject(k)
    \/ \E x \in Execute : Call(x)

Spec == Init /\ [][Next]_vars

-----------------------------------------------------------------------------
(* Properties.                                                             *)

\* Every variable has its type.
TypeOK ==
    /\ connection \in Account \union {Nil}
    /\ flow \in [Flow -> {"unused", "issued", "consumed", "over"}]
    /\ ready \subseteq Draft /\ barred \subseteq Address
    /\ exhausted \in BOOLEAN
    /\ verdict \in [Proposal -> {"NONE", "ELIGIBLE", "BLOCKED"}]
    /\ superseder \in [Proposal -> Proposal \union {Nil}]
    /\ \A k \in Proposal : superseder[k] \in Siblings(k) \union {Nil}
    /\ approvals \in [Proposal -> 0 .. MaxApprovals]
    /\ decision \in [Proposal -> {"NONE", "APPROVED", "REJECTED"}]
    /\ askPc \in [Propose -> {"idle", "policy", "find", "insert", "done"}]
    /\ askFor \in [Propose -> Proposal \union {Nil}]
    /\ askVerdict \in [Propose -> {"NONE", "ELIGIBLE", "BLOCKED"}]
    /\ askPriors \in [Propose -> SUBSET Proposal]
    /\ pc \in [Execute -> {"idle", "approval", "sender", "policy", "provider", "claim",
                           "dispatch", "done"}]
    /\ about \in [Execute -> Proposal \union {Nil}]
    /\ from \in [Execute -> Account \union {Nil}]
    /\ by \in [Execute -> 0 .. MaxApprovals]
    /\ executed \subseteq Proposal \X (0 .. MaxApprovals)
    /\ holder \in [Address -> Execute \union {Nil}]
    /\ sent \subseteq Execute
    /\ met \in [Execute -> SUBSET {"approval", "sender"}]
    /\ barredThen \in [Execute -> SUBSET Address]

\* A message goes out only for a proposal that was ELIGIBLE when it was made, and
\* only if, at some moment of the call, its newest decision was an approval and,
\* at some moment, the approved account was the connected one - however
\* rejections, reconnections and other calls fall between the gates
\* (routers/actions.py:608-722).
SentWasAuthorised ==
    \A x \in sent :
        /\ verdict[about[x]] = "ELIGIBLE"
        /\ met[x] = {"approval", "sender"}

\* An address restricted before an execute call arrives gets nothing from that
\* call, although the proposal was made and approved before the restriction
\* (routers/actions.py:225-241, action_policy.py:318).
RestrictedBeforeIsNotSent ==
    \A x \in sent : Recipient(about[x]) \notin barredThen[x]

\* Among the proposals of a draft one is not superseded, whatever senders come
\* and go, old contents are proposed again and proposals are created at the same
\* time (repositories/actions.py:106-181).
OneProposalStands ==
    \A j \in Proposal : Exists(j) =>
        \E k \in Siblings(j) \union {j} : Exists(k) /\ superseder[k] = Nil

\* A message is sent from the account its approval names
\* (docs/V2_IMPLEMENTATION_PLAN.md:1027).  Violated: the account is compared at
\* the gate, and read a second time for the provider.
SentFromApprovedAccount == \A x \in sent : from[x] = Sender(about[x])

-----------------------------------------------------------------------------
(* What makes the three invariants inductive.                              *)

Arrived(x) == pc[x] # "idle"
Passed(x, gate) ==
    \/ x \in sent
    \/ pc[x] \in CASE gate = "approval" -> {"sender", "policy", "provider", "claim", "dispatch"}
                  [] gate = "sender" -> {"policy", "provider", "claim", "dispatch"}
                  [] gate = "policy" -> {"provider", "claim", "dispatch"}

\* A call about a proposal remembers what held since it arrived, and each gate it
\* has passed saw its condition hold at that time (routers/actions.py:608-722).
GatesWereMet ==
    \A x \in Execute :
        /\ Arrived(x) => about[x] \in Proposal /\ barredThen[x] \subseteq barred
        /\ Arrived(x) /\ pc[x] # "done" =>
               /\ decision[about[x]] = "APPROVED" => "approval" \in met[x]
               /\ connection # Nil /\ connection = Sender(about[x]) => "sender" \in met[x]
        /\ x \in sent => pc[x] = "done"
        /\ Passed(x, "approval") => "approval" \in met[x] /\ verdict[about[x]] = "ELIGIBLE"
        /\ Passed(x, "sender") => "sender" \in met[x]
        /\ Passed(x, "policy") => Recipient(about[x]) \notin barredThen[x]

\* Only an ELIGIBLE proposal is ever approved, one that does not exist is not
\* superseded, and a call that inserts supersedes other, existing proposals of its draft.
ProposalsAreSound ==
    /\ \A k \in Proposal :
           /\ decision[k] = "APPROVED" => verdict[k] = "ELIGIBLE"
           /\ ~Exists(k) => superseder[k] = Nil
    /\ \A q \in Propose :
           /\ askPc[q] \notin {"idle", "done"} => askFor[q] \in Proposal
           /\ askPc[q] \in {"find", "insert"} => askVerdict[q] # "NONE"
           /\ askPc[q] = "insert" =>
                  /\ askPriors[q] \subseteq Siblings(askFor[q])
                  /\ \A j \in askPriors[q] : Exists(j)

\* The three invariants and what carries them through every step
\* (repositories/actions.py:106-181, routers/actions.py:608-722).
IInv == TypeOK /\ ProposalsAreSound /\ GatesWereMet /\ OneProposalStands
=============================================================================
