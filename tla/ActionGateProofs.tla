-------------------------- MODULE ActionGateProofs --------------------------
(***************************************************************************)
(* Proofs about ActionGate, for any accounts, drafts, addresses, calls and  *)
(* flows: types, the gates every message has passed, and the proposal of a  *)
(* draft that stands.                                                       *)
(***************************************************************************)
EXTENDS ActionGate, TLAPS

\* A proposal is a draft and a sender (action_proposals, UNIQUE(draft_id, content_hash)).
LEMMA ProposalParts ==
    ASSUME NEW k \in Proposal
    PROVE  /\ k[1] \in Draft /\ k[2] \in Account \union {Nil}
           /\ Sender(k) \in Account \union {Nil}
           /\ Recipient(k) \in Address
BY RecipientAssumption DEF Proposal, Sender, Recipient

LEMMA InitInvariant == Init => IInv
<1> SUFFICES ASSUME Init PROVE IInv
  OBVIOUS
<1>1. TypeOK
  <2>1. 0 \in 0 .. MaxApprovals
    BY MaxApprovalsAssumption
  <2>2. QED
    BY <2>1 DEF Init, TypeOK
<1>2. ProposalsAreSound
  BY DEF Init, ProposalsAreSound, Exists
<1>3. GatesWereMet
  BY DEF Init, GatesWereMet, Arrived, Passed
<1>4. OneProposalStands
  BY DEF Init, OneProposalStands, Exists
<1>5. QED
  BY <1>1, <1>2, <1>3, <1>4 DEF IInv

-----------------------------------------------------------------------------

LEMMA TypesPreserved == IInv /\ [Next]_vars => TypeOK'
<1> SUFFICES ASSUME IInv, [Next]_vars PROVE TypeOK'
  OBVIOUS
<1> USE DEF IInv
<1>1. CASE UNCHANGED vars
  BY <1>1 DEF TypeOK, vars, connectVars, worldVars, proposalVars, askVars, callVars, sendVars,
              history
<1>2. CASE World
  <2>1. ASSUME NEW d \in Draft, ReadinessChanges(d) PROVE TypeOK'
    BY <2>1 DEF ReadinessChanges, TypeOK, connectVars, proposalVars, askVars, callVars, sendVars,
                history
  <2>2. ASSUME NEW a \in Address, AddressBarred(a) PROVE TypeOK'
    BY <2>2 DEF AddressBarred, TypeOK, connectVars, proposalVars, askVars, callVars, sendVars,
                history
  <2>3. CASE AllowanceChanges
    BY <2>3 DEF AllowanceChanges, TypeOK, connectVars, proposalVars, askVars, callVars, sendVars,
                history
  <2>4. QED
    BY <1>2, <2>1, <2>2, <2>3 DEF World
<1>3. CASE Connecting
  <2>1. ASSUME NEW f \in Flow, Connect(f) \/ ConsumeState(f) \/ FlowEnds(f) PROVE TypeOK'
    BY <2>1 DEF Connect, ConsumeState, FlowEnds, TypeOK, worldVars, proposalVars, askVars,
                callVars, sendVars, history
  <2>2. ASSUME NEW f \in Flow, NEW a \in Account, UpsertConnection(f, a) PROVE TypeOK'
    <3>1. met' \in [Execute -> SUBSET {"approval", "sender"}]
      BY <2>2 DEF UpsertConnection, TypeOK
    <3>2. QED
      BY <2>2, <3>1 DEF UpsertConnection, TypeOK, worldVars, proposalVars, askVars, callVars,
                        sendVars
  <2>3. CASE Disconnect
    BY <2>3 DEF Disconnect, TypeOK, worldVars, proposalVars, askVars, callVars, sendVars, history
  <2>4. QED
    BY <1>3, <2>1, <2>2, <2>3 DEF Connecting
<1>4. ASSUME NEW q \in Propose, Ask(q) PROVE TypeOK'
  <2>1. ASSUME NEW d \in Draft, AskSender(q, d) PROVE TypeOK'
    <3>1. <<d, connection>> \in Proposal
      BY DEF TypeOK, Proposal
    <3>2. QED
      BY <2>1, <3>1 DEF AskSender, AskGoto, TypeOK, connectVars, worldVars, proposalVars,
                        callVars, sendVars, history
  <2>2. CASE AskPolicy(q)
    BY <2>2 DEF AskPolicy, AskGoto, TypeOK, connectVars, worldVars, proposalVars, callVars,
                sendVars, history
  <2>3. CASE FindProposal(q)
    BY <2>3 DEF FindProposal, AskGoto, TypeOK, Siblings, connectVars, worldVars, proposalVars,
                callVars, sendVars, history
  <2>4. CASE InsertProposal(q)
    <3> DEFINE k == askFor[q]
    <3>1. k \in Proposal /\ askPriors[q] \subseteq Siblings(k) /\ askVerdict[q] # "NONE"
      BY <2>4 DEF InsertProposal, ProposalsAreSound
    <3>2. verdict' \in [Proposal -> {"NONE", "ELIGIBLE", "BLOCKED"}]
      BY <2>4, <3>1 DEF InsertProposal, TypeOK
    <3>3. superseder' \in [Proposal -> Proposal \union {Nil}]
      BY <2>4, <3>1 DEF InsertProposal, TypeOK
    <3>4. ASSUME NEW j \in Proposal PROVE superseder'[j] \in Siblings(j) \union {Nil}
      <4>1. CASE j \in askPriors[q]
        BY <2>4, <3>1, <4>1 DEF InsertProposal, Siblings
      <4>2. CASE j \notin askPriors[q]
        BY <2>4, <4>2 DEF InsertProposal, TypeOK
      <4>3. QED
        BY <4>1, <4>2
    <3>5. QED
      BY <2>4, <3>2, <3>3, <3>4 DEF InsertProposal, AskGoto, TypeOK, Siblings, connectVars,
                                    worldVars, callVars, sendVars, history
  <2>5. CASE InsertCollides(q)
    BY <2>5 DEF InsertCollides, AskGoto, TypeOK, connectVars, worldVars, proposalVars, callVars,
                sendVars, history
  <2>6. QED
    BY <1>4, <2>1, <2>2, <2>3, <2>4, <2>5 DEF Ask
<1>5. ASSUME NEW k \in Proposal, Approve(k) \/ Reject(k) PROVE TypeOK'
  <2>1. CASE Approve(k)
    <3>1. approvals' \in [Proposal -> 0 .. MaxApprovals]
      BY <2>1, MaxApprovalsAssumption DEF Approve, TypeOK
    <3>2. met' \in [Execute -> SUBSET {"approval", "sender"}]
      BY <2>1 DEF Approve, TypeOK
    <3>3. QED
      BY <2>1, <3>1, <3>2 DEF Approve, TypeOK, connectVars, worldVars, askVars, callVars, sendVars
  <2>2. CASE Reject(k)
    BY <2>2 DEF Reject, TypeOK, connectVars, worldVars, askVars, callVars, sendVars, history
  <2>3. QED
    BY <1>5, <2>1, <2>2
<1>6. ASSUME NEW x \in Execute, Call(x) PROVE TypeOK'
  <2>1. ASSUME NEW k \in Proposal, Arrive(x, k) PROVE TypeOK'
    <3>1. met' \in [Execute -> SUBSET {"approval", "sender"}]
      BY <2>1 DEF Arrive, TypeOK
    <3>2. QED
      BY <2>1, <3>1 DEF Arrive, Goto, TypeOK, connectVars, worldVars, proposalVars, askVars,
                        sendVars
  <2>2. CASE ReadApproval(x)
    <3>1. about[x] \in Proposal
      BY <2>2 DEF ReadApproval, GatesWereMet, Arrived
    <3>2. by' \in [Execute -> 0 .. MaxApprovals]
      BY <2>2, <3>1 DEF ReadApproval, TypeOK
    <3>3. QED
      BY <2>2, <3>2 DEF ReadApproval, Proceed, Goto, TypeOK, connectVars, worldVars,
                        proposalVars, askVars, sendVars, history
  <2>3. CASE ReadSender(x) \/ EvaluatePolicy(x)
    BY <2>3 DEF ReadSender, EvaluatePolicy, Proceed, Goto, TypeOK, connectVars, worldVars,
                proposalVars, askVars, sendVars, history
  <2>4. CASE BuildProvider(x)
    BY <2>4 DEF BuildProvider, Proceed, Goto, TypeOK, connectVars, worldVars, proposalVars,
                askVars, sendVars, history
  <2>5. CASE Claim(x)
    <3>1. Key(x) \in Proposal \X (0 .. MaxApprovals)
      BY <2>5 DEF Claim, Key, GatesWereMet, Arrived, TypeOK
    <3>2. /\ executed' \subseteq Proposal \X (0 .. MaxApprovals)
          /\ holder' \in [Address -> Execute \union {Nil}]
      BY <2>5, <3>1 DEF Claim, TypeOK
    <3>3. QED
      BY <2>5, <3>2 DEF Claim, Proceed, Goto, TypeOK, connectVars, worldVars, proposalVars,
                        askVars, history
  <2>6. CASE Dispatch(x)
    BY <2>6 DEF Dispatch, Goto, TypeOK, connectVars, worldVars, proposalVars, askVars, history
  <2>7. CASE DispatchFails(x)
    BY <2>7 DEF DispatchFails, Goto, TypeOK, connectVars, worldVars, proposalVars, askVars, history
  <2>8. QED
    BY <1>6, <2>1, <2>2, <2>3, <2>4, <2>5, <2>6, <2>7 DEF Call
<1>7. QED
  BY <1>1, <1>2, <1>3, <1>4, <1>5, <1>6 DEF Next

-----------------------------------------------------------------------------

LEMMA ProposalsPreserved == IInv /\ [Next]_vars => ProposalsAreSound'
<1> SUFFICES ASSUME IInv, [Next]_vars PROVE ProposalsAreSound'
  OBVIOUS
<1> USE DEF IInv
<1>1. CASE UNCHANGED <<proposalVars, askVars>>
  BY <1>1 DEF ProposalsAreSound, Exists, proposalVars, askVars
<1>2. ASSUME NEW q \in Propose, Ask(q) PROVE ProposalsAreSound'
  <2>1. ASSUME NEW d \in Draft, AskSender(q, d) PROVE ProposalsAreSound'
    <3>1. <<d, connection>> \in Proposal
      BY DEF TypeOK, Proposal
    <3>2. QED
      BY <2>1, <3>1 DEF AskSender, AskGoto, ProposalsAreSound, TypeOK, Exists, proposalVars
  <2>2. CASE AskPolicy(q)
    BY <2>2 DEF AskPolicy, AskGoto, ProposalsAreSound, TypeOK, Exists, proposalVars
  <2>3. CASE FindProposal(q)
    BY <2>3 DEF FindProposal, AskGoto, ProposalsAreSound, TypeOK, Exists, proposalVars
  <2>4. CASE InsertProposal(q)
    <3> DEFINE k == askFor[q]
    <3>1. k \in Proposal /\ askPriors[q] \subseteq Siblings(k) /\ askVerdict[q] # "NONE"
          /\ verdict[k] = "NONE"
      BY <2>4 DEF InsertProposal, ProposalsAreSound, Exists
    <3>2. ASSUME NEW j \in Proposal
          PROVE  /\ (decision[j] = "APPROVED" => verdict[j] = "ELIGIBLE")'
                 /\ (~Exists(j) => superseder[j] = Nil)'
      <4>1. CASE j = k
        BY <2>4, <3>1, <4>1 DEF InsertProposal, ProposalsAreSound, Exists, TypeOK
      <4>2. CASE j # k
        <5>1. verdict'[j] = verdict[j] /\ decision' = decision
          BY <2>4, <3>1, <4>2 DEF InsertProposal, TypeOK
        <5>2. j \in askPriors[q] => Exists(j)
          BY <2>4 DEF InsertProposal, ProposalsAreSound
        <5>3. superseder'[j] = IF j \in askPriors[q] THEN k ELSE superseder[j]
          BY <2>4 DEF InsertProposal
        <5>4. QED
          BY <5>1, <5>2, <5>3 DEF ProposalsAreSound, Exists
      <4>3. QED
        BY <4>1, <4>2
    <3>3. ASSUME NEW r \in Propose
          PROVE  /\ askPc'[r] \notin {"idle", "done"} => askFor'[r] \in Proposal
                 /\ askPc'[r] \in {"find", "insert"} => askVerdict'[r] # "NONE"
                 /\ askPc'[r] = "insert" =>
                        /\ askPriors'[r] \subseteq Siblings(askFor'[r])
                        /\ \A j \in askPriors'[r] : Exists(j)'
      <4>1. askFor' = askFor /\ askVerdict' = askVerdict /\ askPriors' = askPriors
            /\ (askPc'[r] = askPc[r] \/ askPc'[r] = "done")
        BY <2>4 DEF InsertProposal, AskGoto, TypeOK
      <4>2. ASSUME NEW j \in Proposal, Exists(j) PROVE Exists(j)'
        BY <2>4, <3>1, <4>2 DEF InsertProposal, TypeOK, Exists
      <4>3. QED
        BY <4>1, <4>2 DEF ProposalsAreSound, TypeOK
    <3>4. QED
      BY <3>2, <3>3 DEF ProposalsAreSound, Siblings
  <2>5. CASE InsertCollides(q)
    BY <2>5 DEF InsertCollides, AskGoto, ProposalsAreSound, TypeOK, Exists, proposalVars
  <2>6. QED
    BY <1>2, <2>1, <2>2, <2>3, <2>4, <2>5 DEF Ask
<1>3. ASSUME NEW k \in Proposal, Approve(k) \/ Reject(k) PROVE ProposalsAreSound'
  BY <1>3 DEF Approve, Reject, ProposalsAreSound, TypeOK, Exists, askVars
<1>4. QED
  <2>1. World \/ Connecting \/ (\E x \in Execute : Call(x)) => UNCHANGED <<proposalVars, askVars>>
    BY DEF World, ReadinessChanges, AddressBarred, AllowanceChanges, Connecting, Connect,
           ConsumeState, FlowEnds, UpsertConnection, Disconnect, Call, Arrive, ReadApproval,
           ReadSender, EvaluatePolicy, BuildProvider, Claim, Dispatch, DispatchFails
  <2>2. UNCHANGED vars => UNCHANGED <<proposalVars, askVars>>
    BY DEF vars
  <2>3. QED
    BY <1>1, <1>2, <1>3, <2>1, <2>2 DEF Next

\* The newest proposal of a draft is never superseded by an older one
\* (repositories/actions.py:106-181).
LEMMA StandsPreserved == IInv /\ [Next]_vars => OneProposalStands'
<1> SUFFICES ASSUME IInv, [Next]_vars PROVE OneProposalStands'
  OBVIOUS
<1> USE DEF IInv
<1>1. CASE UNCHANGED <<verdict, superseder>>
  BY <1>1 DEF OneProposalStands, Exists
<1>2. ASSUME NEW q \in Propose, InsertProposal(q) PROVE OneProposalStands'
  <2> DEFINE k == askFor[q]
  <2>1. k \in Proposal /\ askPriors[q] \subseteq Siblings(k) /\ askVerdict[q] # "NONE"
        /\ verdict[k] = "NONE"
    BY <1>2 DEF InsertProposal, ProposalsAreSound, Exists
  <2>2. verdict' = [verdict EXCEPT ![k] = askVerdict[q]]
        /\ \A j \in Proposal : superseder'[j] = IF j \in askPriors[q] THEN k ELSE superseder[j]
    BY <1>2 DEF InsertProposal
  <2>3. verdict'[k] # "NONE" /\ superseder'[k] = Nil
    BY <2>1, <2>2 DEF Exists, TypeOK, Siblings, ProposalsAreSound
  <2>4. SUFFICES ASSUME NEW j \in Proposal, Exists(j)'
                 PROVE  \E i \in Siblings(j) \union {j} : verdict'[i] # "NONE" /\ superseder'[i] = Nil
    BY DEF OneProposalStands, Siblings, Exists
  <2>5. CASE j[1] = k[1]
    BY <2>1, <2>3, <2>5 DEF Siblings
  <2>6. CASE j[1] # k[1]
    <3>1. Exists(j)
      BY <2>1, <2>2, <2>4, <2>6 DEF Exists, TypeOK
    <3>2. PICK i \in Siblings(j) \union {j} : Exists(i) /\ superseder[i] = Nil
      BY <3>1 DEF OneProposalStands
    <3>3. i \in Proposal /\ i[1] = j[1] /\ i # k /\ i \notin askPriors[q]
      BY <2>1, <2>6 DEF Siblings
    <3>4. verdict'[i] # "NONE" /\ superseder'[i] = Nil
      BY <2>1, <2>2, <3>2, <3>3 DEF Exists, TypeOK
    <3>5. QED
      BY <3>2, <3>4
  <2>7. QED
    BY <2>5, <2>6
<1>3. QED
  <2>1. World \/ Connecting \/ (\E x \in Execute : Call(x)) => UNCHANGED <<verdict, superseder>>
    BY DEF World, ReadinessChanges, AddressBarred, AllowanceChanges, Connecting, Connect,
           ConsumeState, FlowEnds, UpsertConnection, Disconnect, Call, Arrive, ReadApproval,
           ReadSender, EvaluatePolicy, BuildProvider, Claim, Dispatch, DispatchFails, proposalVars
  <2>2. ASSUME NEW q \in Propose, Ask(q)
        PROVE  InsertProposal(q) \/ UNCHANGED <<verdict, superseder>>
    BY <2>2 DEF Ask, AskSender, AskPolicy, FindProposal, InsertCollides, proposalVars
  <2>3. ASSUME NEW k \in Proposal, Approve(k) \/ Reject(k) PROVE UNCHANGED <<verdict, superseder>>
    BY <2>3 DEF Approve, Reject
  <2>4. UNCHANGED vars => UNCHANGED <<verdict, superseder>>
    BY DEF vars, proposalVars
  <2>5. QED
    BY <1>1, <1>2, <2>1, <2>2, <2>3, <2>4 DEF Next

-----------------------------------------------------------------------------

\* What a call has seen stays seen: no step takes anything from what a call about
\* a proposal has met (routers/actions.py:608-722).
LEMMA GatesPreserved == IInv /\ [Next]_vars => GatesWereMet'
<1> SUFFICES ASSUME IInv, [Next]_vars PROVE GatesWereMet'
  OBVIOUS
<1> USE DEF IInv
<1>1. CASE UNCHANGED <<connection, decision, verdict, barred, pc, about, sent, history>>
  BY <1>1 DEF GatesWereMet, Arrived, Passed, history
<1>2. ASSUME NEW a \in Address, AddressBarred(a) PROVE GatesWereMet'
  BY <1>2 DEF AddressBarred, GatesWereMet, Arrived, Passed, connectVars, proposalVars, callVars,
              sendVars, history
<1>3. CASE Disconnect
  BY <1>3 DEF Disconnect, GatesWereMet, Arrived, Passed, worldVars, proposalVars, callVars,
              sendVars, history
<1>4. ASSUME NEW f \in Flow, NEW a \in Account, UpsertConnection(f, a) PROVE GatesWereMet'
  <2>1. ASSUME NEW x \in Execute
        PROVE  /\ met[x] \subseteq met'[x]
               /\ pc[x] \notin {"idle", "done"} /\ Sender(about[x]) = a => "sender" \in met'[x]
    BY <1>4 DEF UpsertConnection, OpenCalls, TypeOK
  <2>2. connection' = a /\ UNCHANGED <<decision, verdict, barred, pc, about, sent, barredThen>>
    BY <1>4 DEF UpsertConnection, worldVars, proposalVars, callVars, sendVars
  <2>3. QED
    BY <2>1, <2>2 DEF GatesWereMet, Arrived, Passed
<1>5. ASSUME NEW q \in Propose, InsertProposal(q) PROVE GatesWereMet'
  <2>1. ASSUME NEW j \in Proposal, verdict[j] = "ELIGIBLE" PROVE verdict'[j] = "ELIGIBLE"
    BY <1>5, <2>1 DEF InsertProposal, Exists, TypeOK
  <2>2. UNCHANGED <<connection, decision, barred, pc, about, sent, history>>
    BY <1>5 DEF InsertProposal, connectVars, worldVars, callVars, sendVars
  <2>3. ASSUME NEW x \in Execute, Passed(x, "approval") PROVE about[x] \in Proposal
    BY <2>3 DEF GatesWereMet, Arrived, Passed
  <2>4. QED
    BY <2>1, <2>2, <2>3 DEF GatesWereMet, Arrived, Passed, history
<1>6. ASSUME NEW k \in Proposal, Approve(k) PROVE GatesWereMet'
  <2>1. ASSUME NEW x \in Execute
        PROVE  /\ met[x] \subseteq met'[x]
               /\ pc[x] \notin {"idle", "done"} /\ about[x] = k => "approval" \in met'[x]
               /\ about[x] # k => decision'[about[x]] = decision[about[x]]
    BY <1>6 DEF Approve, TypeOK
  <2>2. UNCHANGED <<connection, verdict, barred, pc, about, sent, barredThen>>
    BY <1>6 DEF Approve, connectVars, worldVars, callVars, sendVars
  <2>3. QED
    BY <2>1, <2>2 DEF GatesWereMet, Arrived, Passed
<1>7. ASSUME NEW k \in Proposal, Reject(k) PROVE GatesWereMet'
  <2>1. ASSUME NEW x \in Execute, decision'[about[x]] = "APPROVED"
        PROVE  decision[about[x]] = "APPROVED"
    BY <1>7, <2>1 DEF Reject, TypeOK
  <2>2. UNCHANGED <<connection, verdict, barred, pc, about, sent, history>>
    BY <1>7 DEF Reject, connectVars, worldVars, callVars, sendVars
  <2>3. QED
    BY <2>1, <2>2 DEF GatesWereMet, Arrived, Passed, history
<1>8. ASSUME NEW x \in Execute, Call(x) PROVE GatesWereMet'
  <2>1. UNCHANGED <<connection, decision, verdict, barred>>
    BY <1>8 DEF Call, Arrive, ReadApproval, ReadSender, EvaluatePolicy, BuildProvider, Claim,
                Dispatch, DispatchFails, connectVars, worldVars, proposalVars
  <2>2. ASSUME NEW k \in Proposal, Arrive(x, k) PROVE GatesWereMet'
    <3>1. x \notin sent
      BY <2>2 DEF Arrive, GatesWereMet
    <3>2. /\ about'[x] = k /\ pc'[x] = "approval" /\ barredThen'[x] = barred
          /\ decision[k] = "APPROVED" => "approval" \in met'[x]
          /\ connection = Sender(k) => "sender" \in met'[x]
          /\ sent' = sent
      BY <2>2 DEF Arrive, Goto, TypeOK, sendVars
    <3>3. ASSUME NEW y \in Execute, y # x
          PROVE  about'[y] = about[y] /\ pc'[y] = pc[y] /\ met'[y] = met[y]
                 /\ barredThen'[y] = barredThen[y]
      BY <2>2, <3>3 DEF Arrive, Goto, TypeOK
    <3>4. QED
      BY <2>1, <3>1, <3>2, <3>3 DEF GatesWereMet, Arrived, Passed
  <2>3. ASSUME NEW label, pc[x] # "idle", pc[x] # "done", Goto(x, label), label # "idle",
               UNCHANGED <<about, sent, history>>,
               label \in {"sender", "policy", "provider", "claim", "dispatch"}
                   => "approval" \in met[x] /\ verdict[about[x]] = "ELIGIBLE",
               label \in {"policy", "provider", "claim", "dispatch"} => "sender" \in met[x],
               label \in {"provider", "claim", "dispatch"}
                   => Recipient(about[x]) \notin barredThen[x]
        PROVE  GatesWereMet'
    <3>1. pc'[x] = label /\ \A y \in Execute : y # x => pc'[y] = pc[y]
      BY <2>3 DEF Goto, TypeOK
    <3>2. QED
      BY <2>1, <2>3, <3>1 DEF GatesWereMet, Arrived, Passed, history
  <2>4. CASE ReadApproval(x)
    <3>1. about[x] \in Proposal /\ (decision[about[x]] = "APPROVED"
             => "approval" \in met[x] /\ verdict[about[x]] = "ELIGIBLE")
      BY <2>4 DEF ReadApproval, GatesWereMet, Arrived, ProposalsAreSound
    <3>2. QED
      BY <2>3, <2>4, <3>1 DEF ReadApproval, Proceed, sendVars
  <2>5. CASE ReadSender(x)
    <3>1. "approval" \in met[x] /\ verdict[about[x]] = "ELIGIBLE"
          /\ (connection # Nil /\ connection = Sender(about[x]) => "sender" \in met[x])
      BY <2>5 DEF ReadSender, GatesWereMet, Arrived, Passed
    <3>2. QED
      BY <2>3, <2>5, <3>1 DEF ReadSender, Proceed, sendVars
  <2>6. CASE EvaluatePolicy(x)
    <3>1. "approval" \in met[x] /\ verdict[about[x]] = "ELIGIBLE" /\ "sender" \in met[x]
          /\ barredThen[x] \subseteq barred
      BY <2>6 DEF EvaluatePolicy, GatesWereMet, Arrived, Passed
    <3>2. PolicyPasses(about[x], Sender(about[x]), about[x]) => Recipient(about[x]) \notin barred
      BY DEF PolicyPasses
    <3>3. QED
      BY <2>3, <2>6, <3>1, <3>2 DEF EvaluatePolicy, Proceed, sendVars
  <2>7. ASSUME BuildProvider(x) \/ Claim(x) \/ DispatchFails(x) PROVE GatesWereMet'
    <3>1. "approval" \in met[x] /\ verdict[about[x]] = "ELIGIBLE" /\ "sender" \in met[x]
          /\ Recipient(about[x]) \notin barredThen[x]
      BY <2>7 DEF BuildProvider, Claim, DispatchFails, GatesWereMet, Passed
    <3>2. QED
      BY <2>3, <2>7, <3>1 DEF BuildProvider, Claim, DispatchFails, Proceed, sendVars
  <2>8. CASE Dispatch(x)
    <3>1. "approval" \in met[x] /\ verdict[about[x]] = "ELIGIBLE" /\ "sender" \in met[x]
          /\ Recipient(about[x]) \notin barredThen[x]
      BY <2>8 DEF Dispatch, GatesWereMet, Passed
    <3>2. /\ sent' = sent \union {x} /\ pc'[x] = "done"
          /\ \A y \in Execute : y # x => pc'[y] = pc[y]
          /\ UNCHANGED <<about, history>>
      BY <2>8 DEF Dispatch, Goto, TypeOK
    <3>3. QED
      BY <2>1, <2>8, <3>1, <3>2 DEF Dispatch, GatesWereMet, Arrived, Passed, history
  <2>9. QED
    BY <1>8, <2>2, <2>4, <2>5, <2>6, <2>7, <2>8 DEF Call
<1>9. QED
  <2> DEFINE quiet == UNCHANGED <<connection, decision, verdict, barred, pc, about, sent, history>>
  <2>1. ASSUME NEW d \in Draft, ReadinessChanges(d) PROVE quiet
    BY <2>1 DEF ReadinessChanges, connectVars, proposalVars, callVars, sendVars
  <2>2. AllowanceChanges => quiet
    BY DEF AllowanceChanges, connectVars, proposalVars, callVars, sendVars
  <2>3. ASSUME NEW f \in Flow, Connect(f) \/ ConsumeState(f) \/ FlowEnds(f) PROVE quiet
    BY <2>3 DEF Connect, ConsumeState, FlowEnds, worldVars, proposalVars, callVars, sendVars
  <2>4. ASSUME NEW q \in Propose, Ask(q) PROVE InsertProposal(q) \/ quiet
    BY <2>4 DEF Ask, AskSender, AskPolicy, FindProposal, InsertCollides, connectVars, worldVars,
                proposalVars, callVars, sendVars
  <2>5. UNCHANGED vars => quiet
    BY DEF vars, connectVars, worldVars, proposalVars, callVars, sendVars
  <2>6. QED
    BY <1>1, <1>2, <1>3, <1>4, <1>5, <1>6, <1>7, <1>8, <2>1, <2>2, <2>3, <2>4, <2>5
       DEF Next, World, Connecting

-----------------------------------------------------------------------------

\* Types, sound proposals, gates that were met and a proposal that stands carry
\* through every step (repositories/actions.py:106-181, routers/actions.py:608-722).
THEOREM Inductive == Spec => []IInv
<1>1. IInv /\ [Next]_vars => IInv'
  BY TypesPreserved, ProposalsPreserved, GatesPreserved, StandsPreserved DEF IInv
<1>2. QED
  BY InitInvariant, <1>1, PTL DEF Spec

\* Every variable keeps its type.
THEOREM TypeCorrect == Spec => []TypeOK
<1>1. IInv => TypeOK
  BY DEF IInv
<1>2. QED
  BY Inductive, <1>1, PTL

\* A message goes out only for an ELIGIBLE proposal, approved at some moment of the
\* call, whose account was the connected one at some moment of it (routers/actions.py:608-722).
THEOREM SentWasAuthorisedHolds == Spec => []SentWasAuthorised
<1>1. IInv => SentWasAuthorised
  <2> SUFFICES ASSUME IInv, NEW x \in sent
               PROVE  verdict[about[x]] = "ELIGIBLE" /\ met[x] = {"approval", "sender"}
    BY DEF SentWasAuthorised
  <2>1. x \in Execute /\ met[x] \subseteq {"approval", "sender"}
    BY DEF IInv, TypeOK
  <2>2. verdict[about[x]] = "ELIGIBLE" /\ "approval" \in met[x] /\ "sender" \in met[x]
    BY <2>1 DEF IInv, GatesWereMet, Passed
  <2>3. QED
    BY <2>1, <2>2
<1>2. QED
  BY Inductive, <1>1, PTL

\* An execute call writes to no address that was restricted when it arrived
\* (routers/actions.py:225-241, action_policy.py:318).
THEOREM RestrictedBeforeIsNotSentHolds == Spec => []RestrictedBeforeIsNotSent
<1>1. IInv => RestrictedBeforeIsNotSent
  BY DEF IInv, TypeOK, GatesWereMet, Passed, RestrictedBeforeIsNotSent
<1>2. QED
  BY Inductive, <1>1, PTL

\* Among the proposals of a draft one is not superseded (repositories/actions.py:106-181).
THEOREM OneProposalStandsHolds == Spec => []OneProposalStands
<1>1. IInv => OneProposalStands
  BY DEF IInv
<1>2. QED
  BY Inductive, <1>1, PTL
=============================================================================
