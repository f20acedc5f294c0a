CONSTANTS
    p1 = p1  p2 = p2  rcpt1 = rcpt1  rcpt2 = rcpt2  a = a  b = b  c = c
    Proposal = {p1, p2}
    Recipient = {rcpt1}
    Request = {a, b, c}
    RecipientOf <- OneRecipient
    ProposalOf <- TwoAndOne
    StaleLease = 0
    Window = 1
    MaxAttempts = 1
    MaxLookups = 1
    MaxDecisions = 2
SPECIFICATION Spec
INVARIANTS AtMostOneDelivery FailedIsUndelivered DispatchIsOrdered
