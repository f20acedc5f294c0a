CONSTANTS
    p1 = p1  p2 = p2  rcpt1 = rcpt1  rcpt2 = rcpt2  a = a  b = b  c = c
    Proposal = {p1, p2}
    Recipient = {rcpt1}
    Request = {a, b}
    RecipientOf <- OneRecipient
    ProposalOf <- OneEach
    StaleLease = 0
    Window = 2
    MaxAttempts = 2
    MaxLookups = 2
    MaxDecisions = 1
SPECIFICATION FairSpec
INVARIANTS AttemptsBounded
PROPERTIES ImplementsSlots EveryClaimSettles
