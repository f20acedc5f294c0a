SPECIFICATION FairSpec
CONSTANTS
    p1 = p1
    p2 = p2
    Prospect = {p1, p2}
    MaxConcurrent = 2
    Queries = 1
    Cap <- Caps
    SoftLimit = 1
    Slots <- OnePermit
    TransportRetries <- Transport
    StepRetries <- Steps
INVARIANTS BudgetsHold PermitsAreKept
PROPERTY EveryProspectEnds
