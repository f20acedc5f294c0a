SPECIFICATION MCSpec
CONSTANTS
    MaxTransport = 2
    MaxTries = 2
    Request = {r1, r2}
    Seeds <- OneSeed
    MaxActive = 1
    Allowance = 1
    Day = 0
    Lifetime = 0
    LoginAttempts = 1
    LoginWindow = 0
    MaxNow = 1
    MaxRuns = 3
    MaxDemo = 1
    MaxStarts = 2
    Prospect = {p1}
    Lives <- ProspectLives
    Execution = {x, y, z}
    Nil = Nil
    Limit = 1
    Window = 1
    MaxAttempts = 2
    MaxTime = 4
    Answer <- Texts
    Proposal <- Names
    Extraction <- ThreeNames
    Candidate <- Places
    Candidates <- TwoPlaces
    LabelMatches <- SameLabels
    MaxPlanQueries = 2
    MaxResults = 2
    MaxCompanies = 2
    MaxResolutions = 2
    Order <- TwoQueries
    Page <- Pages
    Refs = {1, 2, 3, 4}
    MaxHits = 2
    Ceiling = 3
    MaxSources = 2
    Extracted <- Replies
    Cases <- VerdictSamples
    None = Nil
    Honorific <- Titles
    Suffix <- Ends
    Letter <- Alphabet
    Contacts <- ContactSamples
INVARIANTS
    AnswersAreRespected
    DiscoveryIsGrounded
    SourcesAreShared
    OneWinnerPerSource
    VerdictIsSound
    MatchIsEvidence
    AdmissionHolds
    OneAccountPerDomain
    ReportIsFaithful
    WindowWithinCap
    PromptWithinTwiceCap
SYMMETRY Interchangeable
CHECK_DEADLOCK FALSE
