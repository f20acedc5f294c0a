CONSTANTS
    p1 = p1  p2 = p2  p3 = p3  k1 = k1  k2 = k2
    Prospect = {p1, p2, p3}
    KeyOf <- Keys
    Reach <- Reaches
    Verdict = {"PASS"}
    Retries <- OneRetry
    MaxConcurrent = 1
SPECIFICATION FairSpec
INVARIANTS CountersAreTheRows ReviewedIsPersisted OneVerdictPerKey DraftsFollowAttempts
PROPERTIES LossIsFinal NobodyOutlivesTheRun RunNeverHangs
