CONSTANTS
    r1 = r1
    Run = {r1}
    Watched = r1
    MaxReconnects = 1
    MaxLog = 4
SPECIFICATION FairSpec
INVARIANTS ViewIsExact NoEarlyClose
PROPERTIES FollowingEnds
