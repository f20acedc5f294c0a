CONSTANTS
    r1 = r1  r2 = r2  e1 = e1  e2 = e2  e3 = e3  NoOne = NoOne
    Run = {r1, r2}
    Executor = {e1, e2}
    HeartbeatInterval = 1
    StaleThreshold = 1
    ReaperInterval = 1
    Timely = FALSE
    Faults = {"heartbeat", "reaper"}
    MaxProgress = 0
SPECIFICATION Spec
INVARIANTS StaleIsBounded
PROPERTIES ImplementsRunLog
SYMMETRY Interchangeable
