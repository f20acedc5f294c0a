CONSTANTS
    r1 = r1  r2 = r2  e1 = e1  e2 = e2  e3 = e3  NoOne = NoOne
    Run = {r1}
    Executor = {e1}
    HeartbeatInterval = 1
    StaleThreshold = 2
    ReaperInterval = 1
    Timely = TRUE
    Faults = {"heartbeat"}
    MaxProgress = 0
SPECIFICATION Spec
PROPERTIES LiveRunKeepsLease
