CONSTANTS
    p = p  q = q  a = a  b = b  Nil = Nil
    Prospect = {p, q}
    Address = {a, b}
    Observation <- SharedMailbox
    MaxRetries = 1
SPECIFICATION Spec
INVARIANTS LastKnownGood RestrictionBars
CHECK_DEADLOCK FALSE
