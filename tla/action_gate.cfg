CONSTANTS
    d = d  e = e  a = a  g = g  h = h  q = q  r = r  x = x  y = y  f1 = f1  f2 = f2  Nil = Nil
    Account = {g, h}
    Draft = {d}
    Address = {a}
    RecipientOf <- OneAddress
    Propose = {q, r}
    Execute = {x, y}
    Flow = {f1}
    MaxApprovals = 1
SPECIFICATION Spec
INVARIANTS SentWasAuthorised RestrictedBeforeIsNotSent OneProposalStands
SYMMETRY Interchangeable
CHECK_DEADLOCK FALSE
