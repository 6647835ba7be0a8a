SPECIFICATION EFSpec
CONSTANTS
    f1 = f1
    c1 = c1
    e1 = e1
    e2 = e2
    e3 = e3
    d1 = d1
    d2 = d2
    w1 = w1
    w2 = w2
    Domain = {f1}
    Calls = {c1}
    Events = {e1, e2, e3}
    Letters = {d1, d2}
    Workers = {w1, w2}
    Nothing = Nothing
    MaxRetries = 2
INVARIANTS DeadLetterIsOpen StoreTellsTruth
PROPERTIES StoreAppendOnly
CHECK_DEADLOCK FALSE
SYMMETRY MCSymmetry
