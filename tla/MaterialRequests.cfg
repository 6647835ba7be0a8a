SPECIFICATION MRSpec
CONSTANTS
    m1 = m1
    m2 = m2
    p1 = p1
    p2 = p2
    l1 = l1
    l2 = l2
    Requests = {m1}
    Parts = {p1, p2}
    Places = {l1, l2}
    Pieces = {1, 2}
    MaxLines = 2
    MaxStock = 3
    MaxRows = 3
    Nothing = Nothing
INVARIANTS HeldIsPromised NothingLost 
PROPERTIES ImplementsFlow
CONSTRAINTS UntilRaced OneByHand
CHECK_DEADLOCK FALSE
SYMMETRY MCSymmetry
