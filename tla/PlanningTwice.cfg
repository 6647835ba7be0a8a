SPECIFICATION PlanSpec
CONSTANTS
    c1 = c1
    k1 = k1
    k2 = k2
    g1 = g1
    g2 = g2
    t1 = t1
    l1 = l1
    l2 = l2
    q1 = q1
    q2 = q2
    Tools = {t1}
    Packages = {k1, k2}
    Planners = {g1, g2}
    Lines = {l1, l2}
    ToolOf <- MCToolOf
    PartOf <- MCPartOf
    MaxDay = 1
    SoonDays = 1
    MaxLoans = 1
    Checks = {c1}
    Program = {c1}
    Parts = {q1, q2}
    KnownParts = {q1}
    MaxCards = 2
    MaxShelf = 1
    NoTool = NoTool
    NoDate = NoDate
    Nobody = Nobody
    NoLine = NoLine
    NoPart = NoPart
    NoPackage = NoPackage
    NoCheck = NoCheck
INVARIANT PlannedOnce
CONSTRAINTS Tended WholeProgram FewBookings
CHECK_DEADLOCK FALSE
SYMMETRY MCSymmetry
