SPECIFICATION AccessSpec
CONSTANTS
    ann = ann
    olga = olga
    rita = rita
    nils = nils
    p1 = p1
    p2 = p2
    east = east
    west = west
    s1 = s1
    s2 = s2
    a1 = a1
    a2 = a2
    i1 = i1
    w1 = w1
    w2 = w2
    Users = {ann, olga, rita}
    Processes = {p1}
    Organizations = {east, west}
    Sessions = {s1, s2}
    Approvals = {a1, a2}
    Incidents = {i1}
    Workers = {w1, w2}
    Home = east
    None = None
    Gone = Gone
    InitialRoles <- CaseRoles
    GrantChoices <- MCGrants
    RoleChoices <- MCRoles
    Calls <- CaseCalls
    MaxChanges = 1
INVARIANTS ApprovalSpentOnce TwoSignatures
CHECK_DEADLOCK FALSE
SYMMETRY MCSymmetry
