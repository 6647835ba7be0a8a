SPECIFICATION MCSpec
CONSTANTS
    mechanic = mechanic
    inspector = inspector
    independent = independent
    aca = aca
    operator = operator
    c1 = c1
    c2 = c2
    o1 = o1
    o2 = o2
    w1 = w1
    w2 = w2
    Tasks = {c1, c2}
    Employees = {mechanic, inspector, independent, aca}
    Users = {operator}
    Admins = {}
    Nobody = Nobody
    InitialStaff <- MCStaff
    MaxVersion = 8
    MaxLog = 1
    MaxChurn = 0
    Orders = {o1}
    OrderOf <- MCOrderOf
    ReqChoices <- MCReqChoices
    CardTargets = {"draft", "assigned", "accepted", "in_progress", "paused", "waiting_parts", "waiting_engineering", "waiting_inspection", "completed", "rejected", "released", "closed"}
    TaskTargets = {"open", "assigned", "started", "paused", "completed", "awaiting_inspection", "awaiting_aca", "released", "closed", "rejected", "cancelled"}
    Workers = {w1, w2}
    NoRequest = NoRequest
INVARIANTS CardGatesCertified ReleasedCardHasEntry OrderShowsWork
PROPERTIES ImplementsCertification
CHECK_DEADLOCK FALSE
SYMMETRY MCSymmetry
