SPECIFICATION Spec
CONSTANTS
    mechanic = mechanic
    inspector = inspector
    aca = aca
    operator = operator
    reviewer = reviewer
    admin = admin
    t1 = t1
    t2 = t2
    Tasks = {t1}
    Employees = {mechanic, inspector, aca}
    Users = {operator, reviewer, admin}
    Admins = {admin}
    Nobody = Nobody
    InitialStaff <- MCStaff
    MaxVersion = 8
    MaxLog = 3
    MaxChurn = 2
INVARIANTS ChainInOrder DutiesSegregated GateMatchesChain ReleasedMeansCertified LogbookMatchesChain
PROPERTIES LogbookAppendOnly
CHECK_DEADLOCK FALSE
