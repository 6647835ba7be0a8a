SPECIFICATION InvSpec
CONSTANTS
    l1 = l1
    l2 = l2
    r1 = r1
    r2 = r2
    w1 = w1
    w2 = w2
    t1 = t1
    Locations = {l1, l2}
    Conditions = {"serviceable", "quarantine"}
    Places <- MCPlaces
    Reservations = {r1, r2}
    Transfers = {t1}
    Workers = {w1, w2}
    Nothing = Nothing
    Quantities = {1, 2}
    BulkLines <- MCBulkLines
    MaxOnHand = 2
INVARIANTS InvTypeOK BalancesSound  PromisesCovered 
CONSTRAINTS UntilStale TwoDocuments
CHECK_DEADLOCK FALSE
SYMMETRY MCSymmetry
VIEW MCView
