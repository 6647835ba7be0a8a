SPECIFICATION Spec
CONSTANTS
    c1 = c1
    c2 = c2
    a1 = a1
    a2 = a2
    p1 = p1
    r1 = r1
    r2 = r2
    Components = {c1, c2}
    Aircraft = {a1, a2}
    Positions = {p1}
    Requests = {r1, r2}
    Destinations = {"stores", "quarantine"}
    Limits = {1}
    MaxHours = 1
    NoAircraft = NoAircraft
    NoPosition = NoPosition
    NoHours = NoHours
    NoComponent = NoComponent
INVARIANTS OneOccupant HistoryTellsWhere HoursAreFlown
PROPERTY LifeLeftWhenInstalled
CONSTRAINTS ShortLives PlaceTaker
CHECK_DEADLOCK FALSE
SYMMETRY MCSymmetry
