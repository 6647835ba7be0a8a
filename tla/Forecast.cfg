SPECIFICATION MCSpec
CONSTANTS
    a1 = a1
    i1 = i1
    i2 = i2
    i3 = i3
    i4 = i4
    i5 = i5
    i6 = i6
    Items = {i1, i2, i3, i4, i5, i6}
    Aircraft = {a1}
    KindOf <- MCKindOf
    FirstDay <- MCFirstDay
    LastDay = 1
    Intervals = {1}
    DueDays = 1
    SoonWindow = 1
    Horizons = {1}
    MaxHours = 2
    PageLimit <- MCPageLimit
    StatusLimit = 1
    NoDue = NoDue
    NoHours = NoHours
    AnyCraft = AnyCraft
INVARIANTS  ViewsAgree
CONSTRAINT Reading
CHECK_DEADLOCK FALSE
SYMMETRY MCSymmetry
