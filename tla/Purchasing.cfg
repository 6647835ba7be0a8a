SPECIFICATION PurchasingSpec
CONSTANTS
    r1 = r1
    f1 = f1
    f2 = f2
    q1 = q1
    q2 = q2
    o1 = o1
    o2 = o2
    d1 = d1
    d2 = d2
    l1 = l1
    l2 = l2
    PurchaseRequests = {r1}
    Rfqs = {f1, f2}
    Quotes = {q1}
    Orders = {o1, o2}
    Receipts = {d1, d2}
    Lines = {l1, l2}
    Quantities = {1, 2}
    MaxEntries = 2
    None = None
INVARIANTS ReceivedIsDelivered ShelvedOnce 
PROPERTIES ImplementsOrderFlow ClosedReachesMirror
CONSTRAINTS InOrder SmallRequests SortedEntries
CHECK_DEADLOCK FALSE
