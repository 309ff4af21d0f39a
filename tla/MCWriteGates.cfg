SPECIFICATION FairSpec
CONSTANTS
    a = a
    b = b
    d1 = d1
    d2 = d2
    Items = {a, b}
    Orders <- MCOrders
    Dispatchers = {d1, d2}
    StaleAfter = 1
    MaxApprovals = 2
    MaxDispatches = 2
INVARIANTS
    EffectsWithinApprovals
    RecordMatchesProvider
PROPERTIES
    DispatchesSettle
CHECK_DEADLOCK FALSE
