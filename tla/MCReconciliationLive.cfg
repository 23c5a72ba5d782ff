\* A careful agent; lookups and passes fail any number of times, operators backfill.
SPECIFICATION FairSpec
CONSTANTS
    A = A
    Tickers = {A}
    MaxOrders = 3
    Faults = {"lookup", "raise"}
    Habits = {"repair"}
INVARIANTS
    ExitsStayInView
PROPERTIES
    SettlesOrAges
    ExitsReachJournal
    FillsDecomposed
