\* Nothing fails; a stop fills and is reconciled.
SPECIFICATION Spec
CONSTANTS
    A = A
    Tickers = {A}
    MaxOrders = 2
    Faults = {}
    Habits = {}
INVARIANTS
    EventTimeKept
