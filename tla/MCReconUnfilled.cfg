\* An entry is cancelled after a part of it has filled.
SPECIFICATION Spec
CONSTANTS
    A = A
    Tickers = {A}
    MaxOrders = 2
    Faults = {"partial"}
    Habits = {}
INVARIANTS
    UnfilledMeansFlat
