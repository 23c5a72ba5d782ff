\* Everything may go wrong, the agent re-enters at will, operators backfill.
SPECIFICATION Spec
CONSTANTS
    A = A
    Tickers = {A}
    MaxOrders = 4
    Faults = {"lookup", "raise", "crash", "partial"}
    Habits = {"reenter", "repair"}
INVARIANTS
    TypeOK
    VerdictsAreTheBrokers
    ExitsJournaledOnce
    OpenEntryVisible
    TripsPairTheirEntry
PROPERTIES
    LedgerSpec
