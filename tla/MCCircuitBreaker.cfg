\* Checks and resets that overlap, each cut off anywhere, on a file that may turn unreadable.
SPECIFICATION Spec
CONSTANTS
    Missing = Missing
    Unreadable = Unreadable
    Agent = Agent
    Operator = Operator
    Procs = {Agent, Operator}
    Ops <- OpsOverlapping
    Cuts = {"check", "drill", "reset", "enter"}
    Faults = {"corrupt"}
    MaxDay = 2
INVARIANTS
    TypeOK
    TripHolds
    FailClosedBlocks
    AuditTrail
PROPERTIES
    SoftHaltLastsTheDay
VIEW TellingState
