\* A drill on a file that turned unreadable.
SPECIFICATION Spec
CONSTANTS
    Missing = Missing
    Unreadable = Unreadable
    Agent = Agent
    Operator = Operator
    Procs = {Agent}
    Ops <- OpsInTurn
    Cuts = {}
    Faults = {"corrupt"}
    MaxDay = 1
INVARIANTS
    TripHolds
