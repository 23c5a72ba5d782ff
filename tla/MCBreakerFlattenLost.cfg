\* A reset that overlaps a check, nothing cut off.
SPECIFICATION Spec
CONSTANTS
    Missing = Missing
    Unreadable = Unreadable
    Agent = Agent
    Operator = Operator
    Procs = {Agent, Operator}
    Ops <- OpsOverlapping
    Cuts = {}
    Faults = {}
    MaxDay = 1
INVARIANTS
    FlattenNotLost
