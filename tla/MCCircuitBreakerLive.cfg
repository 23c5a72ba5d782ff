\* Every operation one after the other, checks that run to their end; liveness.
SPECIFICATION FairSpec
CONSTANTS
    Missing = Missing
    Unreadable = Unreadable
    Agent = Agent
    Operator = Operator
    Procs = {Agent}
    Ops <- OpsInTurn
    Cuts = {"drill", "reset", "enter"}
    Faults = {}
    MaxDay = 2
INVARIANTS
    TripHolds
    FailClosedBlocks
    FlattenNotLost

    
