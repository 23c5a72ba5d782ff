\* Checks on two days.
SPECIFICATION Spec
CONSTANTS
    Missing = Missing
    Unreadable = Unreadable
    Agent = Agent
    Operator = Operator
    Procs = {Agent}
    Ops <- OpsCheckOnly
    Cuts = {}
    Faults = {}
    MaxDay = 2
INVARIANTS
    SoftHaltToday
