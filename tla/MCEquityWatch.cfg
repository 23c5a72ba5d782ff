\* From 100, an equity of 97 is a material losing day but no more, 95 a soft
\* halt (95 after 97 by the streak alone), 77 after 95 a hard halt, and 77
\* after 97 or 100 the flatten level.  A day may pass between any two steps.
SPECIFICATION Spec
CONSTANTS
    Missing = Missing
    Unreadable = Unreadable
    Equities = {0, 77, 95, 97, 100}
    Marks = {97}
    MaxDay = 4
    MaxSnapshots = 4
    L1Loss = 400
    L2Drawdown = 600
    L3Drawdown = 2000
    StreakMinLoss = 100
    LosingDaysHalt = 2
INVARIANTS
    TypeOK
    FlattenHasItsDrawdown
    DrawdownClosesGate
PROPERTIES
    VerdictIsTheLosses
    AnswerAgreesWithGate
