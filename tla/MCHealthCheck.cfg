\* Every call may fail.  The call returns once, so the run may end.
SPECIFICATION FairHealthSpec
CONSTANTS
    A = A
    B = B
    stopA = stopA
    buyStopA = buyStopA
    buyB = buyB
    stopB = stopB
    Tickers = {A, B}
    Orders = {stopA, buyStopA, buyB, stopB}
    Stops = {stopA, stopB, buyStopA}
    TickerOf <- MCTickerOf
    SideOf <- MCSideOf
    Faults = {"orders", "cancel", "wait", "positions", "close", "journal"}
INVARIANTS
    TypeOK
    NothingLeftUnsaid
    CancelsSettleFirst
    ClosesAccounted
    HealthTypeOK
    CleanRunMeansCovered
    RemediationAudited
PROPERTIES
    FlattenReturns
    CleanReportMeansFlat
    NakedIsAnswered
