\* wait_order_terminal may raise.
SPECIFICATION Spec
CONSTANTS
    A = A
    B = B
    stopA = stopA
    stopB = stopB
    buyB = buyB
    Tickers = {A, B}
    Orders = {stopA, stopB, buyB}
    TickerOf <- MCTickerOf
    SideOf <- MCSideOf
    Faults = {"wait"}
INVARIANTS
    NeverRaises
CHECK_DEADLOCK FALSE
