SPECIFICATION FairServerSpec
CONSTANTS
    p1 = p1
    p2 = p2
    Proc = {p1, p2}
    MaxConns = 1
    Environments <- Started
INVARIANTS ServerTypeOK CleanExit NothingLeftOpen
PROPERTIES SignalEnds
CHECK_DEADLOCK FALSE
