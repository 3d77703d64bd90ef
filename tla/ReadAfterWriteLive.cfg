SPECIFICATION FiniteSpec
CONSTANTS
    Callers = {c1, c2}
    Keys = {k1, k2}
    Entries = {e1, e2, e3, e4}
    NoEntry = NoEntry
    MaxEntries = 1
    MaxVersion = 1
    Writers = {w1}
PROPERTIES GetReturns
CHECK_DEADLOCK FALSE
