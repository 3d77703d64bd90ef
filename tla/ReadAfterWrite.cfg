SPECIFICATION RawSpec
CONSTANTS
    Callers = {c1, c2}
    Keys = {k1}
    Entries = {e1, e2, e3}
    NoEntry = NoEntry
    MaxEntries = 1
    MaxVersion = 2
    Writers = {w1, w2}
VIEW View
SYMMETRY Symmetry
PROPERTIES ReadsSeeSettledWrites ImplementsRegister
CHECK_DEADLOCK FALSE
