SPECIFICATION Spec
CONSTANTS
    r1 = r1
    r2 = r2
    r3 = r3
    Requests <- ThreeRequests
    Delays <- ShortAndLong
    MaxTime = 3
    MaxGeneration = 2
VIEW View
SYMMETRY Symmetry
INVARIANTS
    ReleasesAreSerial
    CooldownRemembered
    CooldownHonoured
