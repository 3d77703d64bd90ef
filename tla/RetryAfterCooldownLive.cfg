SPECIFICATION FairSpec
CONSTANTS
    r1 = r1
    r2 = r2
    r3 = r3
    Requests <- TwoRequests
    Delays <- ShortAndLong
    MaxTime = 4
    MaxGeneration = 1
PROPERTY WaitEnds
