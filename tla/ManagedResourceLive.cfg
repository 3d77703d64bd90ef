SPECIFICATION FairSpec
CONSTANTS
    v1 = v1
    v2 = v2
    Kinds <- MCKinds
    Values <- MCValues
    Default = v1
    Null = Null
    Unknown = Unknown
    Omitted = Omitted
    Absent = Absent
    MaxObjects = 4
    MaxRetries = 1
    MaxEvents = 2
PROPERTIES Converges
CHECK_DEADLOCK FALSE
