SPECIFICATION Spec
CONSTANTS
    v1 = v1
    v2 = v2
    Kinds <- MCKinds
    Values <- MCValues
    Default = v1
    Null = Null
    Unknown = Unknown
    Omitted = Omitted
    Absent = Absent
    MaxObjects = 3
    MaxRetries = 1
    MaxEvents = 3
INVARIANTS TypeOK NothingIsForgotten OnlyCompatibleIsDeleted StateMirrorsObject ResultsAreConsistent
PROPERTIES LeavesStateOnlyWhenGone ShownOnceIsPreserved
CHECK_DEADLOCK FALSE
