SPECIFICATION FairSpec
CONSTANTS
    ReadRetries = 4
    WriteRetries = 2
CHECK_DEADLOCK FALSE
INVARIANTS
    EffectsAreAsReported
    OutcomesAreTrue
PROPERTIES
    RetriesAreRight
    ObservationsSettle
    RequestReturns
