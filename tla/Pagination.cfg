SPECIFICATION Spec
CONSTANTS
    LastItem = 4
    MaxPages = 3
    MaxPageBytes = 3
    MaxBytes = 5
    PageBytes = {1, 2, 4}
    MaxRetries = 1
CHECK_DEADLOCK FALSE
INVARIANTS
    SoundListsAreRead
    ReadingIsBounded
