SPECIFICATION RunSpec
CONSTANTS
    Platforms = {1, 2}
    Stray = 3
    Builds = {1, 2}
    MaxChanges = 2
    MaxRuns = 2
    None = None
INVARIANTS SignedIsVerified StopsHaveCauses PublishedIsVerified SoundDraftsPass
CHECK_DEADLOCK FALSE
