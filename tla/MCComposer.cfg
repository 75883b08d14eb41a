CONSTANTS
    Last = 4
    Starts <- MCStarts
    MaxDrafts = 2
    DraftTTL = 2
    IngestLease = 1
    Window = 1
    MaxRecent = 1
    MaxAttempts = 2
    MaxClock = 2
SPECIFICATION FairSpec
INVARIANTS StoredIffCompleted CopiesAreExplained RateLimit
PROPERTIES DraftWins ComposerIsFreed
CHECK_DEADLOCK FALSE
