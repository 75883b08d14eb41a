CONSTANTS
    Last = 3
    u1 = u1
    u2 = u2
    Users = {u1, u2}
    Named = u1
    Nobody = Nobody
    Starts <- MCReuse
    DeleteDelays = {1}
    MaxActive = 2
    MaxRecent = 2
    Window = 2
    TTL = 3
    PreviewTTL = 3
    Retention = 3
    IngestLease = 1
    OpenLease = 2
    SendTime = 1
    MaxAttempts = 1
    MaxClock = 3
    Workers = {1}
    JobLease = 1
    JobTime = 0
    Backoffs = {1}
    MaxTries = 2
SPECIFICATION Spec
INVARIANT EnvelopeLeadsSomewhere
CHECK_DEADLOCK FALSE
