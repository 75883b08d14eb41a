SPECIFICATION FairSpec
CONSTANTS
    w1 = w1
    w2 = w2
    Request = Request
    Workers = {w1, w2}
    ExpiryTimes <- MCExpiryTimes
    RetentionGap = 1
    PublishLease = 2
    PublisherBudget = 1
    RetryDelays <- MCRetryDelays
    Faults = {"crash", "lost_reply"}
    MaxClock = 6
CHECK_DEADLOCK FALSE
INVARIANTS
    PublishExclusive
    OneEnvelope
    PostedIsTrue
PROPERTIES
    PublishingEnds
