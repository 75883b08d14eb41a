SPECIFICATION Spec
CONSTANTS
    c1 = c1
    c2 = c2
    w1 = w1
    None = None
    Request = Request
    Presses = {c1, c2}
    Strangers = {}
    OneTimes = {TRUE}
    OpenLease = 2
    HandlerBudget = 1
    DenialWindow = 3
    DeleteDelays = {1, 2}
    Workers = {w1}
    PublishLease = 2
    PublisherBudget = 1
    RetryDelays = {1}
    ExpiryTimes = {4}
    RetentionGap = 1
    Faults = {"crash"}
    MaxClock = 5
SYMMETRY RecipientSymmetry
CHECK_DEADLOCK FALSE
INVARIANTS
    SecretNeedsEnvelope
PROPERTIES
    ImplementsOpening
    ImplementsPublication
