SPECIFICATION Spec
CONSTANTS
    c1 = c1
    c2 = c2
    None = None
    Presses = {c1, c2}
    Strangers = {}
    OneTimes = {TRUE}
    ExpiryTimes = {4}
    RetentionGap = 1
    OpenLease = 2
    HandlerBudget = 1
    DenialWindow = 3
    DeleteDelays = {0, 1}
    Faults = {}
    MaxClock = 5
CHECK_DEADLOCK FALSE
INVARIANTS
    AcceptedIsRecorded
