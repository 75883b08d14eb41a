SPECIFICATION FairSpec
CONSTANTS
    c1 = c1
    c2 = c2
    None = None
    Presses = {c1, c2}
    Strangers = {}
    OneTimes = {TRUE, FALSE}
    ExpiryTimes = {3, 9}
    RetentionGap = 1
    OpenLease = 2
    HandlerBudget = 1
    DenialWindow = 3
    DeleteDelays = {1, 2}
    Faults = {"crash", "lost_reply"}
    MaxClock = 4
CHECK_DEADLOCK FALSE
PROPERTIES
    ReservedIsSettled
    ReservationEnds
