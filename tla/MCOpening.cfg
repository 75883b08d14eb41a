SPECIFICATION Spec
CONSTANTS
    c1 = c1
    c2 = c2
    s1 = s1
    None = None
    Presses = {c1, c2, s1}
    Strangers = {s1}
    OneTimes = {TRUE, FALSE}
    ExpiryTimes = {4}
    RetentionGap = 1
    OpenLease = 2
    HandlerBudget = 1
    DenialWindow = 3
    DeleteDelays = {1}
    Faults = {"crash", "lost_reply"}
    MaxClock = 5
SYMMETRY RecipientSymmetry
CHECK_DEADLOCK FALSE
INVARIANTS
    IndInv
    AcceptedIsRecorded
    AnswersAreTrue
    OneMessage
