SPECIFICATION FairSpec
CONSTANTS
    Server = Server
    Poller = Poller
    w1 = w1
    w2 = w2
    q1 = q1
    Workers = {w1, w2}
    Requests = {q1}
    Modes = {"polling", "webhook"}
    MaxSignals = 2
    MaxStarts = 2
CHECK_DEADLOCK FALSE
INVARIANTS
    WorkIsRecordable
    ExitTellsTheTruth
    TransportAgrees
PROPERTIES
    Ends
