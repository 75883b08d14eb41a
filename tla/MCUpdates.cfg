CONSTANTS
    Last = 2
    Transports = {"polling", "webhook"}
    Workers = {w1, w2}
    Poller = w1
    Lease = 2
    Budgets <- MCBudgets
    MaxAttempts = 2
    Faults = {"database", "lost_reply", "new_build"}
    MaxCrashes = 1
SPECIFICATION FairSpec
INVARIANTS ExclusiveHandling NoDuplicateCommits NothingSkipped
PROPERTIES ProcessedIsFinal StreamFlows
