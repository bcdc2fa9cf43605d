CONSTANTS
    j1 = j1
    j2 = j2
    w1 = w1
    w2 = w2
    e1 = e1
    e2 = e2
    r1 = r1
    r2 = r2
    NoJob = NoJob
    NoTarget = NoTarget
    Jobs <- OneJob
    Caching <- OneJob
    Unhandled = {}
    Workers <- TwoWorkers
    Concurrency = 1
    EnqueueRequests <- OneEnqueue
    RetryRequests <- OneRetry
    Budgets <- OneOrTwo
    Results <- OneOrTwo
    SweeperBatchSize = 1
    Faults <- Stalls
    MaxFaults = 1
SPECIFICATION Spec
PROPERTIES
    OnlyTheOwnerCompletes
