CONSTANTS
    j1 = j1
    j2 = j2
    w1 = w1
    w2 = w2
    e1 = e1
    e2 = e2
    r1 = r1
    r2 = r2
    NoJob = NoJob
    NoTarget = NoTarget
    Jobs <- TwoJobs
    Caching <- CachedJob
    Unhandled <- PlainJob
    Workers <- OneWorker
    Concurrency = 2
    EnqueueRequests <- TwoEnqueues
    RetryRequests <- OneRetry
    Budgets <- OneOrTwo
    Results <- OneOrTwo
    SweeperBatchSize = 1
    Faults <- EveryFault
    MaxFaults = 1
SPECIFICATION FairSpec
INVARIANTS
    SystemTypeOK
    CountKeepsCap
    OneCreatorPerKey
PROPERTIES
    ImplementsTable
    EventuallySettled
