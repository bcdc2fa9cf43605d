CONSTANTS
    j1 = j1
    j2 = j2
    w1 = w1
    w2 = w2
    e1 = e1
    e2 = e2
    r1 = r1
    r2 = r2
    NoJob = NoJob
    NoTarget = NoTarget
    Jobs <- TwoJobs
    Caching <- CachedJob
    Unhandled = {}
    Workers <- TwoWorkers
    Concurrency = 1
    EnqueueRequests <- TwoEnqueues
    RetryRequests <- OneRetry
    Budgets <- OneOrTwo
    Results <- OneOrTwo
    SweeperBatchSize = 1
    Faults <- TimelyFaults
    MaxFaults = 2
SYMMETRY WorkerSymmetry
SPECIFICATION Spec
INVARIANTS
    ExecutionsOwnTheirRow
    SingleExecution
    ClaimsAccounted
    OutputMeansDone
PROPERTIES
    ImplementsLifecycle
