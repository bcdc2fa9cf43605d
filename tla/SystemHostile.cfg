\* Two processes and three disturbances: what the tables keep, and that the job is
\* settled in the end.
CONSTANTS
    j1 = j1
    j2 = j2
    w1 = w1
    w2 = w2
    e1 = e1
    e2 = e2
    r1 = r1
    r2 = r2
    NoJob = NoJob
    NoTarget = NoTarget
    Jobs <- PlainJob
    Caching = {}
    Unhandled = {}
    Workers <- TwoWorkers
    Concurrency = 1
    EnqueueRequests <- OneEnqueue
    RetryRequests <- OneRetry
    Budgets <- OneOrTwo
    Results <- OneOrTwo
    SweeperBatchSize = 1
    Faults <- EveryFault
    MaxFaults = 3
SPECIFICATION FairSpec
INVARIANTS
    TypeOK
    DeadIffExhausted
    OrphansRecoverable
    SucceededHasOutput
    ClaimsWithinBudget
PROPERTIES
    DeadLeavesOnlyByRetry
    OutputWriteOnce
    EventuallySettled
