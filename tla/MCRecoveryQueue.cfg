CONSTANTS
    w1 = w1
    w2 = w2
    j1 = j1
    j2 = j2
    Worker <- MCWorker
    Job <- MCJob
    AttemptLimit = 2
    ClaimLimit = 2
    Lease = 1
    RetryDelay <- MCRetryDelay
    MaxSkew = 1
    MaxLag = 1
    Skew <- MCSkew
    MaxFaults = 1
    NoWorker = NoWorker
    NoJob = NoJob
SYMMETRY Symmetry
SPECIFICATION Spec
CHECK_DEADLOCK FALSE
INVARIANTS
    TypeOK
    BoundedProcessing
    UnstartedJobsKeepBudget
    ClaimsALeaseApart
PROPERTIES
    ClaimsAreFenced
    ImplementsLedger
