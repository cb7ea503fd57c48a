\* Two jobs for a short time, or one job until the end: three attempts, two competing
\* documents and a skewed API clock.
CONSTANTS
    Jobs = {j1, j2}
    Tokens = {t1, t2, t3}
    Documents = {d1, d2}
    NoToken = NoToken
    NoDocument = NoDocument
    MaxAttempts = 3
    LeaseSeconds = 2
    RetryBase = 1
    RetryMax = 2
    RetryDelays = {1, 2}
    ReapLimit = 2
    ClockSkew = 1
    MaxTime = 9
SPECIFICATION Spec
SYMMETRY Symmetry
CONSTRAINT TwoJobsAreShort
CHECK_DEADLOCK FALSE
INVARIANTS
    HistoryExplainsJob
    LeasesDoNotOverlap
    BackoffIsServed
    EvidenceIsTheOwners
    RowsAreAccepted
PROPERTIES
    CancellationWins
    ImplementsLeaseQueue
