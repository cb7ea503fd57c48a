\* Two workers, a job of three attempts, and three faults.
CONSTANTS
    Jobs = {j1}
    Tokens = {1, 2, 3}
    Documents = {d1}
    NoToken = 0
    NoDocument = NoDocument
    NoClaim = NoClaim
    MaxAttempts = 3
    ReapLimit = 1
    Workers = {w1, w2}
    MaxFaults = 3
SPECIFICATION FleetSpec
INVARIANTS
    ReportsAreTrue
PROPERTIES
    JobsFailForCause
    EveryJobEnds
    CancellationCompletes
