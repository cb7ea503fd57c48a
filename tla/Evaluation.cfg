\* Two cases, two evaluators: every pair of runs against gates of both directions,
\* over the dataset and a slice.  A run may be aborted, and then nothing follows.
CONSTANTS
    accuracy = accuracy
    latency = latency
    sql = sql
    timer = timer
    narrow = narrow
    unused = unused
    Whole = Whole
    Slices = {narrow, unused}
    CaseCount = 2
    SlicesOf <- TwoCases
    Evaluators = {sql, timer}
    MetricsOf <- TwoMetrics
    Values = {0, 2}
    Policies <- GatePolicies
    SmallSample = 2
    Floats <- Coarse
    Largest = 16
    Difference <- Exact
SPECIFICATION Spec
CHECK_DEADLOCK FALSE
INVARIANTS
    FailuresBlockRelease
    
    RegressionHasACause
    DashboardAgrees
    SummariesAgree
