\* Two projects, one with two decisions: every race of a connection and two more user actions.
CONSTANTS
    p1 = p1
    p2 = p2
    d1 = d1
    d2 = d2
    d3 = d3
    g1 = g1
    g2 = g2
    Projects = {p1, p2}
    Decisions = {d1, d2, d3}
    ProjectOf <- TwoProjects
    GatesOf <- TwoGatesOfOne
    FirstGate <- OpensWithG1
    Filters = {"all", "newly_failing"}
    All = "all"
    PageCount = 3
    DisplayLimit = 2
    None = None
    Pending = Pending
    Failed = Failed
    Inconsistent = Inconsistent
    MaxRequests = 5
SPECIFICATION LiveSpec
CHECK_DEADLOCK FALSE
INVARIANTS
    EvidenceBelongsTogether
    LastSelectionIsShown
    NoEvidenceWithoutCredential
PROPERTIES
    LoadingEnds
