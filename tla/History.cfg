\* Jobs in either order of time and groups, three rows at two moments.
CONSTANTS
    l1 = l1
    l2 = l2
    Rows = {1, 2, 3}
    Label <- TwoLabels
    Group <- TwoGroups
    All = All
    Open = Open
    Closed = Closed
    Streams = {"jobs", "suite-decisions", "targets"}
    Limits = {1, 2}
    Nothing = Nothing
    MaxTime = 2
    MaxCursors = 2
SPECIFICATION HistorySpec
CHECK_DEADLOCK FALSE
INVARIANTS
    WalksAreExact
