\* Two savers of one run, with a power failure at any time.
CONSTANTS
    s1 = s1
    s2 = s2
    s3 = s3
    c1 = c1
    c2 = c2
    Savers = {s1, s2}
    Runs = {r1}
    Contents = {c1, c2}
    None = None
    MaxFiles = 3
    MaxPowerLosses = 1
SPECIFICATION Spec
CHECK_DEADLOCK FALSE
SYMMETRY Interchangeable
INVARIANTS
    ReadsAreWhole
    PromisesAreKept
PROPERTIES
    ImplementsCreateOnce
