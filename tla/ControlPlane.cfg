\* Two API processes, one key and two requests over one suite of one dataset.
CONSTANTS
    d1 = d1
    u1 = u1
    c1 = c1
    c2 = c2
    c3 = c3
    q1 = q1
    q2 = q2
    Processes = {p1, p2}
    Keys = {k1}
    Digests = {q1, q2}
    JobIds = {i1, i2}
    None = None
    Datasets = {d1}
    Suites = {u1}
    Contents = {c1, c2, c3}
    PinOf <- Pins
    Invalid = {c3}
    SuiteOf <- OneSuite
SPECIFICATION PlaneSpec
SYMMETRY Symmetry
INVARIANTS
    ReplayIsNeverRefused
    JobsStandOnRegistry
PROPERTIES
    ImplementsCreateOnce
    RegistryImplementsCreateOnce
