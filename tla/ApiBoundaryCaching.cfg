\* As ApiBoundary.cfg, for what ADR 0009 says of every response.
CONSTANTS
    r1 = r1
    r2 = r2
    reader = reader
    writer = writer
    canceler = canceler
    monitor = monitor
    Requests = {r1, r2}
    Principals = {reader, writer, canceler, monitor}
    ScopesOf <- Granted
    Limit = 2
    MaxChunk = 2
    None = None
SPECIFICATION Spec
SYMMETRY Interchangeable
CHECK_DEADLOCK FALSE
INVARIANTS
    ResponsesAreUncacheable
