SPECIFICATION FairSpec
CONSTANTS
    None = None
    Stale = Stale
    Processes = {p1, p2, p3}
CHECK_DEADLOCK FALSE
INVARIANTS
    TypeOK
    OneServer
    ServerIsFound
PROPERTIES
    StartSettles
