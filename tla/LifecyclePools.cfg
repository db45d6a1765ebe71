CONSTANTS
    Requests = {r1, r2, r3}
    Threads = 2
    Connections = 2
    Rows = {x1}
    Kinds = {"service", "healthz", "readyz"}
    NoRow = NoRow
    NoRequest = NoRequest
SPECIFICATION FairSpec
INVARIANTS
    TypeOK
    EverythingComesBack
PROPERTIES
    FiveHundredIsOver
    EveryRequestAnswered
