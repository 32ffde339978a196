\* Clients that hang up, idle connections, reused descriptors and the limits.
CONSTANTS
    Clients = {c1, c2}
    Workers = {w1}
    None = None
    Fds = {1, 2}
    MAX_CONNECTIONS = 1
    MAX_REQUEST_SIZE = 1
    MaxRequests = 1
    Chunks = 2
    Shapes = {"whole", "splitHead", "malformed"}
    Env = {"fin", "reset", "idle"}
SPECIFICATION FairSpec
INVARIANTS
    TypeOK
    ResponsesInOrder
    TableConsistent
PROPERTIES
    EventsStayFresh
    AbandonedReclaimed
