\* Orderly clients: one request at a time, cut before or at the blank line,
\* or not a request at all.
CONSTANTS
    Clients = {c1, c2}
    Workers = {w1, w2}
    None = None
    Fds = {1, 2}
    MAX_CONNECTIONS = 2
    MAX_REQUEST_SIZE = 3
    MaxRequests = 2
    Chunks = 2
    Shapes = {"whole", "splitHead", "malformed"}
    Env = {"close", "limit"}
SPECIFICATION FairSpec
INVARIANTS
    NoDataRace
    ChargedToSender
    ClosedForAReason
    AnnouncedCloseIsKept
PROPERTY RequestsAnswered
