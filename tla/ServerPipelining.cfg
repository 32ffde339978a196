\* A client that pipelines.
CONSTANTS
    Clients = {c1}
    Workers = {w1, w2}
    None = None
    Fds = {1, 2}
    MAX_CONNECTIONS = 2
    MAX_REQUEST_SIZE = 3
    MaxRequests = 2
    Chunks = 2
    Shapes = {"whole"}
    Env = {"pipeline"}
SPECIFICATION Spec
INVARIANT NoDataRace
