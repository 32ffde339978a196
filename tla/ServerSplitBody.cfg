\* A request whose body arrives in a segment of its own.
CONSTANTS
    Clients = {c1}
    Workers = {w1, w2}
    None = None
    Fds = {1, 2}
    MAX_CONNECTIONS = 2
    MAX_REQUEST_SIZE = 3
    MaxRequests = 2
    Chunks = 2
    Shapes = {"splitBody"}
    Env = {"close"}
SPECIFICATION Spec
INVARIANT NoSpuriousBadRequest
