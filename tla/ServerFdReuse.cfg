\* A descriptor is reused while a worker still holds its old owner.
CONSTANTS
    Clients = {c1, c2}
    Workers = {w1}
    None = None
    Fds = {1, 2}
    MAX_CONNECTIONS = 2
    MAX_REQUEST_SIZE = 3
    MaxRequests = 1
    Chunks = 2
    Shapes = {"whole"}
    Env = {"fin"}
SPECIFICATION Spec
INVARIANT ClosedForAReason
