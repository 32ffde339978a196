\* One client with a request, one signal.
CONSTANTS
    Clients = {c1}
    Signals = {SIGINT}
    enabled_ = TRUE
    None = None
SPECIFICATION Spec
CHECK_DEADLOCK FALSE
INVARIANTS
    ActiveConnectionsDrained
