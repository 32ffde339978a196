\* Two clients with a request each, both signals, a rate limit.
\* The process may end or be blocked for ever in its own handler.
CONSTANTS
    Clients = {c1, c2}
    Signals = {SIGINT, SIGTERM}
    enabled_ = TRUE
    None = None
SPECIFICATION Spec
CHECK_DEADLOCK FALSE
INVARIANTS
    TypeOK
    DrainedBeforeClose
    EndsWell
PROPERTIES
    StopCompletes
