\* Two backends that fail and recover, a worker, the health thread, index wrap.
CONSTANTS
    N = 2
    Workers = {w1}
    INT_MAX = 1
    SIZE_MAX = 15
    None = None
    Env = {"ok", "bad", "down"}
SPECIFICATION FairSpec
INVARIANTS
    TypeOK
    AccountingExact
    InRotationMeansSound
    RoundRobinFair
PROPERTIES
    NullOnlyIfAllDown
    Excised
    Recovered
    StopReturns
