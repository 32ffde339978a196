\* Two callers race a shutdown against two fairly scheduled workers.
CONSTANTS
    Workers = {w1, w2}
    Callers = {c1, c2}
    Tasks = {t1, t2, t3}
    Nobody = Nobody
SPECIFICATION FairSpec
CHECK_DEADLOCK FALSE
INVARIANTS
    TypeOK
    FifoExactlyOnce
    NoLostWakeup
    GracefulDrain
PROPERTIES
    ImplementsTaskPool
    AcceptedTasksRun
    ShutdownReturns
