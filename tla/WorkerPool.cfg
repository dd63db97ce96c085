SPECIFICATION FairShutSpec
CONSTANTS
    Workers = {w1, w2}
    QueueSize = 1
    Tasks = {t1, t2, t3}
    Closers = {c1, c2}
    Callers = {c1}
    NoTask = NoTask
    High = {conn}
    Medium = {pool}
    Low = {log}
    PoolHook = pool
    Late = {log}
INVARIANTS TypeOK TasksConserved CloseWaits HardBarriers
PROPERTY EverySubmitSettled
CHECK_DEADLOCK FALSE
