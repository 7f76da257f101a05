SPECIFICATION Spec
CONSTANTS
    Workers = {w1, w2}
    Callers = {o, c}
    Owner = o
    Tasks = {t1, t2}
    Null = null
    MaxRuns = 2
    MaxSpurious = 1
INVARIANTS
    TasksOwned
    NoLostWakeup
    FreedSafely
PROPERTIES
    ImplementsTaskPool
    WaitReturns
CHECK_DEADLOCK FALSE
