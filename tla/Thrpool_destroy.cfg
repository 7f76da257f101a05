SPECIFICATION Spec
CONSTANTS
    Workers = {w1}
    Callers = {o}
    Owner = o
    Tasks = {t1}
    Null = null
    MaxRuns = 2
    MaxSpurious = 0
PROPERTY DestroyReturns
CHECK_DEADLOCK FALSE
