SPECIFICATION Spec
CONSTANTS
    Gors = {g1, g2, g3}
    Callers = {c1, c2}
    Fns = {f1, f2, f3, f4}
    Nil = nil
INVARIANTS
    GorsExact
    FnDelivered
PROPERTIES
    ImplementsTaskPool
CHECK_DEADLOCK FALSE
