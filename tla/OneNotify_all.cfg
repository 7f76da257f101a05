SPECIFICATION NotifySpec
CONSTANTS
    Wakers = {v1, v2, v3}
    None = none
INVARIANTS
    CellGuarded
    ReadyPaid
    ParkedCovered
PROPERTIES
    PulseWakes
