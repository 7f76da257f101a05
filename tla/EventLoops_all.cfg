SPECIFICATION LoopsSpec
CONSTANTS
    Room = 1
    PipeSize = 2
    Slots = 2
    Loads <- SomeLoads
    BufSize = 3
    MaxUnits = 5
    Requests = {2, 3, 4}
INVARIANTS
    ConnectionMemory
    ProxyComplete
    EchoSound
PROPERTIES
    ProxyProgress
    EchoProgress
CHECK_DEADLOCK FALSE
