SPECIFICATION Safety
CONSTANTS
    Workers = {w1}
    Home = w1
    None = none
    PacketLen = 1
    MaxSend = 3
    Room = 1
    WLimit = 2
    WqCap = 1
    GqCap = 1
    Hangups = {}
INVARIANTS
    BusySection
CHECK_DEADLOCK FALSE
