SPECIFICATION GoSafety
CONSTANTS
    Workers = {w1, w2}
    Home = w1
    None = none
    PacketLen = 1
    MaxSend = 2
    Room = 1
    WLimit = 1
    WqCap = 1
    GqCap = 1
    Hangups = {}
    Polldesps = {p1, p2}
    EventFd = event_fd
    ListenFd = listen_fd
    RecycleLimit = 1
    MaxBacklog = 1
    Threads = {t1, t2}
    Files = {f1, f2, f3}
    SlotIds = {s1, s2}
    SlotSize = 2
    Nil = nil
INVARIANTS
    GoTypeOK
    ConnectionOwned
    PacketSeen
    PdKept
    SlotsExact
CHECK_DEADLOCK FALSE
