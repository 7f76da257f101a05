SPECIFICATION GoSpec
CONSTANTS
    Workers = {w1, w2}
    Home = w1
    None = none
    PacketLen = 1
    MaxSend = 1
    Room = 1
    WLimit = 2
    WqCap = 1
    GqCap = 1
    Hangups = {"peer", "timer", "login"}
    Polldesps = {p1}
    EventFd = event_fd
    ListenFd = listen_fd
    RecycleLimit = 1
    MaxBacklog = 2
    Threads = {t1}
    Files = {f1}
    SlotIds = {s1}
    SlotSize = 2
    Nil = nil
PROPERTIES
    ConnectionEnds
    AcceptServed
CHECK_DEADLOCK FALSE
