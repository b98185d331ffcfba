SPECIFICATION DevicesSpec
CONSTANTS
    HostIrqs = {1, 2, 3}
    Noisy = {1, 2}
    Threads = {t1, t2, t3}
    Callers = {c1, c2}
    MaxJobs = 4
    EnetSlots = 2
    EnetPackets = 3
    EnetStarts = 2
    WireSize = 2
    ReplyLen = 2
    CommandLen = 3
    BufferLen = 3
    KeyBufSize = 4
    MaxInput = 2
    MaxTicks = 1
    MaxCommands = 2
CHECK_DEADLOCK FALSE
INVARIANTS HostIrqsAccounted PoolSafe RingsAgree HandshakeSafe
PROPERTIES HostIrqFollows JobsRun PacketsReach DriverRests
