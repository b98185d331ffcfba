SPECIFICATION DiskSpec
CONSTANTS
    RingSize = 4
    MaxVec = 2
    MaxReq = 4
    MaxStarts = 2
    L1Size = 3
    L2Size = 1
    CacheSize = 2
    CountMax = 2
    ClusterSectors = 2
    Values = {1}
    QcowFaults = {"data", "l1", "l2_new", "l2_load", "extend", "l2_entry"}
    Base = base_data
    MaxUnits = 8
CHECK_DEADLOCK FALSE
INVARIANTS ChannelSafe ImageSound
PROPERTIES ImplementsChannel
