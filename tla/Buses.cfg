SPECIFICATION BusesSpec
CONSTANTS
    Irqs = {i1, i2}
    Devices = {d1, d2}
    BusThreads = {e1, e2}
    BlockSize = 2
    BusCommands <- MCBusCommands
    XferCounts = {1, 2}
    MaxBusEvents = 3
    BulkTds = {b1, b2}
    CtrlTds = {t1, t2, t3}
    MaxQueued = 2
    MaxUsbStops = 1
CHECK_DEADLOCK FALSE
INVARIANTS LineNeverStuck EngineSafe TransferWhole DescriptorsSafe
PROPERTIES BusGoesFree DescriptorsReturn
