SPECIFICATION MainThreadSpec
CONSTANTS
    Irqs = {i1, i2}
    Devices = {}
    PageBytes = 4
    FbModes <- MCFbModes
    FbEas <- MCFbEas
    FbSlots = {s1, s2}
    ReportPairs = 1
    MaxFbWrites = 1
CHECK_DEADLOCK FALSE
INVARIANTS LineAgrees DirtyFound
PROPERTIES RaiseIsDelivered ScreenCatchesUp
