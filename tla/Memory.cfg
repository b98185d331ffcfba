SPECIFICATION MemorySpec
CONSTANTS
    NIL = NIL
    v1 = v1
    Vsids = {v1}
    Addresses <- MCAddresses
    Pages = {p1}
    Pents = {e1, e2}
    PteSlots = {s1, s2}
    Tables = 2
    MaxSwaps = 1
    MaxHeight = 3
    SearchBias = 0
    Keys = {1, 2, 3}
    Chunk = 2
    MaxElems = 4
    PciDevs <- MCPciDevs
    IoPageSize = 2
    IoPages = {1, 2, 3}
    RomValues = {4}
    LowLimit = 0
    KernelLimit = 3
    IoFrames = {f1, f2}
SYMMETRY Symmetry
CHECK_DEADLOCK FALSE
INVARIANTS TableSound SkipListSound AccessesReach
