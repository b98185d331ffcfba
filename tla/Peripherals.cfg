SPECIFICATION PeripheralsSpec
CONSTANTS
    d1 = d1
    d2 = d2
    d3 = d3
    d4 = d4
    Devices <- MCDevices
    CellOf <- MCCellOf
    BitOf <- MCBitOf
    Bits <- MCBits
    TopBit = 31
    DmaClients = {c1}
    ProgSize = 2
    DmaOps <- MCDmaOps
    ReqCount = 2
    MaxCmds = 3
    MaxIdent = 3
    AudioThreads = {a1, a2}
    RingFrags = 3
    BufLens = {1, 2}
    SndFormats = {f1, f2}
    MaxStarts = 2
    MaxWrites = 2
    ScsiReqs = {r1, r2}
    CdDrives = {cd}
    MaxAevents = 2
CHECK_DEADLOCK FALSE
INVARIANTS SharersSafe ChannelTrue SoundSafe RequestsSafe
PROPERTIES OnlyOwnerLowers CommandsKept EngineSteps SoundLive ScsiReturns
