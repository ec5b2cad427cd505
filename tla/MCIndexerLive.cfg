\* Two instances of the service, as in a rolling deploy; RPC keeps everything.
CONSTANTS
    Procs = {i1, i2}
    Modes = {"run"}
    Events <- MCLiveEvents
    Failed = {}
    PoolEvents <- MCLivePoolEvents
    Width <- MCWidth
    MaxLedger = 3
    PageSize = 1
    ScanLedgers = 1
    Retention = 3
    Overlap = 1
    SeedIfEmpty = TRUE
    MaxFaults = 1
SPECIFICATION FairSpec
PROPERTY EventuallyIndexed
