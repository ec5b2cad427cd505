\* One process: the follower falls behind, and the seed is run again.
CONSTANTS
    Procs = {i1}
    Modes = {"run", "seed"}
    Events <- MCEvents
    Failed <- MCFailed
    PoolEvents <- MCPoolEvents
    Width <- MCWidth
    MaxLedger = 3
    PageSize = 1
    ScanLedgers = 2
    Retention = 1
    Overlap = 1
    SeedIfEmpty = TRUE
    MaxFaults = 1
SPECIFICATION Spec
INVARIANT SeedFillsGap
