\* Two processes whose first transactions on a stream overlap.
CONSTANTS
    Procs = {i1, i2}
    Modes = {"run", "seed"}
    Events <- MCEvents
    Failed <- MCFailed
    PoolEvents <- MCPoolEvents
    Width <- MCWidth
    MaxLedger = 3
    PageSize = 1
    ScanLedgers = 2
    Retention = 2
    Overlap = 1
    SeedIfEmpty = TRUE
    MaxFaults = 1
SPECIFICATION Spec
PROPERTY CheckpointsAdvance
