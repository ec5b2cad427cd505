\* One process: a page that ends inside a ledger RPC then drops.
CONSTANTS
    Procs = {i1}
    Modes = {"run", "seed"}
    Events <- MCEvents
    Failed <- MCFailed
    PoolEvents <- MCPoolEvents
    Width <- MCWidth
    MaxLedger = 3
    PageSize = 1
    ScanLedgers = 2
    Retention = 2
    Overlap = 1
    SeedIfEmpty = TRUE
    MaxFaults = 0
SPECIFICATION Spec
INVARIANT HandoffSkipsNothing
