SPECIFICATION MCSpec
CONSTANTS
    Levels = 3
    EmptyLeaf = empty
    RootHistorySize = 3
    AmountBits = 2
    RangeBits = 4
    FieldOrder = 67
    FundedAmount = 3
    Commitments = {a, b}
    Addresses = {a1, a2}
    Blobs = {note}
    PoolContract = pool
    AspContract = allowlist
    Other = other
    NoAddress = nobody
    Accounts = {alice}
    Runs = {r1, r2, r3}
    Short = {r2, r3}
    News = {n1, n2, n3}
INVARIANTS
    NothingLost AcceptedValid DecoderExact IndexerAgrees StorageReadsBack
    ImplementationsAgree TablesRight KeysSafe WalletKept
PROPERTY ImplementsRootHistory
CHECK_DEADLOCK FALSE
