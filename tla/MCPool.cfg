\* A four-leaf tree and a two-slot root history: two transactions fill the
\* tree and evict the first root.  A 50% fee makes both payments non-zero.
CONSTANTS
    Keys <- MCKeys
    Blindings <- MCBlindings
    Addresses <- MCAddresses
    PoolAddress = "pool"
    FeeRecipient = "fee"
    FeeBps = 5000
    MaximumDeposit = 2
    Admins = {"admin"}
    Verifiers = {"groth16"}
    Asps = {"asp1", "asp2"}
    AspRoots <- MCAspRoots
    Members <- MCMembers
    Levels = 2
    RootHistorySize = 2
    FieldSize = 13
    MaxWrap = 1
    MaxAmount = 3
    MaxI128 = 20000
    InitialBalance <- MCInitialBalance
SPECIFICATION MCSpec
INVARIANTS Solvency RootWindow CommitmentsMatchTree NoStrandedNote
PROPERTIES ValueConserved NoDoubleSpend OnlyMembersSettle EventsRebuildState
CHECK_DEADLOCK FALSE
