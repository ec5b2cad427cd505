\* The smallest pool: one transaction fills the tree.
CONSTANTS
    Keys <- MCKeys
    Blindings <- MCBlindings
    Addresses <- MCAddresses
    PoolAddress = "pool"
    FeeRecipient = "fee"
    FeeBps = 5000
    MaximumDeposit = 2
    Admins = {"admin"}
    Verifiers = {"groth16"}
    Asps = {"asp1"}
    AspRoots <- MCAspRoots
    Members <- MCMembers
    Levels = 1
    RootHistorySize = 2
    FieldSize = 13
    MaxWrap = 1
    MaxAmount = 3
    MaxI128 = 20000
    InitialBalance <- MCInitialBalance
SPECIFICATION MCSpec
PROPERTY FalseMeansClosed
CHECK_DEADLOCK FALSE
