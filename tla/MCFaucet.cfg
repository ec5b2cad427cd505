\* The allowlist: four leaves, so insertions fill the tree; the log is long enough
\* for a revocation after that and a publication after the revocation.
\* The faucet: the last six ledgers of a 32-bit clock, with and without a token.
CONSTANTS
    Levels = 2
    EmptyLeaf = EmptyLeaf
    Callers = {operator, other, faucet}
    InitialAdmin = operator
    FaucetAddress = faucet
    Leaves = {a, b}
    OperatorRoots = {r}
    MaxEvents = 6
    MaxEnrolments = 2
    Recipients = {alice, bob}
    DripAmounts = {0, 1}
    Cooldowns = {2, 3}
    InitialAmount = 1
    FirstLedger = 1
    MaxU32 = 6
    MaxGrants = 5
SPECIFICATION MCSpec
INVARIANTS RootIsEnrolledSet ReplayAgrees PathOpensLiveRoot GrantBudget
PROPERTIES RolesKept
CHECK_DEADLOCK FALSE
