SPECIFICATION FairSpec
CONSTANTS
    Scenarios <- MCScenarios
    RootHistorySize = 2
    MaxSettlements = 8
INVARIANT OkMeansSettled
INVARIANT Provable
INVARIANT ScansFindAll
PROPERTY EventuallyDone
CHECK_DEADLOCK FALSE
