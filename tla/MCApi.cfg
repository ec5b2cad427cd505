CONSTANTS
    Levels = 2
    EmptyLeaf = empty
    Zero = zero
    Chain <- MCChain
    Width <- MCWidth
    MaxLedger = 2
    PageSize = 2
    Overlap = 0
    MaxI64 = 8
    Altered <- MCAltered
    Faults = {"none", "altered", "missing", "twice"}
    Verifiers = {service}
    Limits = {0, 1, 2}
    MAX_PAGE = 2
    NoCursor = none
SPECIFICATION MCSpec
INVARIANTS StoreSound ReportRight PagesMakeListing AnswersUpToDate 
CHECK_DEADLOCK FALSE
