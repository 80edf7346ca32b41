SPECIFICATION Spec
CONSTANTS
    ACTIVE_LIST_ENTRY_NUM = 4
    LReg <- OneLReg
    SCALAR_FREE_LIST_ENTRY_NUM = 2
    SCALAR_INDEX_MOD = 2
    FLAG_FREE_LIST_ENTRY_NUM = 2
    FLAG_INDEX_MOD = 2
    RENAME_WIDTH = 2
    COMMIT_WIDTH = 2
    ISSUE_WIDTH = 2
    Ops <- PlainOps
    Outcomes = {"SUCCESS", "REFETCH_NEXT", "REFETCH_THIS", "TRAP", "FAULT"}
    MISPREDICT_AT_FULL = FALSE
    FLUSHED_OPS_LINGER = TRUE
INVARIANTS
    WrongPathNeverRetires
    NoOpLost
    OldestFailureKept
    RecoveryComplete
    RecoveryWithinList
PROPERTIES
    FlushesOnlyWrongPath
