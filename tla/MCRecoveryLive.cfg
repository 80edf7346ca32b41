SPECIFICATION LiveSpec
CONSTANTS
    ACTIVE_LIST_ENTRY_NUM = 4
    LReg <- OneLReg
    SCALAR_FREE_LIST_ENTRY_NUM = 2
    SCALAR_INDEX_MOD = 2
    FLAG_FREE_LIST_ENTRY_NUM = 2
    FLAG_INDEX_MOD = 2
    RENAME_WIDTH = 1
    COMMIT_WIDTH = 2
    ISSUE_WIDTH = 1
    Ops <- PlainOps
    Outcomes = {"SUCCESS", "REFETCH_NEXT", "FAULT"}
    MISPREDICT_AT_FULL = FALSE
    FLUSHED_OPS_LINGER = FALSE
PROPERTIES
    RecoveryEnds
    HeadLeaves
