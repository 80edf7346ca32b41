SPECIFICATION Spec
CONSTANTS
    ACTIVE_LIST_ENTRY_NUM = 4
    LReg <- OneLReg
    SCALAR_FREE_LIST_ENTRY_NUM = 2
    SCALAR_INDEX_MOD = 2
    FLAG_FREE_LIST_ENTRY_NUM = 6
    FLAG_INDEX_MOD = 8
    RENAME_WIDTH = 2
    COMMIT_WIDTH = 2
    ISSUE_WIDTH = 1
    Ops <- FlagOps
    Outcomes = {"SUCCESS"}
    MISPREDICT_AT_FULL = FALSE
    FLUSHED_OPS_LINGER = FALSE
INVARIANTS
    FlagsConserved
