SPECIFICATION Spec
CONSTANTS
    ACTIVE_LIST_ENTRY_NUM = 4
    LReg <- OneLReg
    SCALAR_FREE_LIST_ENTRY_NUM = 2
    SCALAR_INDEX_MOD = 2
    FLAG_FREE_LIST_ENTRY_NUM = 2
    FLAG_INDEX_MOD = 2
    RENAME_WIDTH = 2
    COMMIT_WIDTH = 2
    ISSUE_WIDTH = 1
    Ops <- MixedOps
    Outcomes = {"SUCCESS", "REFETCH_THIS"}
    MISPREDICT_AT_FULL = FALSE
    FLUSHED_OPS_LINGER = FALSE
INVARIANTS
    TypeOK
    GprConserved
    FlagsConserved
    RmtFollowsProgramOrder
    FlagsMapFollowsProgramOrder
PROPERTIES
    InOrderSpec
