SPECIFICATION Spec
CONSTANTS
    SIZE = 5
    INDEX_MOD = 8
    INITIAL_LENGTH = 5
    PUSH_WIDTH = 2
    POP_WIDTH = 2
    LOGICAL_NUM = 0
INVARIANTS
    TypeOK
    NoLossNoDuplicate
PROPERTY
    FifoSpec
