CONSTANTS
    OP_SERIAL_NUM = 24
    MAX_MICRO_OPS_PER_INSN = 4
    GC_PERIOD = 8
    FETCH_WIDTH = 2
    COMMIT_WIDTH = 2
    ACTIVE_LIST_ENTRY_NUM = 3
    LReg = {1, 2}
    NoReg = 0
    Dst <- MCDst
    PipeOf <- MCPipeOf
    MaxOp = 5
    MaxSpan = 6
    Scripts <- MCScripts
    PC_GOAL = 7
    LED_NUM = 4
SPECIFICATION Spec
CHECK_DEADLOCK FALSE
INVARIANTS
    TypeOK
    LogTellsTheTruth
    CsvFollowsCommits
    ResultsAgree
