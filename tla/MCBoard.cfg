CONSTANTS
    File <- MCFile
    Sizes = {16, 24}
    Garbage = {99}
    MEM_WORDS = 8
    ENTRY_WORDS = 2
    WRITE_ID_NUM = 1
    StoredEntries = {1}
    QUEUE_SIZE = 2
    PERIOD = 1
    PERIODS = 2
    MaxChars = 3
    MaxRuns = 2
SPECIFICATION Spec
CHECK_DEADLOCK FALSE
INVARIANTS
    TypeOK
    RsdRunsTheImage
    OutputIsExact
PROPERTIES
    LoaderPrintsAll
