SPECIFICATION Spec
CONSTANTS
    COMMIT_WIDTH = 3
    MAX_COUNT = 4
INVARIANT
    DecidesLikeTheWalk
