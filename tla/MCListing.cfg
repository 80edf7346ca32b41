CONSTANTS
    Programs <- MCPrograms
    Machines <- MCMachines
    Starts <- MCStarts
    MAX_LABELS = 2
    MAX_CONSTANTS = 1
    MAX_FIXUPS = 2
    MaxListing = 32
SPECIFICATION ListingSpec
CHECK_DEADLOCK FALSE
INVARIANTS
    ReconstructsNotation
