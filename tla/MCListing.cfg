\* Pages of one or two of up to three transactions, with an end that wraps at 4.
SPECIFICATION Spec
CONSTANTS
    Gids = {2, 3, 4}
    BarrierKeys = {1}
    Statuses = {"Submitted", "Committed"}
    Limits = {1, 2}
    UsizeSize = 4
    Stores = {"sled", "sql"}
INVARIANTS
    TypeOK
    PageFits
    WalkComplete
