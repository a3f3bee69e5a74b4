\* A merge term nested in a conjunction loses its merge queries.
CONSTANTS
    PredNames <- MC_PredNames
    Resolved <- MC_Resolved
    Nodes <- MC_Nodes
    Sat <- MC_Sat
    UserMerges <- MC_UserMerges
    MaxSize = 3
    None = None
SPECIFICATION Spec
INVARIANT MergesKept
CHECK_DEADLOCK FALSE
