\* Terms of up to three constructor steps, a malformed name among the
\* predicates, rewritten at any point.
CONSTANTS
    PredNames <- MC_PredNames
    Resolved <- MC_Resolved
    Nodes <- MC_Nodes
    Sat <- MC_Sat
    UserMerges <- MC_UserMerges
    MaxSize = 3
    None = None
SPECIFICATION Spec
INVARIANT TypeOK LiftPreservesLogic LiftIdempotent
CHECK_DEADLOCK FALSE
