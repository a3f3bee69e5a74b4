\* filter after with_limit: the filtered query is not the query narrowed.
CONSTANTS
    Nodes <- MC_Nodes
    EdgeTypes = {"default", "delete"}
    Edges <- MC_Edges
    Rank <- MC_Rank
    Segments = {"reported", "ancestors", "kind"}
    Names <- MC_Names
    Sat <- MC_Sat
    Max = 4
    Travs <- MC_Travs
    Tags = {"t"}
    SortNames <- MC_SortNames
    Withs = {"w"}
    Limits = {1}
    Aggs = {"g"}
    PreambleKeys = {"k"}
    PreambleValues = {"v"}
    StartNames <- MC_StartNames
    MaxCalls = 3
    None = None
SPECIFICATION Spec
PROPERTY FilterNarrows
CHECK_DEADLOCK FALSE
