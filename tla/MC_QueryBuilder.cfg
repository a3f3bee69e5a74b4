\* Builder calls with limits: the parts stay linked, traversals compose and
\* sections round-trip.
CONSTANTS
    Nodes <- MC_Nodes
    EdgeTypes = {"default", "delete"}
    Edges <- MC_Edges
    Rank <- MC_Rank
    Segments = {"reported", "ancestors", "kind"}
    Names <- MC_Names
    Sat <- MC_Sat
    Max = 4
    Travs <- MC_Travs
    Tags = {"t"}
    SortNames <- MC_SortNames
    Withs = {"w"}
    Limits = {1}
    Aggs = {"g"}
    PreambleKeys = {"k"}
    PreambleValues = {"v"}
    StartNames <- MC_StartNames
    MaxCalls = 3
    None = None
SPECIFICATION Spec
INVARIANT TypeOK PartsLinked SectionRoundTrip
PROPERTY TraverseComposes
CHECK_DEADLOCK FALSE
