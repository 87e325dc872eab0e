SPECIFICATION Spec
CONSTANTS
    Threads = {t1, t2}
    Keys = {"a", "b", "c"}
    Values = {1, 2}
    Workspaces = {"alpha", "beta", "default"}
    Visibilities = {"public", "workspace"}
    LongKeys = {"c"}
    AnyWorkspace = ""
    DefaultWorkspace = "default"
    Public = "public"
    Shared = "workspace"
    Filters <- MCFilters
    Queries <- MCQueries
    One = 4
    Threshold = 2
    Limit = 1
    Entries <- MCEntries
    Facts <- MCFacts
    None = None
    Torn = Torn
    MaxWrites = 3
    MaxFaults = 2
INVARIANTS IndexFollowsRows DamageBounded QueryFindsBest
