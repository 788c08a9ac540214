SPECIFICATION FairSpec
CONSTANTS
    Clusters = {"c1", "c2"}
    Keys = {"k1"}
    Rows = {"active", "inactive"}
    NoRow = NoRow
    DeployBlock = 2
    MaxBlock = 6
    MinBatch = 1
    MaxBatch = 3
    Log <- MCLog
INVARIANTS
    TypeOK
    ViewIsChainPrefix
    OkMeansCaughtUp
    PipelineIsContiguous
PROPERTIES
    RefinesMaterializedView
    CallReturns
    FetcherEnds
