SPECIFICATION HeadSpec
CONSTANTS
    Clusters = {"c1", "c2", "c3"}
    Keys = {"k1"}
    Rows = {"r1", "r2"}
    NoRow = NoRow
    DeployBlock = 2
    MaxBlock = 6
    Log <- MCLog
INVARIANTS OverlayIsHeadState
