SPECIFICATION FairSpec
CONSTANTS
    Clusters = {"c1", "c2"}
    Balances = {1, 2}
    MaxBlock = 2
    RootAt <- MCRootAt
    OddRoot <- MCOddRoot
    MaxMoves = 1
    MaxRepeats = 1
    NoRoot = NoRoot
    NoTx = NoTx
    NoOverlay = NoOverlay
    FaultSets = {{}, {"gap"}, {"others", "giveup"}, {"late", "revert"}, {"rpc"}, {"crash"}}
INVARIANTS ProofsAreOfTheRoot LeavesAccounted
PROPERTY Converges
CHECK_DEADLOCK FALSE
