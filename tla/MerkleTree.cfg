SPECIFICATION TreeSpec
CONSTANTS
    ClusterIds = {1, 2, 3, 4, 5, 6}
    Balances = {1, 2}
    HashRank <- MCHashRank
    NoTree = NoTree
INVARIANTS RootBinds ProofsVerify
PROPERTY RebuildSameRoot
