SPECIFICATION ApiSpec
CONSTANTS
    Targets = {1, 2, 3}
    Blocks = {1, 2, 3}
    RootOf <- MCRootOf
    NoRow = NoRow
    ClusterIds = {1, 2, 3, 4}
    Balances = {1, 2}
    BalancesAt <- MCBalancesAt
    HashRank <- MCHashRank
    Nothing = Nothing
    Malformed = Malformed
INVARIANTS ResponseOfOneMoment ProofServedVerifies DiffExact EveryClusterDescribed
