SPECIFICATION BalancesSpec
CONSTANTS
    Clusters = {1, 2}
    Keys = {1, 2, 3}
    Gwei = {3, 7, 10}
    Absent = Absent
    BalanceFloor = 6
    GweiPerETH = 2
    Width = 4
    BatchSize = 2
    Concurrency = 2
    BatchRetries = 2
INVARIANT BalancesExact
