SPECIFICATION FairSpec
CONSTANTS
    MaxCalls = 2
    MaxAttempts = 3
    MaxFee = 14
    GasBumpPercent = 10
    MinTip = 10
    BaseFees = {1, 30}
    Tips = {10, 12}
    NoTx = NoTx
INVARIANTS OkMeansExecuted ExecutedOnce FeesWithinPolicy BumpIsReplacement
PROPERTIES ImplementsTxService SendReturns
