SPECIFICATION FairSpec
CONSTANTS
    Chains = {mainnet, hoodi}
    NoChain = NoChain
INVARIANTS ChainBound RowsOfOneChain StoreOutlivesServices FailureIsReported
PROPERTY GroupStops
