SPECIFICATION Spec
CONSTANTS
    Schedule <- MCSchedule
    BlockOf <- MCBlockOf
    MaxEpoch = 5
    MaxLag = 1
    MaxEvents = 2
    NumBatches = 2
    SlowFetch = TRUE
    NoRow = NoRow
INVARIANTS
    RootIsPointInTime
