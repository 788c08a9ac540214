SPECIFICATION Spec
CONSTANTS
    Schedule <- MCSchedule
    BlockOf <- MCBlockOf
    MaxEpoch = 5
    MaxLag = 1
    MaxEvents = 2
    NumBatches = 2
    SlowFetch = FALSE
    NoRow = NoRow
INVARIANTS
    RootIsPointInTime
    RowMatchesTarget
    OutcomeIsBacked
    SubmittedOnce
    NoTargetSkipped
PROPERTIES
    TargetAdvances
    ImplementsCommitLog
