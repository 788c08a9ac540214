SPECIFICATION FairSpec
CONSTANTS
    MaxEpoch = 4
    MaxRetries = 2
INVARIANTS EveryCheckpointAccounted ShutdownIsNotAnError
PROPERTY ShutdownCompletes
CHECK_DEADLOCK FALSE
