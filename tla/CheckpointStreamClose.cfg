SPECIFICATION Spec
CONSTANTS
    MaxEpoch = 2
    MaxRetries = 1
INVARIANT NoSendAfterClose
CHECK_DEADLOCK FALSE
