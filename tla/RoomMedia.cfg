CONSTANTS
    NULL = NULL
    MaxStreams = 4
    MaxSessions = 2
    MaxJobs = 2
    MaxReg = 1
SPECIFICATION Spec
INVARIANT TypeOK
INVARIANT ConnectedSendsCurrent
INVARIANT SentDerivedFromStored
CHECK_DEADLOCK FALSE
