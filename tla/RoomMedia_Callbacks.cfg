CONSTANTS
    NULL = NULL
    MaxStreams = 4
    MaxSessions = 2
    MaxJobs = 2
    MaxReg = 1
SPECIFICATION Spec
PROPERTY LastRegistrationWins
CHECK_DEADLOCK FALSE
