CONSTANTS
    NULL = NULL
    MaxStreams = 4
    MaxSessions = 2
    MaxJobs = 2
    MaxReg = 1
SPECIFICATION Spec
INVARIANT RosterSendsCurrentMedia
CHECK_DEADLOCK FALSE
