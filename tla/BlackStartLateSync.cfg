\* One black start, completed with its second grid connection while the first
\* one is still open.
SPECIFICATION Spec
CONSTANTS
    BlackStartIDs = {bs1}
    GridConnIDs = {gc1, gc2}
    SMSIDs = {m1, m2, m3, m4, m5, m6}
    NoGridConn = NoGridConn
    BlackStartDeadline = 1
    MaxTime = 3
    hospital = hospital
    residential = residential
    industrial = industrial
    LoadIDs <- MCSeedLoads
    SeedLoads <- MCSeedLoads
    LoadPriority <- MCLoadPriority
PROPERTY
    NoSynchronizationAfterCompletion
CHECK_DEADLOCK FALSE
