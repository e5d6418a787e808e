\* One black start with at most one grid connection and every message it can
\* send, so that the outbox never lacks an identifier.
SPECIFICATION FairSpec
CONSTANTS
    BlackStartIDs = {bs1}
    GridConnIDs = {gc1}
    SMSIDs = {m1, m2, m3, m4}
    NoGridConn = NoGridConn
    BlackStartDeadline = 1
    MaxTime = 3
    hospital = hospital
    residential = residential
    industrial = industrial
    LoadIDs <- MCSeedLoads
    SeedLoads <- MCSeedLoads
    LoadPriority <- MCLoadPriority
PROPERTIES
    OverdueFails
    InstructionsDelivered
CHECK_DEADLOCK FALSE
