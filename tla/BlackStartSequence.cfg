\* Two black starts, one after the other, of which either may get as far as a
\* grid connection; every message they can send; a deadline within the
\* tick of the outage and a clock that runs past both deadlines.  No load is
\* registered.
SPECIFICATION Spec
CONSTANTS
    BlackStartIDs = {bs1, bs2}
    GridConnIDs = {gc1}
    SMSIDs = {m1, m2, m3, m4, m5, m6}
    NoGridConn = NoGridConn
    BlackStartDeadline = 0
    MaxTime = 3
    hospital = hospital
    residential = residential
    industrial = industrial
    LoadIDs <- MCSeedLoads
    SeedLoads <- MCSeedLoads
    LoadPriority <- MCLoadPriority
INVARIANTS
    TypeOK
    AtMostOneActive
    RestoredInTime
    OutboxRecordsProgress
    LinkedMessagesDelivered
PROPERTIES
    StatusesFollowTables
    ImplementsOutage
CHECK_DEADLOCK FALSE
