\* One black start whose grid connection may be superseded by a second one,
\* and a load that is registered at any moment, in any state.  The clock stands
\* still: deadlines are the business of BlackStartSequence.cfg.
SPECIFICATION Spec
CONSTANTS
    BlackStartIDs = {bs1}
    GridConnIDs = {gc1, gc2}
    SMSIDs = {m1, m2, m3, m4, m5, m6}
    NoGridConn = NoGridConn
    BlackStartDeadline = 1
    MaxTime = 1
    hospital = hospital
    residential = residential
    industrial = industrial
    LoadIDs <- MCLoadIDs
    SeedLoads <- MCSeedLoads
    LoadPriority <- MCLoadPriority
INVARIANTS
    StatusMatchesSignatures
    ConnectionsBelong
    CompletedTogether
    OutboxRecordsConnections
    CriticalLoadsServed
PROPERTY
    ImplementsOutage
CHECK_DEADLOCK FALSE
