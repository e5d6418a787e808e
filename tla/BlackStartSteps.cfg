\* Two threads compete for the lock with calls about one black start and one
\* grid connection; a load is registered at any moment, between any two store
\* calls.  The clock passes the deadline.
SPECIFICATION Spec
CONSTANTS
    BlackStartIDs = {bs1}
    GridConnIDs = {gc1}
    SMSIDs = {m1, m2, m3, m4}
    NoGridConn = NoGridConn
    BlackStartDeadline = 0
    MaxTime = 2
    Threads = {t1, t2}
    Free = Free
    None = None
    hospital = hospital
    residential = residential
    industrial = industrial
    commercial = commercial
    LoadIDs <- MCLoadIDs
    SeedLoads <- MCSeedLoads
    LoadPriority <- MCLoadPriority
SYMMETRY Interchangeable
INVARIANTS
    TypeOK
    DeliveredOnce
    ReadersFindReferences
    InstructionsFollowFacts
    ConnectionClosesLast
    LeastImportantShedFirst
    AnswersHold
PROPERTIES
    ReadersSeeProgress
    MethodsAreAtomic
