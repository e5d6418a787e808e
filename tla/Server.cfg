\* Two workers compete with the scheduler for the lock, with every kind of
\* request.
SPECIFICATION FairSpec
CONSTANTS
    Workers = {w1, w2}
    scheduler = scheduler
    Free = Free
    Second = 2
    Half = 4096
INVARIANTS
    TypeOK
    OneInside
PROPERTIES
    LockLostForGood
    ReadsReturn
    WritesReturnUnlessLeftLocked
    SweepsKeepComing
    ShutdownEnds
CHECK_DEADLOCK FALSE
