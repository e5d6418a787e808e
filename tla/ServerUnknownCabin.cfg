\* As in Server.cfg: one worker's telemetry for an unknown cabin shuts out the
\* other.
SPECIFICATION FairSpec
CONSTANTS
    Workers = {w1, w2}
    scheduler = scheduler
    Free = Free
PROPERTY
    WritesReturn
CHECK_DEADLOCK FALSE
