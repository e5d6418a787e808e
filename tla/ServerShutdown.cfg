\* One worker is enough: main returns while the scheduler sweeps.
SPECIFICATION Spec
CONSTANTS
    Workers = {w1}
    scheduler = scheduler
    Free = Free
INVARIANT
    NoSweepCutShort
CHECK_DEADLOCK FALSE
