\* Three work orders about one diesel generator: an order may worsen twice, or
\* its associated order may worsen in turn.  A timeout of one tick, a clock that
\* runs past it.
SPECIFICATION FairSpec
CONSTANTS
    CabinIDs = {}
    OtherEntities = {dg1}
    InspectionIDs = {}
    WorkOrderIDs = {wo1, wo2, wo3}
    zhao = zhao
    Nobody = Nobody
    NoWorkOrder = NoWorkOrder
    Assignees <- MCAssignees
    CellTemps <- MCCellTemps
    SOCs = {80}
    BatteryTempThresholdC = 45
    MinSOC = 15
    WorkOrderAcceptTimeout = 1
    MaxTime = 3
INVARIANT
    EscalatedOnlyWhenLate
PROPERTIES
    WorseningsFollowedUp
    OrdersFollowTable
    OneTeamPerOrder
    ImplementsCallout
    TimedOutLeavesQueue
CHECK_DEADLOCK FALSE
