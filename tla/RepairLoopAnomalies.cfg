\* One battery cabin and one diesel generator, two inspections, two orders of
\* any origin.
SPECIFICATION Spec
CONSTANTS
    CabinIDs = {bc1}
    OtherEntities = {dg1}
    InspectionIDs = {ins1, ins2}
    WorkOrderIDs = {wo1, wo2}
    zhao = zhao
    Nobody = Nobody
    NoWorkOrder = NoWorkOrder
    Assignees = {Nobody}
    CellTemps <- MCCellTemps
    SOCs = {80}
    BatteryTempThresholdC = 45
    MinSOC = 15
    WorkOrderAcceptTimeout = 1
    MaxTime = 2
INVARIANTS
    TypeOK
    AnomaliesHaveOrders
PROPERTY
    AlarmsLatch
CHECK_DEADLOCK FALSE
