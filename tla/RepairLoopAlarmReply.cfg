\* One battery cabin that gets hot and cools down again.
SPECIFICATION Spec
CONSTANTS
    CabinIDs = {bc1}
    OtherEntities = {}
    InspectionIDs = {}
    WorkOrderIDs = {wo1}
    zhao = zhao
    Nobody = Nobody
    NoWorkOrder = NoWorkOrder
    Assignees = {Nobody}
    CellTemps <- MCCellTemps
    SOCs = {80}
    BatteryTempThresholdC = 45
    MinSOC = 15
    WorkOrderAcceptTimeout = 1
    MaxTime = 1
PROPERTY
    ReplyTellsAlarm
CHECK_DEADLOCK FALSE
