\* One battery cabin that may be charged to 80 % or be down to 10 %.
SPECIFICATION Spec
CONSTANTS
    CabinIDs = {bc1}
    OtherEntities = {}
    InspectionIDs = {}
    WorkOrderIDs = {wo1}
    zhao = zhao
    Nobody = Nobody
    NoWorkOrder = NoWorkOrder
    Assignees = {Nobody}
    CellTemps <- MCCellTemps
    SOCs = {10, 80}
    BatteryTempThresholdC = 45
    MinSOC = 15
    WorkOrderAcceptTimeout = 1
    MaxTime = 1
PROPERTY
    ReportEvaluatesSOC
CHECK_DEADLOCK FALSE
