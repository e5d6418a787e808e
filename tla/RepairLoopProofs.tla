-------------------------- MODULE RepairLoopProofs --------------------------
(***************************************************************************)
(* Proofs of the safety properties of RepairLoop, for every set of         *)
(* identifiers, every threshold and timeout and a clock that runs as far   *)
(* as it likes.  Type correctness comes first; the acceptance properties   *)
(* then rest on one description of what any step does to any order         *)
(* (OrderSteps), the others on the actions themselves.                     *)
(***************************************************************************)
EXTENDS RepairLoop, DomainProofs

-----------------------------------------------------------------------------
(* Type correctness *)

(***************************************************************************)
(* The order a call creates, and the updates the methods make of one, are  *)
(* orders.                                                                 *)
(***************************************************************************)
LEMMA WorkOrderUpdates ==
    /\ \A entity \in Entities, parent \in WorkOrderIDs \cup {NoWorkOrder},
          time \in Nat : Dispatched(entity, parent, time) \in WorkOrder
    /\ \A wo \in WorkOrder :
          /\ \A status \in WorkOrderStatus :
                [wo EXCEPT !.status = status] \in WorkOrder
          /\ \A assignee \in Assignees, time \in Nat :
                [wo EXCEPT !.status = "accepted", !.assignedTo = assignee,
                           !.acceptedAt = time] \in WorkOrder
          /\ [wo EXCEPT !.status = "escalated", !.escalatedTo = "team_leader"]
                \in WorkOrder
          /\ [wo EXCEPT !.status = "worsened", !.backupNotified = TRUE]
                \in WorkOrder
<1>1. ASSUME NEW entity \in Entities,
             NEW parent \in WorkOrderIDs \cup {NoWorkOrder}, NEW time \in Nat
      PROVE  Dispatched(entity, parent, time) \in WorkOrder
  BY WorkOrderTable DEF Dispatched, WorkOrder
<1>2. ASSUME NEW wo \in WorkOrder, NEW status \in WorkOrderStatus
      PROVE  [wo EXCEPT !.status = status] \in WorkOrder
  BY DEF WorkOrder
<1>3. ASSUME NEW wo \in WorkOrder, NEW assignee \in Assignees, NEW time \in Nat
      PROVE  [wo EXCEPT !.status = "accepted", !.assignedTo = assignee,
                        !.acceptedAt = time] \in WorkOrder
  BY WorkOrderTable DEF WorkOrder
<1>4. ASSUME NEW wo \in WorkOrder
      PROVE  [wo EXCEPT !.status = "escalated", !.escalatedTo = "team_leader"]
                \in WorkOrder
  BY WorkOrderTable DEF WorkOrder
<1>5. ASSUME NEW wo \in WorkOrder
      PROVE  [wo EXCEPT !.status = "worsened", !.backupNotified = TRUE]
                \in WorkOrder
  BY WorkOrderTable DEF WorkOrder
<1>. QED  BY <1>1, <1>2, <1>3, <1>4, <1>5

(***************************************************************************)
(* What a method files replaces one order by another or adds one.          *)
(***************************************************************************)
LEMMA UpdateType ==
    ASSUME TypeOK, NEW id \in WorkOrderIDs, NEW wo \in WorkOrder, Update(id, wo)
    PROVE  TypeOK'
  BY DEF TypeOK, Update, Put

(***************************************************************************)
(* The updates the inspection methods make keep an inspection one.         *)
(***************************************************************************)
LEMMA InspectionUpdates ==
    ASSUME NEW ins \in Inspection
    PROVE  /\ [ins EXCEPT !.status = "completed", !.anomaly = FALSE]
                 \in Inspection
           /\ \A wo \in WorkOrderIDs :
                 [ins EXCEPT !.status = "completed", !.anomaly = TRUE,
                             !.workOrderID = wo] \in Inspection
<1>1. [ins EXCEPT !.status = "completed", !.anomaly = FALSE] \in Inspection
  BY DEF Inspection
<1>2. ASSUME NEW wo \in WorkOrderIDs
      PROVE  [ins EXCEPT !.status = "completed", !.anomaly = TRUE,
                         !.workOrderID = wo] \in Inspection
  BY DEF Inspection
<1>. QED  BY <1>1, <1>2

(***************************************************************************)
(* Every method and the scheduler's sweep store only well-typed records.   *)
(***************************************************************************)
LEMMA TypeOKNext == TypeOK /\ [Next]_vars => TypeOK'
<1> SUFFICES ASSUME TypeOK, [Next]_vars PROVE TypeOK'
  OBVIOUS
<1>1. ASSUME NEW c \in CabinIDs, NEW cabin \in BatteryCabin,
             RegisterBatteryCabin(c, cabin)
      PROVE  TypeOK'
  BY <1>1 DEF TypeOK, RegisterBatteryCabin, Put
<1>2. ASSUME NEW c \in CabinIDs, NEW temp \in CellTemps, NEW soc \in SOCs,
             UpdateBatteryCabinTelemetry(c, temp, soc)
      PROVE  TypeOK'
  <2> DEFINE read == Telemetry(cabins[c], temp, soc)
             after == EvaluateTemperature(read, BatteryTempThresholdC)
  <2>1. read \in BatteryCabin
    BY <1>2 DEF UpdateBatteryCabinTelemetry, TypeOK, Telemetry, BatteryCabin
  <2>2. after \in BatteryCabin
    BY <2>1, EvaluateIs DEF BatteryCabin
  <2>3. /\ cabins' = Put(cabins, c, after)
        /\ UNCHANGED <<now, inspections, workOrders, alerted>>
    BY <1>2 DEF UpdateBatteryCabinTelemetry
  <2> HIDE DEF after
  <2>. QED  BY <2>2, <2>3 DEF TypeOK, Put
<1>3. ASSUME NEW entity \in Entities, CreateInspection(entity) PROVE TypeOK'
  <2>1. [entity |-> entity, status |-> "pending", anomaly |-> FALSE,
         workOrderID |-> NoWorkOrder] \in Inspection
    BY DEF Inspection
  <2>. QED  BY <1>3, <2>1, FreshIs DEF CreateInspection, TypeOK, Put
<1>4. ASSUME NEW entity \in Entities, ReportAnomaly(entity) PROVE TypeOK'
  <2> DEFINE wo == Fresh(WorkOrderIDs, workOrders)
  <2>1. wo \in WorkOrderIDs
    BY <1>4, FreshIs DEF ReportAnomaly
  <2>2. Dispatched(entity, NoWorkOrder, now) \in WorkOrder
    BY WorkOrderUpdates DEF TypeOK
  <2>3. /\ workOrders' = Put(workOrders, wo, Dispatched(entity, NoWorkOrder, now))
        /\ UNCHANGED <<now, inspections, alerted>>
    BY <1>4 DEF ReportAnomaly
  <2> HIDE DEF wo
  <2>4. /\ DOMAIN workOrders' \subseteq WorkOrderIDs
        /\ \A w \in DOMAIN workOrders' : workOrders'[w] \in WorkOrder
    BY <2>1, <2>2, <2>3 DEF TypeOK, Put
  <2>5. /\ DOMAIN cabins' \subseteq CabinIDs
        /\ \A c \in DOMAIN cabins' : cabins'[c] \in BatteryCabin
    <3>1. CASE UNCHANGED cabins
      BY <3>1 DEF TypeOK
    <3>2. CASE /\ entity \in DOMAIN cabins
               /\ cabins' = Put(cabins, entity,
                                EvaluateTemperature(cabins[entity],
                                                    BatteryTempThresholdC))
      <4>1. EvaluateTemperature(cabins[entity], BatteryTempThresholdC)
              \in BatteryCabin
        BY <3>2, EvaluateIs DEF TypeOK, BatteryCabin
      <4>. QED  BY <3>2, <4>1 DEF TypeOK, Put
    <3>. QED  BY <1>4, <3>1, <3>2 DEF ReportAnomaly
  <2>. QED  BY <2>3, <2>4, <2>5 DEF TypeOK
<1>5. ASSUME NEW i \in InspectionIDs, NEW anomaly \in BOOLEAN,
             RecordInspectionResult(i, anomaly)
      PROVE  TypeOK'
  <2>1. i \in DOMAIN inspections /\ inspections[i] \in Inspection
    BY <1>5 DEF RecordInspectionResult, TypeOK
  <2>2. CASE /\ inspections' = Put(inspections, i,
                    [inspections[i] EXCEPT !.status = "completed",
                                           !.anomaly = FALSE])
             /\ UNCHANGED workOrders
    <3>1. [inspections[i] EXCEPT !.status = "completed", !.anomaly = FALSE]
            \in Inspection
      BY <2>1, InspectionUpdates
    <3>. QED  BY <1>5, <2>1, <2>2, <3>1 DEF RecordInspectionResult, TypeOK, Put
  <2>3. CASE /\ HasFresh(WorkOrderIDs, workOrders)
             /\ LET wo == Fresh(WorkOrderIDs, workOrders)
                IN /\ inspections' = Put(inspections, i,
                          [inspections[i] EXCEPT !.status = "completed",
                                                 !.anomaly = TRUE,
                                                 !.workOrderID = wo])
                   /\ workOrders' = Put(workOrders, wo,
                          Dispatched(inspections[i].entity, NoWorkOrder, now))
    <3> DEFINE wo == Fresh(WorkOrderIDs, workOrders)
    <3>1. wo \in WorkOrderIDs
      BY <2>3, FreshIs
    <3>2. [inspections[i] EXCEPT !.status = "completed", !.anomaly = TRUE,
                                 !.workOrderID = wo] \in Inspection
      BY <2>1, <3>1, InspectionUpdates
    <3>3. Dispatched(inspections[i].entity, NoWorkOrder, now) \in WorkOrder
      BY <2>1, WorkOrderUpdates DEF TypeOK, Inspection
    <3>4. /\ DOMAIN inspections' \subseteq InspectionIDs
          /\ \A x \in DOMAIN inspections' : inspections'[x] \in Inspection
      BY <2>1, <2>3, <3>2 DEF TypeOK, Put
    <3>5. /\ DOMAIN workOrders' \subseteq WorkOrderIDs
          /\ \A w \in DOMAIN workOrders' : workOrders'[w] \in WorkOrder
      BY <2>3, <3>1, <3>3 DEF TypeOK, Put
    <3>. QED  BY <1>5, <3>4, <3>5 DEF RecordInspectionResult, TypeOK
  <2>. QED  BY <1>5, <2>2, <2>3 DEF RecordInspectionResult
<1>6. ASSUME NEW id \in WorkOrderIDs, NEW assignee \in Assignees,
             AcceptWorkOrder(id, assignee)
      PROVE  TypeOK'
  <2>1. [workOrders[id] EXCEPT !.status = "accepted",
                               !.assignedTo = assignee,
                               !.acceptedAt = now] \in WorkOrder
    BY <1>6, WorkOrderUpdates DEF AcceptWorkOrder, TypeOK
  <2>. QED  BY <1>6, <2>1, UpdateType DEF AcceptWorkOrder
<1>7. ASSUME NEW id \in WorkOrderIDs, NEW status \in WorkOrderStatus,
             id \in DOMAIN workOrders,
             Update(id, [workOrders[id] EXCEPT !.status = status])
      PROVE  TypeOK'
  <2>1. [workOrders[id] EXCEPT !.status = status] \in WorkOrder
    BY <1>7, WorkOrderUpdates DEF TypeOK
  <2>. QED  BY <1>7, <2>1, UpdateType
<1>8. ASSUME NEW id \in WorkOrderIDs,
             \/ StartWorkOrder(id) \/ CompleteWorkOrder(id)
             \/ CancelWorkOrder(id)
      PROVE  TypeOK'
  BY <1>7, <1>8, WorkOrderTable
     DEF StartWorkOrder, CompleteWorkOrder, CancelWorkOrder
<1>9. ASSUME NEW id \in WorkOrderIDs, WorsenWorkOrder(id) PROVE TypeOK'
  <2> DEFINE child == Fresh(WorkOrderIDs, workOrders)
             worsened == [workOrders[id] EXCEPT !.status = "worsened",
                                                !.backupNotified = TRUE]
             opened == Dispatched(workOrders[id].entity, id, now)
  <2>1. child \in WorkOrderIDs
    BY <1>9, FreshIs DEF WorsenWorkOrder
  <2>2. worsened \in WorkOrder /\ opened \in WorkOrder
    BY <1>9, WorkOrderUpdates DEF WorsenWorkOrder, TypeOK, WorkOrder
  <2>3. /\ workOrders' = Put(Put(workOrders, id, worsened), child, opened)
        /\ alerted' = alerted \cup {child}
        /\ UNCHANGED <<now, cabins, inspections>>
    BY <1>9 DEF WorsenWorkOrder
  <2> HIDE DEF child, worsened, opened
  <2>. QED  BY <2>1, <2>2, <2>3 DEF TypeOK, Put
<1>10. CASE EscalateTimedOutWorkOrders
  <2>1. \A w \in DOMAIN workOrders :
           [workOrders[w] EXCEPT !.status = "escalated",
                                 !.escalatedTo = "team_leader"] \in WorkOrder
    BY WorkOrderUpdates DEF TypeOK
  <2>2. /\ DOMAIN workOrders' = DOMAIN workOrders
        /\ \A w \in DOMAIN workOrders : workOrders'[w] \in WorkOrder
    BY <1>10, <2>1 DEF EscalateTimedOutWorkOrders, TypeOK
  <2>. QED  BY <1>10, <2>2 DEF EscalateTimedOutWorkOrders, TypeOK
<1>11. CASE Tick
  BY <1>11, RepairLoopAssumption DEF Tick, TypeOK
<1>12. CASE UNCHANGED vars
  BY <1>12 DEF vars, TypeOK
<1>. QED
  BY <1>1, <1>2, <1>3, <1>4, <1>5, <1>6, <1>8, <1>9, <1>10, <1>11, <1>12
     DEF Next

(***************************************************************************)
(* Every record the repair loop ever stores has the fields and statuses    *)
(* the domain types declare.                                               *)
(***************************************************************************)
THEOREM TypeCorrect == Spec => []TypeOK
<1>1. Init => TypeOK
  BY DEF Init, TypeOK
<1>. QED  BY <1>1, TypeOKNext, PTL DEF Spec

-----------------------------------------------------------------------------
(* What a step does to an order *)

(***************************************************************************)
(* The fields no step ever changes.                                        *)
(***************************************************************************)
OriginKept(w) ==
    /\ w \in DOMAIN workOrders'
    /\ workOrders'[w].entity = workOrders[w].entity
    /\ workOrders'[w].parentOrderID = workOrders[w].parentOrderID
    /\ workOrders'[w].dispatchedAt = workOrders[w].dispatchedAt

(***************************************************************************)
(* The order is accepted by this step.                                     *)
(***************************************************************************)
IsAccepted(w) ==
    /\ now' = now
    /\ workOrders[w].status \in {"dispatched", "escalated"}
    /\ workOrders'[w].status = "accepted"
    /\ workOrders'[w].acceptedAt = now
    /\ workOrders'[w].escalatedTo = workOrders[w].escalatedTo

(***************************************************************************)
(* The order is escalated by this step.                                    *)
(***************************************************************************)
IsEscalated(w) ==
    /\ now' = now
    /\ AcceptanceExpired(workOrders[w])
    /\ workOrders'[w].status = "escalated"
    /\ workOrders'[w].escalatedTo = "team_leader"
    /\ workOrders'[w].acceptedAt = workOrders[w].acceptedAt
    /\ workOrders'[w].assignedTo = workOrders[w].assignedTo

(***************************************************************************)
(* The order is started, worsened, completed or cancelled by this step, or *)
(* left alone.                                                             *)
(***************************************************************************)
IsAdvanced(w) ==
    /\ \/ workOrders'[w].status = workOrders[w].status
       \/ /\ workOrders'[w].status
                \in {"in_progress", "worsened", "completed", "cancelled"}
          /\ WorkOrderCanTransition(workOrders[w].status,
                                    workOrders'[w].status)
    /\ workOrders'[w].acceptedAt = workOrders[w].acceptedAt
    /\ workOrders'[w].assignedTo = workOrders[w].assignedTo
    /\ workOrders'[w].escalatedTo = workOrders[w].escalatedTo

(***************************************************************************)
(* The order is created by this step.                                      *)
(***************************************************************************)
IsOpened(w) ==
    /\ now' = now
    /\ workOrders'[w].status = "dispatched"
    /\ workOrders'[w].escalatedTo = ""
    /\ workOrders'[w].acceptedAt = 0

OrderSteps ==
    /\ \A w \in DOMAIN workOrders :
          /\ OriginKept(w)
          /\ IsAccepted(w) \/ IsEscalated(w) \/ IsAdvanced(w)
    /\ \A w \in DOMAIN workOrders' \ DOMAIN workOrders : IsOpened(w)
    /\ now <= now'

(***************************************************************************)
(* A step that leaves the orders alone is such a step.                     *)
(***************************************************************************)
LEMMA OrdersLeftAlone ==
    ASSUME TypeOK, UNCHANGED workOrders, now' \in Nat, now <= now'
    PROVE  OrderSteps
  BY DEF OrderSteps, OriginKept, IsAdvanced

(***************************************************************************)
(* A call that files a new order opens it and leaves the others alone.     *)
(***************************************************************************)
LEMMA OrderOpened ==
    ASSUME TypeOK, HasFresh(WorkOrderIDs, workOrders),
           NEW entity, NEW parent, UNCHANGED now,
           workOrders' = Put(workOrders, Fresh(WorkOrderIDs, workOrders),
                             Dispatched(entity, parent, now))
    PROVE  OrderSteps
<1> DEFINE wo == Fresh(WorkOrderIDs, workOrders)
           opened == Dispatched(entity, parent, now)
<1>1. wo \notin DOMAIN workOrders
  BY FreshIs
<1>2. /\ opened.status = "dispatched"
      /\ opened.escalatedTo = ""
      /\ opened.acceptedAt = 0
  BY DEF Dispatched
<1> HIDE DEF wo, opened
<1>3. /\ DOMAIN workOrders' = DOMAIN workOrders \cup {wo}
      /\ workOrders'[wo] = opened
      /\ \A w \in DOMAIN workOrders : workOrders'[w] = workOrders[w]
  BY <1>1 DEF Put, wo, opened
<1>4. \A w \in DOMAIN workOrders : OriginKept(w) /\ IsAdvanced(w)
  BY <1>3 DEF OriginKept, IsAdvanced
<1>5. \A w \in DOMAIN workOrders' \ DOMAIN workOrders : IsOpened(w)
  BY <1>2, <1>3 DEF IsOpened
<1>6. now <= now'
  BY DEF TypeOK
<1>. QED  BY <1>4, <1>5, <1>6 DEF OrderSteps

(***************************************************************************)
(* So is a step that changes one order in one of the three ways.           *)
(***************************************************************************)
LEMMA OrderReplaced ==
    ASSUME TypeOK, NEW id \in DOMAIN workOrders, UNCHANGED now,
           DOMAIN workOrders' = DOMAIN workOrders,
           \A w \in DOMAIN workOrders : w # id => workOrders'[w] = workOrders[w],
           OriginKept(id), IsAccepted(id) \/ IsEscalated(id) \/ IsAdvanced(id)
    PROVE  OrderSteps
<1>1. \A w \in DOMAIN workOrders : w # id => OriginKept(w) /\ IsAdvanced(w)
  BY DEF OriginKept, IsAdvanced
<1>2. now <= now'
  BY DEF TypeOK
<1>. QED  BY <1>1, <1>2 DEF OrderSteps

(***************************************************************************)
(* So is every change of status the table permits.                         *)
(***************************************************************************)
LEMMA OrderAdvanced ==
    ASSUME TypeOK, NEW id \in DOMAIN workOrders,
           NEW status \in {"in_progress", "worsened", "completed", "cancelled"},
           WorkOrderCanTransition(workOrders[id].status, status),
           Update(id, [workOrders[id] EXCEPT !.status = status])
    PROVE  OrderSteps
<1>1. /\ DOMAIN workOrders' = DOMAIN workOrders
      /\ workOrders'[id] = [workOrders[id] EXCEPT !.status = status]
      /\ \A w \in DOMAIN workOrders : w # id => workOrders'[w] = workOrders[w]
      /\ now' = now
  BY DEF Update, Put
<1>2. workOrders[id] \in WorkOrder /\ now \in Nat
  BY DEF TypeOK
<1>3. OriginKept(id) /\ IsAdvanced(id)
  BY <1>1, <1>2 DEF OriginKept, IsAdvanced, WorkOrder
<1>. QED  BY <1>1, <1>3, OrderReplaced

(***************************************************************************)
(* Every step accepts, escalates, advances or keeps each order there is,   *)
(* and opens those it adds.                                                *)
(***************************************************************************)
LEMMA OrderStepCases == TypeOK /\ [Next]_vars => OrderSteps
<1> SUFFICES ASSUME TypeOK, [Next]_vars PROVE OrderSteps
  OBVIOUS
<1>a. now \in Nat /\ \A w \in DOMAIN workOrders : workOrders[w] \in WorkOrder
  BY DEF TypeOK
<1>1. ASSUME NEW c \in CabinIDs, NEW cabin \in BatteryCabin,
             RegisterBatteryCabin(c, cabin)
      PROVE  OrderSteps
  BY <1>a, <1>1, OrdersLeftAlone DEF RegisterBatteryCabin
<1>2. ASSUME NEW c \in CabinIDs, NEW temp \in CellTemps, NEW soc \in SOCs,
             UpdateBatteryCabinTelemetry(c, temp, soc)
      PROVE  OrderSteps
  BY <1>a, <1>2, OrdersLeftAlone DEF UpdateBatteryCabinTelemetry
<1>3. ASSUME NEW entity \in Entities, CreateInspection(entity)
      PROVE  OrderSteps
  BY <1>a, <1>3, OrdersLeftAlone DEF CreateInspection
<1>4. ASSUME NEW entity \in Entities, ReportAnomaly(entity)
      PROVE  OrderSteps
  BY <1>4, OrderOpened DEF ReportAnomaly
<1>5. ASSUME NEW i \in InspectionIDs, NEW anomaly \in BOOLEAN,
             RecordInspectionResult(i, anomaly)
      PROVE  OrderSteps
  BY <1>a, <1>5, OrdersLeftAlone, OrderOpened DEF RecordInspectionResult
<1>6. ASSUME NEW id \in WorkOrderIDs, NEW assignee \in Assignees,
             AcceptWorkOrder(id, assignee)
      PROVE  OrderSteps
  <2>1. /\ DOMAIN workOrders' = DOMAIN workOrders
        /\ id \in DOMAIN workOrders
        /\ workOrders[id].status \in {"dispatched", "escalated"}
        /\ workOrders'[id] = [workOrders[id] EXCEPT !.status = "accepted",
                                                    !.assignedTo = assignee,
                                                    !.acceptedAt = now]
        /\ \A w \in DOMAIN workOrders : w # id => workOrders'[w] = workOrders[w]
        /\ now' = now
    BY <1>6 DEF AcceptWorkOrder, Update, Put
  <2>2. OriginKept(id) /\ IsAccepted(id)
    BY <1>a, <2>1 DEF OriginKept, IsAccepted, WorkOrder
  <2>. QED  BY <2>1, <2>2, OrderReplaced
<1>7. ASSUME NEW id \in WorkOrderIDs,
             \/ StartWorkOrder(id) \/ CompleteWorkOrder(id)
             \/ CancelWorkOrder(id)
      PROVE  OrderSteps
  BY <1>7, OrderAdvanced
     DEF StartWorkOrder, CompleteWorkOrder, CancelWorkOrder
<1>8. ASSUME NEW id \in WorkOrderIDs, WorsenWorkOrder(id) PROVE OrderSteps
  <2> DEFINE child == Fresh(WorkOrderIDs, workOrders)
             worsened == [workOrders[id] EXCEPT !.status = "worsened",
                                                !.backupNotified = TRUE]
             opened == Dispatched(workOrders[id].entity, id, now)
  <2>1. /\ id \in DOMAIN workOrders /\ child \notin DOMAIN workOrders
        /\ WorkOrderCanTransition(workOrders[id].status, "worsened")
        /\ workOrders' = Put(Put(workOrders, id, worsened), child, opened)
        /\ now' = now
    BY <1>8, FreshIs DEF WorsenWorkOrder
  <2>2. /\ worsened.status = "worsened"
        /\ worsened.entity = workOrders[id].entity
        /\ worsened.parentOrderID = workOrders[id].parentOrderID
        /\ worsened.dispatchedAt = workOrders[id].dispatchedAt
        /\ worsened.acceptedAt = workOrders[id].acceptedAt
        /\ worsened.assignedTo = workOrders[id].assignedTo
        /\ worsened.escalatedTo = workOrders[id].escalatedTo
    BY <1>a, <2>1 DEF WorkOrder
  <2>3. /\ opened.status = "dispatched"
        /\ opened.escalatedTo = ""
        /\ opened.acceptedAt = 0
    BY DEF Dispatched
  <2> HIDE DEF child, worsened, opened
  <2>4. /\ DOMAIN workOrders' = DOMAIN workOrders \cup {child}
        /\ workOrders'[id] = worsened
        /\ workOrders'[child] = opened
        /\ \A w \in DOMAIN workOrders : w # id => workOrders'[w] = workOrders[w]
    BY <2>1 DEF Put
  <2>5. OriginKept(id) /\ IsAdvanced(id)
    BY <2>1, <2>2, <2>4 DEF OriginKept, IsAdvanced
  <2>6. \A w \in DOMAIN workOrders : OriginKept(w) /\ IsAdvanced(w)
    BY <2>4, <2>5 DEF OriginKept, IsAdvanced
  <2>7. \A w \in DOMAIN workOrders' \ DOMAIN workOrders : IsOpened(w)
    BY <2>1, <2>3, <2>4 DEF IsOpened
  <2>8. now <= now'
    BY <1>a, <2>1
  <2>. QED  BY <2>6, <2>7, <2>8 DEF OrderSteps
<1>9. CASE EscalateTimedOutWorkOrders
  <2>1. /\ DOMAIN workOrders' = DOMAIN workOrders
        /\ \A w \in DOMAIN workOrders :
              IF AcceptanceExpired(workOrders[w])
              THEN workOrders'[w] = [workOrders[w] EXCEPT
                                        !.status = "escalated",
                                        !.escalatedTo = "team_leader"]
              ELSE workOrders'[w] = workOrders[w]
        /\ now' = now
    BY <1>9 DEF EscalateTimedOutWorkOrders, TimedOut
  <2>2. ASSUME NEW w \in DOMAIN workOrders
        PROVE  OriginKept(w) /\ (IsEscalated(w) \/ IsAdvanced(w))
    <3>1. CASE AcceptanceExpired(workOrders[w])
      BY <1>a, <2>1, <3>1 DEF OriginKept, IsEscalated, WorkOrder
    <3>2. CASE ~AcceptanceExpired(workOrders[w])
      BY <2>1, <3>2 DEF OriginKept, IsAdvanced
    <3>. QED  BY <3>1, <3>2
  <2>3. now' = now
    BY <2>1
  <2>4. now <= now'
    BY <1>a, <2>3
  <2>. QED  BY <2>1, <2>2, <2>4 DEF OrderSteps
<1>10. CASE Tick
  BY <1>a, <1>10, OrdersLeftAlone DEF Tick
<1>11. CASE UNCHANGED vars
  BY <1>a, <1>11, OrdersLeftAlone DEF vars
<1>. QED
  BY <1>1, <1>2, <1>3, <1>4, <1>5, <1>6, <1>7, <1>8, <1>9, <1>10, <1>11
     DEF Next

-----------------------------------------------------------------------------
(* Acceptance and escalation *)

(***************************************************************************)
(* An order still waiting has not been accepted: this is what makes the    *)
(* two properties below inductive.                                         *)
(***************************************************************************)
WaitingIsUnaccepted ==
    \A w \in DOMAIN workOrders :
        workOrders[w].status \in {"dispatched", "escalated"} =>
            workOrders[w].acceptedAt = 0

AcceptanceInv == TypeOK /\ WaitingIsUnaccepted /\ EscalatedOnlyWhenLate

(***************************************************************************)
(* Every acceptance, sweep, advance and tick keeps the invariant:          *)
(* acceptance finds only unaccepted orders and a sweep only overdue ones.  *)
(***************************************************************************)
LEMMA AcceptanceInvNext == AcceptanceInv /\ [Next]_vars => AcceptanceInv'
<1> SUFFICES ASSUME AcceptanceInv, [Next]_vars PROVE AcceptanceInv'
  OBVIOUS
<1>1. OrderSteps /\ TypeOK /\ TypeOK'
  BY OrderStepCases, TypeOKNext DEF AcceptanceInv
<1>2. /\ now \in Nat /\ now' \in Nat /\ now # 0 /\ WorkOrderAcceptTimeout \in Nat
      /\ \A w \in DOMAIN workOrders :
            /\ workOrders[w].dispatchedAt \in Nat
            /\ workOrders[w].acceptedAt \in Nat
            /\ workOrders[w].status \in WorkOrderStatus
            /\ workOrders[w].escalatedTo \in {"", "team_leader"}
  BY <1>1, RepairLoopAssumption DEF TypeOK, WorkOrder
<1>3. ASSUME NEW w \in DOMAIN workOrders'
      PROVE  workOrders'[w].status \in {"dispatched", "escalated"} =>
                workOrders'[w].acceptedAt = 0
  BY <1>1, <1>2, <1>3, WorkOrderTable
     DEF AcceptanceInv, WaitingIsUnaccepted, OrderSteps, IsAccepted,
         IsEscalated, IsAdvanced, IsOpened, AcceptanceExpired
<1>4. ASSUME NEW w \in DOMAIN workOrders',
             workOrders'[w].escalatedTo = "team_leader"
      PROVE  LET answered == IF workOrders'[w].acceptedAt = 0 THEN now'
                             ELSE workOrders'[w].acceptedAt
             IN answered - workOrders'[w].dispatchedAt > WorkOrderAcceptTimeout
  <2>1. w \in DOMAIN workOrders /\ OriginKept(w)
    BY <1>1, <1>4 DEF OrderSteps, IsOpened
  <2>2. CASE IsAccepted(w)
    BY <1>2, <1>4, <2>1, <2>2
       DEF IsAccepted, OriginKept, AcceptanceInv, EscalatedOnlyWhenLate,
           WaitingIsUnaccepted
  <2>3. CASE IsEscalated(w)
    BY <1>2, <2>1, <2>3
       DEF IsEscalated, OriginKept, AcceptanceInv, AcceptanceExpired,
           WaitingIsUnaccepted
  <2>4. CASE IsAdvanced(w)
    <3>1. /\ workOrders'[w].acceptedAt = workOrders[w].acceptedAt
          /\ workOrders'[w].dispatchedAt = workOrders[w].dispatchedAt
          /\ workOrders[w].escalatedTo = "team_leader"
      BY <1>4, <2>1, <2>4 DEF IsAdvanced, OriginKept
    <3>2. now <= now'
      BY <1>1 DEF OrderSteps
    <3>3. CASE workOrders[w].acceptedAt = 0
      <4>1. now - workOrders[w].dispatchedAt > WorkOrderAcceptTimeout
        BY <2>1, <3>1, <3>3 DEF AcceptanceInv, EscalatedOnlyWhenLate
      <4>2. workOrders[w].dispatchedAt \in Nat
        BY <1>2, <2>1
      <4>3. now' - workOrders[w].dispatchedAt > WorkOrderAcceptTimeout
        <5>1. now \in Nat /\ now' \in Nat /\ WorkOrderAcceptTimeout \in Nat
          BY <1>2
        <5>. QED  BY <3>2, <4>1, <4>2, <5>1
      <4>. QED  BY <3>1, <3>3, <4>3
    <3>4. CASE workOrders[w].acceptedAt # 0
      <4>1. workOrders[w].acceptedAt - workOrders[w].dispatchedAt
              > WorkOrderAcceptTimeout
        BY <2>1, <3>1, <3>4 DEF AcceptanceInv, EscalatedOnlyWhenLate
      <4>. QED  BY <1>2, <2>1, <3>1, <3>4, <4>1
    <3>. QED  BY <3>3, <3>4
  <2>. QED  BY <1>1, <2>1, <2>2, <2>3, <2>4 DEF OrderSteps
<1>. QED
  BY <1>1, <1>3, <1>4
     DEF AcceptanceInv, WaitingIsUnaccepted, EscalatedOnlyWhenLate

(***************************************************************************)
(* The invariant holds in every reachable state.                           *)
(***************************************************************************)
LEMMA AcceptanceInvariant == Spec => []AcceptanceInv
<1>1. Init => AcceptanceInv
  BY DEF Init, AcceptanceInv, TypeOK, WaitingIsUnaccepted, EscalatedOnlyWhenLate
<1>. QED  BY <1>1, AcceptanceInvNext, PTL DEF Spec

(***************************************************************************)
(* However acceptances, sweeps and clock ticks interleave, an order        *)
(* answered within the timeout is never escalated.                         *)
(***************************************************************************)
THEOREM EscalationIsLate == Spec => []EscalatedOnlyWhenLate
<1>1. AcceptanceInv => EscalatedOnlyWhenLate
  BY DEF AcceptanceInv
<1>. QED  BY AcceptanceInvariant, <1>1, PTL

(***************************************************************************)
(* No method, whether or not it asks the table, makes a transition of a    *)
(* work order the table forbids.                                           *)
(***************************************************************************)
THEOREM OrderTableFollowed == Spec => OrdersFollowTable
<1>1. TypeOK /\ [Next]_vars => OrderStepPermitted
  <2> SUFFICES ASSUME TypeOK, [Next]_vars PROVE OrderStepPermitted
    OBVIOUS
  <2>1. \A w \in DOMAIN workOrders : workOrders[w].status \in WorkOrderStatus
    BY DEF TypeOK, WorkOrder
  <2>. QED
    BY <2>1, OrderStepCases, WorkOrderTable
       DEF OrderStepPermitted, OrderSteps, IsAccepted, IsEscalated, IsAdvanced,
           AcceptanceExpired
<1>. QED  BY <1>1, TypeCorrect, PTL DEF Spec, OrdersFollowTable

(***************************************************************************)
(* The member who accepted an order keeps it for ever: a second            *)
(* acceptance, a worsening, a restart or an escalation never changes the   *)
(* assignee.                                                               *)
(***************************************************************************)
THEOREM FirstAcceptanceWins == Spec => OneTeamPerOrder
<1>1. AcceptanceInv /\ [Next]_vars => AssigneeKept
  <2> SUFFICES ASSUME AcceptanceInv, [Next]_vars PROVE AssigneeKept
    OBVIOUS
  <2>. QED
    BY OrderStepCases
       DEF AcceptanceInv, WaitingIsUnaccepted, AssigneeKept, OrderSteps,
           IsAccepted, IsEscalated, IsAdvanced
<1>. QED  BY <1>1, AcceptanceInvariant, PTL DEF Spec, OneTeamPerOrder

-----------------------------------------------------------------------------
(* Worsening *)

(***************************************************************************)
(* What the steps that report no worsening keep.                           *)
(***************************************************************************)
FlagKept(w) ==
    /\ OriginKept(w)
    /\ workOrders'[w].backupNotified <=> workOrders[w].backupNotified
    /\ workOrders'[w].status = "worsened" => workOrders[w].status = "worsened"

IsUnrelated(w) ==
    /\ workOrders'[w].parentOrderID = NoWorkOrder
    /\ workOrders'[w].status = "dispatched"
    /\ ~workOrders'[w].backupNotified

NoWorsening ==
    /\ \A w \in DOMAIN workOrders : FlagKept(w)
    /\ \A w \in DOMAIN workOrders' \ DOMAIN workOrders : IsUnrelated(w)
    /\ alerted' = alerted

(***************************************************************************)
(* A worsening flags one order, opens another about the same entity and    *)
(* calls the backup team with it.                                          *)
(***************************************************************************)
Worsening(id, child) ==
    /\ id \in DOMAIN workOrders /\ child \notin DOMAIN workOrders
    /\ DOMAIN workOrders' = DOMAIN workOrders \cup {child}
    /\ \A w \in DOMAIN workOrders : w # id => workOrders'[w] = workOrders[w]
    /\ OriginKept(id)
    /\ Worsens(id)
    /\ workOrders'[id].backupNotified
    /\ IsBackupOf(child, id)
    /\ ~workOrders'[child].backupNotified
    /\ alerted' = alerted \cup {child}

(***************************************************************************)
(* A step that leaves the orders and the backup team alone is no           *)
(* worsening.                                                              *)
(***************************************************************************)
LEMMA UntouchedIsNoWorsening ==
    ASSUME UNCHANGED <<workOrders, alerted>> PROVE NoWorsening
  BY DEF NoWorsening, FlagKept, OriginKept

(***************************************************************************)
(* Nor is opening an order that has no parent.                             *)
(***************************************************************************)
LEMMA OpenedIsNoWorsening ==
    ASSUME HasFresh(WorkOrderIDs, workOrders), NEW entity, UNCHANGED alerted,
           workOrders' = Put(workOrders, Fresh(WorkOrderIDs, workOrders),
                             Dispatched(entity, NoWorkOrder, now))
    PROVE  NoWorsening
<1> DEFINE wo == Fresh(WorkOrderIDs, workOrders)
           opened == Dispatched(entity, NoWorkOrder, now)
<1>1. wo \notin DOMAIN workOrders
  BY FreshIs
<1>2. /\ opened.parentOrderID = NoWorkOrder
      /\ opened.status = "dispatched"
      /\ ~opened.backupNotified
  BY DEF Dispatched
<1> HIDE DEF wo, opened
<1>3. /\ DOMAIN workOrders' = DOMAIN workOrders \cup {wo}
      /\ workOrders'[wo] = opened
      /\ \A w \in DOMAIN workOrders : workOrders'[w] = workOrders[w]
  BY <1>1 DEF Put, wo, opened
<1>4. \A w \in DOMAIN workOrders : FlagKept(w)
  BY <1>3 DEF FlagKept, OriginKept
<1>5. \A w \in DOMAIN workOrders' \ DOMAIN workOrders : IsUnrelated(w)
  BY <1>2, <1>3 DEF IsUnrelated
<1>. QED  BY <1>4, <1>5 DEF NoWorsening

(***************************************************************************)
(* Nor is replacing an order by one that keeps its origin and its flag and *)
(* is not newly worsened.                                                  *)
(***************************************************************************)
LEMMA UpdatedIsNoWorsening ==
    ASSUME NEW id \in DOMAIN workOrders, NEW wo \in WorkOrder,
           workOrders[id] \in WorkOrder, Update(id, wo),
           wo.entity = workOrders[id].entity,
           wo.parentOrderID = workOrders[id].parentOrderID,
           wo.dispatchedAt = workOrders[id].dispatchedAt,
           wo.backupNotified <=> workOrders[id].backupNotified,
           wo.status = "worsened" => workOrders[id].status = "worsened"
    PROVE  NoWorsening
<1>1. /\ DOMAIN workOrders' = DOMAIN workOrders
      /\ workOrders'[id] = wo
      /\ \A w \in DOMAIN workOrders : w # id => workOrders'[w] = workOrders[w]
      /\ alerted' = alerted
  BY DEF Update, Put
<1>2. FlagKept(id)
  BY <1>1 DEF FlagKept, OriginKept
<1>3. \A w \in DOMAIN workOrders : w # id => FlagKept(w)
  BY <1>1 DEF FlagKept, OriginKept
<1>. QED  BY <1>1, <1>2, <1>3 DEF NoWorsening

(***************************************************************************)
(* Only WorsenWorkOrder is a worsening.                                    *)
(***************************************************************************)
LEMMA WorseningCases ==
    TypeOK /\ [Next]_vars =>
        NoWorsening \/ \E id, child : Worsening(id, child)
<1> SUFFICES ASSUME TypeOK, [Next]_vars
             PROVE  NoWorsening \/ \E id, child : Worsening(id, child)
  OBVIOUS
<1>a. \A w \in DOMAIN workOrders : workOrders[w] \in WorkOrder
  BY DEF TypeOK
<1>1. ASSUME NEW i \in InspectionIDs, NEW anomaly \in BOOLEAN,
             RecordInspectionResult(i, anomaly)
      PROVE  NoWorsening
  BY <1>1, UntouchedIsNoWorsening, OpenedIsNoWorsening
     DEF RecordInspectionResult
<1>2. ASSUME NEW entity \in Entities, ReportAnomaly(entity) PROVE NoWorsening
  BY <1>2, OpenedIsNoWorsening DEF ReportAnomaly
<1>3. ASSUME NEW id \in WorkOrderIDs, NEW assignee \in Assignees,
             AcceptWorkOrder(id, assignee)
      PROVE  NoWorsening
  <2> DEFINE wo == [workOrders[id] EXCEPT !.status = "accepted",
                                          !.assignedTo = assignee,
                                          !.acceptedAt = now]
  <2>1. id \in DOMAIN workOrders /\ Update(id, wo)
    BY <1>3 DEF AcceptWorkOrder
  <2>2. wo \in WorkOrder
    BY <1>a, <2>1, WorkOrderUpdates DEF TypeOK
  <2>3. /\ wo.entity = workOrders[id].entity
        /\ wo.parentOrderID = workOrders[id].parentOrderID
        /\ wo.dispatchedAt = workOrders[id].dispatchedAt
        /\ wo.backupNotified <=> workOrders[id].backupNotified
        /\ wo.status = "accepted"
    BY <1>a, <2>1 DEF WorkOrder
  <2> HIDE DEF wo
  <2>. QED  BY <1>a, <2>1, <2>2, <2>3, UpdatedIsNoWorsening
<1>4. ASSUME NEW id \in DOMAIN workOrders,
             NEW status \in {"in_progress", "completed", "cancelled"},
             Update(id, [workOrders[id] EXCEPT !.status = status])
      PROVE  NoWorsening
  <2> DEFINE wo == [workOrders[id] EXCEPT !.status = status]
  <2>1. wo \in WorkOrder
    BY <1>a, WorkOrderUpdates, WorkOrderTable
  <2>2. /\ wo.entity = workOrders[id].entity
        /\ wo.parentOrderID = workOrders[id].parentOrderID
        /\ wo.dispatchedAt = workOrders[id].dispatchedAt
        /\ wo.backupNotified <=> workOrders[id].backupNotified
        /\ wo.status = status
    BY <1>a DEF WorkOrder
  <2>3. Update(id, wo)
    BY <1>4
  <2> HIDE DEF wo
  <2>. QED  BY <1>a, <2>1, <2>2, <2>3, UpdatedIsNoWorsening
<1>5. ASSUME NEW id \in WorkOrderIDs,
             \/ StartWorkOrder(id) \/ CompleteWorkOrder(id)
             \/ CancelWorkOrder(id)
      PROVE  NoWorsening
  BY <1>4, <1>5 DEF StartWorkOrder, CompleteWorkOrder, CancelWorkOrder
<1>6. ASSUME NEW id \in WorkOrderIDs, WorsenWorkOrder(id)
      PROVE  \E child : Worsening(id, child)
  <2> DEFINE child == Fresh(WorkOrderIDs, workOrders)
             worsened == [workOrders[id] EXCEPT !.status = "worsened",
                                                !.backupNotified = TRUE]
             opened == Dispatched(workOrders[id].entity, id, now)
  <2>1. /\ id \in DOMAIN workOrders /\ child \notin DOMAIN workOrders
        /\ workOrders' = Put(Put(workOrders, id, worsened), child, opened)
        /\ alerted' = alerted \cup {child}
        /\ workOrders[id].status # "worsened"
    BY <1>6, FreshIs, WorkOrderTable DEF WorsenWorkOrder
  <2>2. /\ worsened.entity = workOrders[id].entity
        /\ worsened.parentOrderID = workOrders[id].parentOrderID
        /\ worsened.dispatchedAt = workOrders[id].dispatchedAt
        /\ worsened.status = "worsened"
        /\ worsened.backupNotified
    BY <1>a, <2>1 DEF WorkOrder
  <2>3. /\ opened.entity = workOrders[id].entity
        /\ opened.parentOrderID = id
        /\ opened.status = "dispatched"
        /\ opened.dispatchedAt = now
        /\ ~opened.backupNotified
    BY DEF Dispatched
  <2> HIDE DEF child, worsened, opened
  <2>4. /\ DOMAIN workOrders' = DOMAIN workOrders \cup {child}
        /\ workOrders'[id] = worsened
        /\ workOrders'[child] = opened
        /\ \A w \in DOMAIN workOrders : w # id => workOrders'[w] = workOrders[w]
    BY <2>1 DEF Put
  <2>5. OriginKept(id)
    BY <2>1, <2>2, <2>4 DEF OriginKept
  <2>6. Worsens(id) /\ IsBackupOf(child, id)
    BY <2>1, <2>2, <2>3, <2>4 DEF Worsens, IsBackupOf
  <2>7. Worsening(id, child)
    BY <2>1, <2>2, <2>3, <2>4, <2>5, <2>6 DEF Worsening
  <2>. QED  BY <2>7
<1>7. CASE EscalateTimedOutWorkOrders
  <2>1. /\ DOMAIN workOrders' = DOMAIN workOrders
        /\ alerted' = alerted
        /\ \A w \in DOMAIN workOrders :
              \/ workOrders'[w] = workOrders[w]
              \/ workOrders'[w] = [workOrders[w] EXCEPT
                                      !.status = "escalated",
                                      !.escalatedTo = "team_leader"]
    BY <1>7 DEF EscalateTimedOutWorkOrders
  <2>2. ASSUME NEW w \in DOMAIN workOrders PROVE FlagKept(w)
    <3>1. CASE workOrders'[w] = workOrders[w]
      BY <2>1, <3>1 DEF FlagKept, OriginKept
    <3>2. CASE workOrders'[w] = [workOrders[w] EXCEPT
                                    !.status = "escalated",
                                    !.escalatedTo = "team_leader"]
      BY <1>a, <2>1, <3>2 DEF FlagKept, OriginKept, WorkOrder
    <3>. QED  BY <2>1, <3>1, <3>2
  <2>. QED  BY <2>1, <2>2 DEF NoWorsening
<1>8. CASE \/ \E c \in CabinIDs, cabin \in BatteryCabin :
                 RegisterBatteryCabin(c, cabin)
           \/ \E c \in CabinIDs, temp \in CellTemps, soc \in SOCs :
                 UpdateBatteryCabinTelemetry(c, temp, soc)
           \/ \E entity \in Entities : CreateInspection(entity)
           \/ Tick
           \/ UNCHANGED vars
  <2>1. UNCHANGED <<workOrders, alerted>>
    BY <1>8 DEF RegisterBatteryCabin, UpdateBatteryCabinTelemetry,
                CreateInspection, Tick, vars
  <2>. QED  BY <2>1, UntouchedIsNoWorsening
<1>. QED
  BY <1>1, <1>2, <1>3, <1>5, <1>6, <1>7, <1>8 DEF Next

ChildrenOf(id) ==
    {w \in DOMAIN workOrders : workOrders[w].parentOrderID = id}

(***************************************************************************)
(* What past worsenings have left: the flagged orders are those that have  *)
(* associated orders, and the backup team was called with the associated   *)
(* orders and with nothing else.  A call made for an order filed now is    *)
(* therefore a new one.                                                    *)
(***************************************************************************)
WorseningsRecorded ==
    /\ \A w \in DOMAIN workOrders :
          /\ workOrders[w].backupNotified <=> ChildrenOf(w) # {}
          /\ workOrders[w].status = "worsened" => workOrders[w].backupNotified
    /\ \A w \in DOMAIN workOrders :
          LET parent == workOrders[w].parentOrderID
          IN parent # NoWorkOrder =>
                /\ parent \in DOMAIN workOrders
                /\ workOrders[parent].entity = workOrders[w].entity
    /\ alerted = {w \in DOMAIN workOrders :
                     workOrders[w].parentOrderID # NoWorkOrder}

WorseningInv == TypeOK /\ WorseningsRecorded

(***************************************************************************)
(* The two kinds of step keep flags, associated orders and alerts in       *)
(* agreement.                                                              *)
(***************************************************************************)
LEMMA WorseningInvNext == WorseningInv /\ [Next]_vars => WorseningInv'
<1> SUFFICES ASSUME WorseningInv, [Next]_vars PROVE WorseningsRecorded'
  BY TypeOKNext DEF WorseningInv
<1>a. /\ DOMAIN workOrders \subseteq WorkOrderIDs
      /\ DOMAIN workOrders' \subseteq WorkOrderIDs
      /\ NoWorkOrder \notin WorkOrderIDs
  BY TypeOKNext, RepairLoopAssumption DEF WorseningInv, TypeOK
<1>b. /\ \A w \in DOMAIN workOrders :
            /\ workOrders[w].backupNotified <=>
                  \E x \in DOMAIN workOrders : workOrders[x].parentOrderID = w
            /\ workOrders[w].status = "worsened" => workOrders[w].backupNotified
            /\ workOrders[w].parentOrderID # NoWorkOrder =>
                  /\ workOrders[w].parentOrderID \in DOMAIN workOrders
                  /\ workOrders[workOrders[w].parentOrderID].entity
                        = workOrders[w].entity
      /\ alerted = {w \in DOMAIN workOrders :
                       workOrders[w].parentOrderID # NoWorkOrder}
  BY DEF WorseningInv, WorseningsRecorded, ChildrenOf
<1> SUFFICES
      /\ \A w \in DOMAIN workOrders' :
            /\ workOrders'[w].backupNotified <=>
                  \E x \in DOMAIN workOrders' : workOrders'[x].parentOrderID = w
            /\ workOrders'[w].status = "worsened" =>
                  workOrders'[w].backupNotified
            /\ workOrders'[w].parentOrderID # NoWorkOrder =>
                  /\ workOrders'[w].parentOrderID \in DOMAIN workOrders'
                  /\ workOrders'[workOrders'[w].parentOrderID].entity
                        = workOrders'[w].entity
      /\ alerted' = {w \in DOMAIN workOrders' :
                        workOrders'[w].parentOrderID # NoWorkOrder}
  BY DEF WorseningsRecorded, ChildrenOf
<1>1. CASE NoWorsening
  BY <1>a, <1>b, <1>1 DEF NoWorsening, FlagKept, IsUnrelated, OriginKept
<1>2. CASE \E id, child : Worsening(id, child)
  <2>1. PICK id, child : Worsening(id, child)
    BY <1>2
  <2>2. \A w \in DOMAIN workOrders : OriginKept(w)
    BY <2>1 DEF Worsening, OriginKept
  <2>. QED
    BY <1>a, <1>b, <2>1, <2>2 DEF Worsening, OriginKept, IsBackupOf, Worsens
<1>. QED  BY <1>1, <1>2, WorseningCases DEF WorseningInv

(***************************************************************************)
(* A step that reports no worsening owes nothing, and the step of a        *)
(* worsening pays what it owes.                                            *)
(***************************************************************************)
LEMMA FollowedUpInStep ==
    WorseningInv /\ [Next]_vars => EachWorseningFollowedUp
<1> SUFFICES ASSUME WorseningInv, [Next]_vars PROVE EachWorseningFollowedUp
  OBVIOUS
<1>a. /\ alerted \subseteq DOMAIN workOrders
      /\ DOMAIN workOrders' \subseteq WorkOrderIDs
  BY TypeOKNext DEF WorseningInv, WorseningsRecorded, TypeOK
<1>1. CASE NoWorsening
  <2>1. \A w \in DOMAIN workOrders : ~Worsens(w)
    BY <1>1 DEF NoWorsening, FlagKept, Worsens
  <2>. QED
    BY <1>1, <2>1 DEF EachWorseningFollowedUp, NoWorsening, IsUnrelated, FiledNow
<1>2. ASSUME NEW id, NEW child, Worsening(id, child)
      PROVE  EachWorseningFollowedUp
  <2>1. /\ id \in DOMAIN workOrders
        /\ Worsens(id)
        /\ workOrders'[id].backupNotified
        /\ IsBackupOf(child, id)
    BY <1>2 DEF Worsening
  <2>2. child \in WorkOrderIDs /\ FiledNow = {child}
    BY <1>a, <1>2 DEF Worsening, FiledNow
  <2>3. alerted' \ alerted = {child}
    BY <1>a, <1>2 DEF Worsening
  <2>4. \A w \in DOMAIN workOrders : Worsens(w) => w = id
    BY <1>2 DEF Worsening, Worsens
  <2>. QED  BY <2>1, <2>2, <2>3, <2>4 DEF EachWorseningFollowedUp
<1>. QED  BY <1>1, <1>2, WorseningCases DEF WorseningInv

(***************************************************************************)
(* However often an order worsens, is restarted and worsens again, each    *)
(* worsening has its own associated order and its own call to the backup   *)
(* team.                                                                   *)
(***************************************************************************)
THEOREM NoSilentWorsening == Spec => WorseningsFollowedUp
<1>1. Init => WorseningInv
  BY DEF Init, WorseningInv, TypeOK, WorseningsRecorded, ChildrenOf
<1>. QED
  BY <1>1, WorseningInvNext, FollowedUpInStep, PTL
     DEF Spec, WorseningsFollowedUp

-----------------------------------------------------------------------------
(* Anomalies *)

(***************************************************************************)
(* An inspection and its order agree.                                      *)
(***************************************************************************)
InspectionLinked(i) ==
    IF inspections[i].anomaly
    THEN /\ inspections[i].status = "completed"
         /\ inspections[i].workOrderID \in DOMAIN workOrders
         /\ workOrders[inspections[i].workOrderID].entity
               = inspections[i].entity
    ELSE inspections[i].workOrderID = NoWorkOrder

NoSharedOrder(i, j) ==
    /\ inspections[i].workOrderID = inspections[j].workOrderID
    /\ inspections[i].anomaly
    => i = j

AnomalyInv == TypeOK /\ AnomaliesHaveOrders

(***************************************************************************)
(* A new link is to a new order, and no order changes its entity.          *)
(***************************************************************************)
LEMMA AnomalyInvNext == AnomalyInv /\ [Next]_vars => AnomalyInv'
<1> SUFFICES ASSUME AnomalyInv, [Next]_vars PROVE AnomaliesHaveOrders'
  BY TypeOKNext DEF AnomalyInv
<1> SUFFICES /\ \A i \in DOMAIN inspections' : InspectionLinked(i)'
             /\ \A i, j \in DOMAIN inspections' : NoSharedOrder(i, j)'
  BY DEF AnomaliesHaveOrders, InspectionLinked, NoSharedOrder
<1>a. /\ \A i \in DOMAIN inspections : InspectionLinked(i)
      /\ \A i, j \in DOMAIN inspections : NoSharedOrder(i, j)
      /\ \A i \in DOMAIN inspections : inspections[i] \in Inspection
      /\ DOMAIN workOrders \subseteq WorkOrderIDs
      /\ NoWorkOrder \notin WorkOrderIDs
  BY RepairLoopAssumption
     DEF AnomalyInv, AnomaliesHaveOrders, InspectionLinked, NoSharedOrder,
         TypeOK
<1>b. \A w \in DOMAIN workOrders : OriginKept(w)
  BY OrderStepCases DEF AnomalyInv, OrderSteps
<1>1. ASSUME NEW entity \in Entities, CreateInspection(entity)
      PROVE  /\ \A i \in DOMAIN inspections' : InspectionLinked(i)'
             /\ \A i, j \in DOMAIN inspections' : NoSharedOrder(i, j)'
  <2> DEFINE ins == Fresh(InspectionIDs, inspections)
             pending == [entity |-> entity, status |-> "pending",
                         anomaly |-> FALSE, workOrderID |-> NoWorkOrder]
  <2>1. /\ ins \notin DOMAIN inspections
        /\ inspections' = Put(inspections, ins, pending)
        /\ workOrders' = workOrders
    BY <1>1, FreshIs DEF CreateInspection
  <2>2. ~pending.anomaly /\ pending.workOrderID = NoWorkOrder
    OBVIOUS
  <2> HIDE DEF ins, pending
  <2>3. /\ DOMAIN inspections' = DOMAIN inspections \cup {ins}
        /\ inspections'[ins] = pending
        /\ \A i \in DOMAIN inspections : inspections'[i] = inspections[i]
    BY <2>1 DEF Put
  <2>4. \A i \in DOMAIN inspections' : InspectionLinked(i)'
    BY <1>a, <2>1, <2>2, <2>3 DEF InspectionLinked
  <2>5. \A i, j \in DOMAIN inspections' : NoSharedOrder(i, j)'
    BY <1>a, <2>2, <2>3 DEF NoSharedOrder, InspectionLinked
  <2>. QED  BY <2>4, <2>5
<1>2. ASSUME NEW i \in InspectionIDs, NEW anomaly \in BOOLEAN,
             RecordInspectionResult(i, anomaly)
      PROVE  /\ \A x \in DOMAIN inspections' : InspectionLinked(x)'
             /\ \A x, y \in DOMAIN inspections' : NoSharedOrder(x, y)'
  <2>1. /\ i \in DOMAIN inspections
        /\ inspections[i] \in Inspection
        /\ ~inspections[i].anomaly
        /\ inspections[i].workOrderID = NoWorkOrder
    BY <1>2, <1>a DEF RecordInspectionResult, InspectionLinked
  <2>2. CASE inspections' = Put(inspections, i,
                 [inspections[i] EXCEPT !.status = "completed",
                                        !.anomaly = FALSE])
             /\ UNCHANGED workOrders
    <3> DEFINE done == [inspections[i] EXCEPT !.status = "completed",
                                              !.anomaly = FALSE]
    <3>1. ~done.anomaly /\ done.workOrderID = NoWorkOrder
      BY <2>1 DEF Inspection
    <3>2. inspections' = Put(inspections, i, done)
      BY <2>2
    <3> HIDE DEF done
    <3>3. /\ DOMAIN inspections' = DOMAIN inspections
          /\ inspections'[i] = done
          /\ \A x \in DOMAIN inspections : x # i => inspections'[x] = inspections[x]
      BY <2>1, <3>2 DEF Put
    <3>4. \A x \in DOMAIN inspections' : InspectionLinked(x)'
      BY <1>a, <2>2, <3>1, <3>3 DEF InspectionLinked
    <3>5. \A x, y \in DOMAIN inspections' : NoSharedOrder(x, y)'
      BY <1>a, <3>1, <3>3 DEF NoSharedOrder, InspectionLinked
    <3>. QED  BY <3>4, <3>5
  <2>3. CASE /\ HasFresh(WorkOrderIDs, workOrders)
             /\ LET wo == Fresh(WorkOrderIDs, workOrders)
                IN /\ inspections' = Put(inspections, i,
                          [inspections[i] EXCEPT !.status = "completed",
                                                 !.anomaly = TRUE,
                                                 !.workOrderID = wo])
                   /\ workOrders' = Put(workOrders, wo,
                          Dispatched(inspections[i].entity, NoWorkOrder, now))
    <3> DEFINE wo == Fresh(WorkOrderIDs, workOrders)
               done == [inspections[i] EXCEPT !.status = "completed",
                                              !.anomaly = TRUE,
                                              !.workOrderID = wo]
               opened == Dispatched(inspections[i].entity, NoWorkOrder, now)
    <3>1. wo \in WorkOrderIDs /\ wo \notin DOMAIN workOrders
      BY <2>3, FreshIs
    <3>2. /\ done.anomaly
          /\ done.status = "completed"
          /\ done.workOrderID = wo
          /\ done.entity = inspections[i].entity
      BY <2>1 DEF Inspection
    <3>3. opened.entity = inspections[i].entity
      BY DEF Dispatched
    <3>4. /\ inspections' = Put(inspections, i, done)
          /\ workOrders' = Put(workOrders, wo, opened)
      BY <2>3
    <3> HIDE DEF wo, done, opened
    <3>5. /\ DOMAIN inspections' = DOMAIN inspections
          /\ inspections'[i] = done
          /\ \A x \in DOMAIN inspections : x # i => inspections'[x] = inspections[x]
      BY <2>1, <3>4 DEF Put
    <3>6. wo \in DOMAIN workOrders' /\ workOrders'[wo] = opened
      BY <3>4 DEF Put
    <3>7. \A x \in DOMAIN inspections' : InspectionLinked(x)'
      BY <1>a, <1>b, <3>2, <3>3, <3>5, <3>6 DEF InspectionLinked, OriginKept
    <3>8. \A x, y \in DOMAIN inspections' : NoSharedOrder(x, y)'
      <4> SUFFICES ASSUME NEW x \in DOMAIN inspections,
                          NEW y \in DOMAIN inspections,
                          inspections'[x].workOrderID
                             = inspections'[y].workOrderID,
                          inspections'[x].anomaly
                   PROVE  x = y
        BY <3>5 DEF NoSharedOrder
      <4>1. \A z \in DOMAIN inspections : z # i =>
               /\ inspections'[z].workOrderID # wo
               /\ inspections'[z].workOrderID = inspections[z].workOrderID
               /\ inspections'[z].anomaly <=> inspections[z].anomaly
        BY <1>a, <3>1, <3>5 DEF InspectionLinked
      <4>2. inspections'[i].workOrderID = wo
        BY <3>2, <3>5
      <4>. QED  BY <1>a, <4>1, <4>2 DEF NoSharedOrder
    <3>. QED  BY <3>7, <3>8
  <2>. QED  BY <1>2, <2>2, <2>3 DEF RecordInspectionResult
<1>3. CASE UNCHANGED inspections
  <2>1. \A i \in DOMAIN inspections' : InspectionLinked(i)'
    BY <1>a, <1>b, <1>3 DEF InspectionLinked, OriginKept
  <2>2. \A i, j \in DOMAIN inspections' : NoSharedOrder(i, j)'
    BY <1>a, <1>3 DEF NoSharedOrder
  <2>. QED  BY <2>1, <2>2
<1>4. \/ UNCHANGED inspections
      \/ \E entity \in Entities : CreateInspection(entity)
      \/ \E i \in InspectionIDs, anomaly \in BOOLEAN :
            RecordInspectionResult(i, anomaly)
  BY DEF Next, vars, RegisterBatteryCabin, UpdateBatteryCabinTelemetry,
         ReportAnomaly, AcceptWorkOrder, StartWorkOrder, WorsenWorkOrder,
         CompleteWorkOrder, CancelWorkOrder, Update,
         EscalateTimedOutWorkOrders, Tick
<1>. QED  BY <1>1, <1>2, <1>3, <1>4

(***************************************************************************)
(* Every anomaly an inspection finds has exactly one order of its own,     *)
(* about the inspected entity, and nothing that happens to the order later *)
(* breaks the link.                                                        *)
(***************************************************************************)
THEOREM AnomalyHasItsOrder == Spec => []AnomaliesHaveOrders
<1>1. Init => AnomalyInv
  BY DEF Init, AnomalyInv, TypeOK, AnomaliesHaveOrders
<1>2. AnomalyInv => AnomaliesHaveOrders
  BY DEF AnomalyInv
<1>. QED  BY <1>1, <1>2, AnomalyInvNext, PTL DEF Spec

-----------------------------------------------------------------------------
(* Thermal alarms *)

(***************************************************************************)
(* For every threshold and every sequence of readings, no call clears an   *)
(* alarm, unfreezes a cabin or restarts its charging.                      *)
(***************************************************************************)
THEOREM AlarmsAreForGood == Spec => AlarmsLatch
<1>1. TypeOK /\ [Next]_vars => CabinsStaySafe
  <2> SUFFICES ASSUME TypeOK, [Next]_vars PROVE CabinsStaySafe
    OBVIOUS
  <2>a. \A c \in DOMAIN cabins : cabins[c] \in BatteryCabin
    BY DEF TypeOK
  <2>1. ASSUME NEW c \in DOMAIN cabins, NEW cabin \in BatteryCabin,
               cabins' = Put(cabins, c,
                             EvaluateTemperature(cabin, BatteryTempThresholdC)),
               cabins[c].alarmed => cabin.alarmed,
               cabins[c].chargingFrozen => cabin.chargingFrozen,
               ~cabins[c].charging => ~cabin.charging
        PROVE  CabinsStaySafe
    <3> DEFINE after == EvaluateTemperature(cabin, BatteryTempThresholdC)
    <3>1. /\ cabin.alarmed => after.alarmed
          /\ cabin.chargingFrozen => after.chargingFrozen
          /\ ~cabin.charging => ~after.charging
      BY EvaluateIs DEF BatteryCabin
    <3>2. cabins' = Put(cabins, c, after)
      BY <2>1
    <3> HIDE DEF after
    <3>3. /\ cabins'[c] = after
          /\ \A x \in DOMAIN cabins : x # c => cabins'[x] = cabins[x]
      BY <3>2 DEF Put
    <3>. QED  BY <2>1, <3>1, <3>3 DEF CabinsStaySafe
  <2>2. ASSUME NEW c \in CabinIDs, NEW temp \in CellTemps, NEW soc \in SOCs,
               UpdateBatteryCabinTelemetry(c, temp, soc)
        PROVE  CabinsStaySafe
    <3> DEFINE read == Telemetry(cabins[c], temp, soc)
    <3>1. /\ c \in DOMAIN cabins
          /\ cabins' = Put(cabins, c,
                           EvaluateTemperature(read, BatteryTempThresholdC))
      BY <2>2 DEF UpdateBatteryCabinTelemetry
    <3>2. /\ read \in BatteryCabin
          /\ cabins[c].alarmed => read.alarmed
          /\ cabins[c].chargingFrozen => read.chargingFrozen
          /\ ~cabins[c].charging => ~read.charging
      BY <2>a, <3>1 DEF Telemetry, BatteryCabin
    <3> HIDE DEF read
    <3>. QED  BY <2>1, <3>1, <3>2
  <2>3. ASSUME NEW entity \in Entities, ReportAnomaly(entity)
        PROVE  CabinsStaySafe
    <3>1. CASE UNCHANGED cabins
      BY <3>1 DEF CabinsStaySafe
    <3>2. CASE /\ entity \in DOMAIN cabins
               /\ cabins' = Put(cabins, entity,
                                EvaluateTemperature(cabins[entity],
                                                    BatteryTempThresholdC))
      BY <2>a, <2>1, <3>2
    <3>. QED  BY <2>3, <3>1, <3>2 DEF ReportAnomaly
  <2>4. ASSUME NEW c \in CabinIDs, NEW cabin \in BatteryCabin,
               RegisterBatteryCabin(c, cabin)
        PROVE  CabinsStaySafe
    BY <2>4 DEF RegisterBatteryCabin, Put, CabinsStaySafe
  <2>5. CASE UNCHANGED cabins
    BY <2>5 DEF CabinsStaySafe
  <2>6. \/ UNCHANGED cabins
        \/ \E c \in CabinIDs, cabin \in BatteryCabin :
              RegisterBatteryCabin(c, cabin)
        \/ \E c \in CabinIDs, temp \in CellTemps, soc \in SOCs :
              UpdateBatteryCabinTelemetry(c, temp, soc)
        \/ \E entity \in Entities : ReportAnomaly(entity)
    BY DEF Next, vars, CreateInspection, RecordInspectionResult,
           AcceptWorkOrder, StartWorkOrder, WorsenWorkOrder,
           CompleteWorkOrder, CancelWorkOrder, Update,
           EscalateTimedOutWorkOrders, Tick
  <2>. QED  BY <2>2, <2>3, <2>4, <2>5, <2>6
<1>. QED  BY <1>1, TypeCorrect, PTL DEF Spec, AlarmsLatch

=============================================================================
