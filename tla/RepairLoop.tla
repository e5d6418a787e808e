----------------------------- MODULE RepairLoop -----------------------------
(***************************************************************************)
(* Battery cabins, inspections, anomaly reports and the repair closed loop *)
(* (internal/app/inspection.go, repair.go and the cabin methods of         *)
(* service.go).  As in BlackStart, one call is one action: the methods run *)
(* under Service.mu, and RegisterBatteryCabin and CreateInspection, which  *)
(* do not take it, make a single store call.  Refused and idempotent calls *)
(* are stuttering steps.                                                   *)
(*                                                                         *)
(* A work order is saved as a draft and dispatched before the call that    *)
(* creates it returns, so no draft is ever seen between two calls and      *)
(* DispatchWorkOrder, the public method, always takes its idempotent       *)
(* branch: it is not an action here.                                       *)
(***************************************************************************)
EXTENDS Domain, Store, FiniteSets

CONSTANTS
    CabinIDs,       \* battery cabins that may be registered
    OtherEntities,  \* power stations and diesel generators, never looked up
    InspectionIDs,  \* identifiers ids.Next("ins") may return
    WorkOrderIDs,   \* identifiers ids.Next("wo") may return
    Assignees,      \* the assignees an accept request may name, "" included
    Nobody,         \* the empty AssignedTo
    NoWorkOrder,    \* the empty WorkOrderID and ParentOrderID
    CellTemps,      \* the temperatures telemetry may report
    SOCs,           \* the states of charge telemetry may report
    BatteryTempThresholdC,   \* cfg.BatteryTempThresholdC
    MinSOC,         \* cfg.MinSOCPercent
    WorkOrderAcceptTimeout,  \* cfg.WorkOrderAcceptTimeout, in clock ticks
    MaxTime         \* bound: the clock is not followed beyond it

ASSUME RepairLoopAssumption ==
    /\ NoWorkOrder \notin WorkOrderIDs
    /\ CellTemps \subseteq Int
    /\ SOCs \subseteq Int
    /\ BatteryTempThresholdC \in Int
    /\ MinSOC \in Int
    /\ WorkOrderAcceptTimeout \in Nat
    /\ MaxTime \in Nat

VARIABLES
    now,          \* the injected clock
    cabins,       \* store.batteryCabins
    inspections,  \* store.inspections
    workOrders,   \* store.workOrders
    alerted       \* work orders the backup notifier was called with

vars == <<now, cabins, inspections, workOrders, alerted>>

Entities == CabinIDs \cup OtherEntities

BatteryCabin ==
    [cellTemp : CellTemps, soc : SOCs, charging : BOOLEAN,
     chargingFrozen : BOOLEAN, alarmed : BOOLEAN]

Inspection ==
    [entity : Entities, status : {"pending", "completed"}, anomaly : BOOLEAN,
     workOrderID : WorkOrderIDs \cup {NoWorkOrder}]

(***************************************************************************)
(* acceptedAt is 0, the zero time, until the order is accepted.            *)
(***************************************************************************)
WorkOrder ==
    [entity : Entities, status : WorkOrderStatus,
     assignedTo : Assignees \cup {Nobody},
     escalatedTo : {"", "team_leader"},
     parentOrderID : WorkOrderIDs \cup {NoWorkOrder},
     backupNotified : BOOLEAN, dispatchedAt : Nat, acceptedAt : Nat]

TypeOK ==
    /\ now \in Nat \ {0}
    /\ DOMAIN cabins \subseteq CabinIDs
    /\ \A c \in DOMAIN cabins : cabins[c] \in BatteryCabin
    /\ DOMAIN inspections \subseteq InspectionIDs
    /\ \A i \in DOMAIN inspections : inspections[i] \in Inspection
    /\ DOMAIN workOrders \subseteq WorkOrderIDs
    /\ \A w \in DOMAIN workOrders : workOrders[w] \in WorkOrder
    /\ alerted \subseteq WorkOrderIDs

Init ==
    /\ now = 1
    /\ cabins = <<>>
    /\ inspections = <<>>
    /\ workOrders = <<>>
    /\ alerted = {}

-----------------------------------------------------------------------------
(* Battery cabins *)

(***************************************************************************)
(* The record comes from the request body as it is: its temperature is not *)
(* evaluated and its alarm flags are the client's.                         *)
(***************************************************************************)
RegisterBatteryCabin(c, cabin) ==
    /\ c \notin DOMAIN cabins
    /\ cabins' = Put(cabins, c, cabin)
    /\ UNCHANGED <<now, inspections, workOrders, alerted>>

Telemetry(cabin, temp, soc) ==
    [cabin EXCEPT !.cellTemp = temp, !.soc = soc]

UpdateBatteryCabinTelemetry(c, temp, soc) ==
    /\ c \in DOMAIN cabins
    /\ cabins' = Put(cabins, c,
                     EvaluateTemperature(Telemetry(cabins[c], temp, soc),
                                         BatteryTempThresholdC))
    /\ UNCHANGED <<now, inspections, workOrders, alerted>>

(***************************************************************************)
(* What the call answers: whether this very reading is too hot.            *)
(***************************************************************************)
TelemetryReply(c, temp, soc) ==
    TooHot(Telemetry(cabins[c], temp, soc), BatteryTempThresholdC)

-----------------------------------------------------------------------------
(* Inspections and anomaly reports *)

\* Mutant: leaves the status at Go's zero value.
DispatchedUnset(entity, parent, time) ==
    [entity |-> entity, status |-> "", assignedTo |-> Nobody,
     escalatedTo |-> "", parentOrderID |-> parent,
     backupNotified |-> FALSE, dispatchedAt |-> time, acceptedAt |-> 0]

(***************************************************************************)
(* A new order, dispatched by the call that created it (dispatchWorkOrder  *)
(* starts the acceptance clock).                                           *)
(***************************************************************************)
Dispatched(entity, parent, time) ==
    [entity |-> entity, status |-> "dispatched", assignedTo |-> Nobody,
     escalatedTo |-> "", parentOrderID |-> parent,
     backupNotified |-> FALSE, dispatchedAt |-> time, acceptedAt |-> 0]

CreateInspection(entity) ==
    /\ HasFresh(InspectionIDs, inspections)
    /\ inspections' = Put(inspections, Fresh(InspectionIDs, inspections),
                          [entity |-> entity, status |-> "pending",
                           anomaly |-> FALSE, workOrderID |-> NoWorkOrder])
    /\ UNCHANGED <<now, cabins, workOrders, alerted>>

\* Mutant: accepts a second result for an inspection that is completed.
RecordInspectionResultAgain(i, anomaly) ==
    /\ i \in DOMAIN inspections
    /\ \/ /\ ~anomaly
          /\ inspections' = Put(inspections, i,
                 [inspections[i] EXCEPT !.status = "completed",
                                        !.anomaly = FALSE])
          /\ UNCHANGED workOrders
       \/ /\ anomaly
          /\ HasFresh(WorkOrderIDs, workOrders)
          /\ LET wo == Fresh(WorkOrderIDs, workOrders)
             IN /\ inspections' = Put(inspections, i,
                       [inspections[i] EXCEPT !.status = "completed",
                                              !.anomaly = TRUE,
                                              !.workOrderID = wo])
                /\ workOrders' = Put(workOrders, wo,
                       Dispatched(inspections[i].entity, NoWorkOrder, now))
    /\ UNCHANGED <<now, cabins, alerted>>

(***************************************************************************)
(* An anomaly creates, links and dispatches a work order in the same call. *)
(* The cabin's thermal rule is not evaluated here.                         *)
(***************************************************************************)
RecordInspectionResult(i, anomaly) ==
    /\ i \in DOMAIN inspections
    /\ inspections[i].status # "completed"
    /\ \/ /\ ~anomaly
          /\ inspections' = Put(inspections, i,
                 [inspections[i] EXCEPT !.status = "completed",
                                        !.anomaly = FALSE])
          /\ UNCHANGED workOrders
       \/ /\ anomaly
          /\ HasFresh(WorkOrderIDs, workOrders)
          /\ LET wo == Fresh(WorkOrderIDs, workOrders)
             IN /\ inspections' = Put(inspections, i,
                       [inspections[i] EXCEPT !.status = "completed",
                                              !.anomaly = TRUE,
                                              !.workOrderID = wo])
                /\ workOrders' = Put(workOrders, wo,
                       Dispatched(inspections[i].entity, NoWorkOrder, now))
    /\ UNCHANGED <<now, cabins, alerted>>

(***************************************************************************)
(* A battery cabin must be registered and is evaluated before the order is *)
(* created; the other entities are taken at their word.                    *)
(***************************************************************************)
ReportAnomaly(entity) ==
    /\ \/ /\ entity \in DOMAIN cabins
          /\ cabins' = Put(cabins, entity,
                           EvaluateTemperature(cabins[entity],
                                               BatteryTempThresholdC))
       \/ /\ entity \in OtherEntities
          /\ UNCHANGED cabins
    /\ HasFresh(WorkOrderIDs, workOrders)
    /\ workOrders' = Put(workOrders, Fresh(WorkOrderIDs, workOrders),
                         Dispatched(entity, NoWorkOrder, now))
    /\ UNCHANGED <<now, inspections, alerted>>

-----------------------------------------------------------------------------
(* Work orders *)

Update(id, wo) ==
    /\ workOrders' = Put(workOrders, id, wo)
    /\ UNCHANGED <<now, cabins, inspections, alerted>>

\* Mutant: lets another member take over an order that has worsened.
AcceptWorkOrderWorsened(id, assignee) ==
    /\ id \in DOMAIN workOrders
    /\ workOrders[id].status \in {"dispatched", "escalated", "worsened"}
    /\ Update(id, [workOrders[id] EXCEPT !.status = "accepted",
                                         !.assignedTo = assignee,
                                         !.acceptedAt = now])

(***************************************************************************)
(* From accepted and in_progress the call is idempotent for the same       *)
(* assignee and refused for another; the acceptance timeout is not looked  *)
(* at, so a late acceptance wins until the scheduler has escalated.        *)
(***************************************************************************)
AcceptWorkOrder(id, assignee) ==
    /\ id \in DOMAIN workOrders
    /\ workOrders[id].status \in {"dispatched", "escalated"}
    /\ Update(id, [workOrders[id] EXCEPT !.status = "accepted",
                                         !.assignedTo = assignee,
                                         !.acceptedAt = now])

\* Mutant: restarts a completed order as well.
StartWorkOrderCompleted(id) ==
    /\ id \in DOMAIN workOrders
    /\ workOrders[id].status \in {"accepted", "worsened", "completed"}
    /\ Update(id, [workOrders[id] EXCEPT !.status = "in_progress"])

StartWorkOrder(id) ==
    /\ id \in DOMAIN workOrders
    /\ workOrders[id].status # "in_progress"
    /\ WorkOrderCanTransition(workOrders[id].status, "in_progress")
    /\ Update(id, [workOrders[id] EXCEPT !.status = "in_progress"])

\* Mutant: calls the backup team for the first worsening only.
WorsenWorkOrderOnce(id) ==
    /\ id \in DOMAIN workOrders
    /\ WorkOrderCanTransition(workOrders[id].status, "worsened")
    /\ HasFresh(WorkOrderIDs, workOrders)
    /\ LET child == Fresh(WorkOrderIDs, workOrders)
           wo == workOrders[id]
       IN /\ workOrders' =
                Put(Put(workOrders, id, [wo EXCEPT !.status = "worsened",
                                                   !.backupNotified = TRUE]),
                    child, Dispatched(wo.entity, id, now))
          /\ alerted' = IF wo.backupNotified THEN alerted
                        ELSE alerted \cup {child}
    /\ UNCHANGED <<now, cabins, inspections>>

\* Mutant: the associated order inherits the acceptance clock of its parent.
WorsenWorkOrderSameClock(id) ==
    /\ id \in DOMAIN workOrders
    /\ WorkOrderCanTransition(workOrders[id].status, "worsened")
    /\ HasFresh(WorkOrderIDs, workOrders)
    /\ LET child == Fresh(WorkOrderIDs, workOrders)
           wo == workOrders[id]
       IN /\ workOrders' =
                Put(Put(workOrders, id, [wo EXCEPT !.status = "worsened",
                                                   !.backupNotified = TRUE]),
                    child, Dispatched(wo.entity, id, wo.dispatchedAt))
          /\ alerted' = alerted \cup {child}
    /\ UNCHANGED <<now, cabins, inspections>>

(***************************************************************************)
(* The order is flagged, an associated order for the same entity is        *)
(* created and dispatched, and the backup team is called with it.  An      *)
(* order may worsen again after it was restarted.                          *)
(***************************************************************************)
WorsenWorkOrder(id) ==
    /\ id \in DOMAIN workOrders
    /\ WorkOrderCanTransition(workOrders[id].status, "worsened")
    /\ HasFresh(WorkOrderIDs, workOrders)
    /\ LET child == Fresh(WorkOrderIDs, workOrders)
           wo == workOrders[id]
       IN /\ workOrders' =
                Put(Put(workOrders, id, [wo EXCEPT !.status = "worsened",
                                                   !.backupNotified = TRUE]),
                    child, Dispatched(wo.entity, id, now))
          /\ alerted' = alerted \cup {child}
    /\ UNCHANGED <<now, cabins, inspections>>

(***************************************************************************)
(* Neither method looks at the associated orders.                          *)
(***************************************************************************)
CompleteWorkOrder(id) ==
    /\ id \in DOMAIN workOrders
    /\ WorkOrderCanTransition(workOrders[id].status, "completed")
    /\ Update(id, [workOrders[id] EXCEPT !.status = "completed"])

CancelWorkOrder(id) ==
    /\ id \in DOMAIN workOrders
    /\ WorkOrderCanTransition(workOrders[id].status, "cancelled")
    /\ Update(id, [workOrders[id] EXCEPT !.status = "cancelled"])

-----------------------------------------------------------------------------
(* The scheduler's acceptance-timeout check and the clock *)

\* Mutant: compares the age of every order nobody has started.
AcceptanceExpiredNotStarted(wo) ==
    /\ wo.status \in {"dispatched", "accepted"}
    /\ now - wo.dispatchedAt > WorkOrderAcceptTimeout

(***************************************************************************)
(* The comparison is strict: at the timeout itself nothing is escalated.   *)
(***************************************************************************)
AcceptanceExpired(wo) ==
    /\ wo.status = "dispatched"
    /\ now - wo.dispatchedAt > WorkOrderAcceptTimeout

\* Mutant: leaves associated orders to the team of their parent.
TimedOutOriginal ==
    {w \in DOMAIN workOrders : /\ AcceptanceExpired(workOrders[w])
                               /\ workOrders[w].parentOrderID = NoWorkOrder}

TimedOut == {w \in DOMAIN workOrders : AcceptanceExpired(workOrders[w])}

(***************************************************************************)
(* One sweep escalates every order that has timed out by then.             *)
(***************************************************************************)
EscalateTimedOutWorkOrders ==
    /\ TimedOut # {}
    /\ workOrders' = [w \in DOMAIN workOrders |->
                         IF w \in TimedOut
                         THEN [workOrders[w] EXCEPT
                                  !.status = "escalated",
                                  !.escalatedTo = "team_leader"]
                         ELSE workOrders[w]]
    /\ UNCHANGED <<now, cabins, inspections, alerted>>

Tick ==
    /\ now < MaxTime
    /\ now' = now + 1
    /\ UNCHANGED <<cabins, inspections, workOrders, alerted>>

-----------------------------------------------------------------------------
Next ==
    \/ \E c \in CabinIDs, cabin \in BatteryCabin :
          RegisterBatteryCabin(c, cabin)
    \/ \E c \in CabinIDs, temp \in CellTemps, soc \in SOCs :
          UpdateBatteryCabinTelemetry(c, temp, soc)
    \/ \E entity \in Entities :
          \/ CreateInspection(entity)
          \/ ReportAnomaly(entity)
    \/ \E i \in InspectionIDs, anomaly \in BOOLEAN :
          RecordInspectionResult(i, anomaly)
    \/ \E id \in WorkOrderIDs :
          \/ \E assignee \in Assignees : AcceptWorkOrder(id, assignee)
          \/ StartWorkOrder(id)
          \/ WorsenWorkOrder(id)
          \/ CompleteWorkOrder(id)
          \/ CancelWorkOrder(id)
    \/ EscalateTimedOutWorkOrders
    \/ Tick

Spec == Init /\ [][Next]_vars

(***************************************************************************)
(* Only the scheduler is obliged to act; see BlackStart.                   *)
(***************************************************************************)
FairSpec == Spec /\ WF_vars(EscalateTimedOutWorkOrders)

-----------------------------------------------------------------------------
(* Safety *)

(***************************************************************************)
(* The race between acceptance and escalation has one outcome: an order    *)
(* accepted within the timeout is never escalated, before or after; and an *)
(* order that waits for the team leader, or was accepted after an          *)
(* escalation, was dispatched longer than the timeout ago.                 *)
(***************************************************************************)
EscalatedOnlyWhenLate ==
    \A w \in DOMAIN workOrders :
        LET wo == workOrders[w]
            answered == IF wo.acceptedAt = 0 THEN now ELSE wo.acceptedAt
        IN wo.escalatedTo = "team_leader" =>
              answered - wo.dispatchedAt > WorkOrderAcceptTimeout

(***************************************************************************)
(* RecordInspectionResult writes the inspection twice around the creation  *)
(* of its order: an inspection has an order exactly when it reported an    *)
(* anomaly, the order is about the inspected entity, and no two            *)
(* inspections share one.                                                  *)
(***************************************************************************)
AnomaliesHaveOrders ==
    /\ \A i \in DOMAIN inspections :
          LET ins == inspections[i]
          IN IF ins.anomaly
             THEN /\ ins.status = "completed"
                  /\ ins.workOrderID \in DOMAIN workOrders
                  /\ workOrders[ins.workOrderID].entity = ins.entity
             ELSE ins.workOrderID = NoWorkOrder
    /\ \A i, j \in DOMAIN inspections :
          /\ inspections[i].workOrderID = inspections[j].workOrderID
          /\ inspections[i].anomaly
          => i = j

Worsens(w) ==
    /\ workOrders[w].status # "worsened"
    /\ workOrders'[w].status = "worsened"

FiledNow == DOMAIN workOrders' \ DOMAIN workOrders

(***************************************************************************)
(* The order a worsening of w owes: filed and dispatched in the same step. *)
(***************************************************************************)
IsBackupOf(child, w) ==
    /\ workOrders'[child].parentOrderID = w
    /\ workOrders'[child].entity = workOrders[w].entity
    /\ workOrders'[child].status = "dispatched"
    /\ workOrders'[child].dispatchedAt = now

EachWorseningFollowedUp ==
    /\ \A w \in DOMAIN workOrders :
          Worsens(w) =>
             /\ workOrders'[w].backupNotified
             /\ \E child \in WorkOrderIDs :
                   /\ FiledNow = {child}
                   /\ IsBackupOf(child, w)
                   /\ alerted' \ alerted = {child}
    /\ (\A w \in DOMAIN workOrders : ~Worsens(w)) =>
          /\ UNCHANGED alerted
          /\ \A w \in FiledNow : workOrders'[w].parentOrderID = NoWorkOrder

(***************************************************************************)
(* No worsening is silent, the second of an order that was restarted       *)
(* included: the step in which an order becomes worsened files exactly one *)
(* order, for the same entity, associated with it and with an acceptance   *)
(* clock of its own, and calls the backup team with that order, which it   *)
(* was never called with before.  And no other step calls the backup team  *)
(* or files an associated order.                                           *)
(***************************************************************************)
WorseningsFollowedUp == [][EachWorseningFollowedUp]_vars

OrderStepPermitted ==
    \A w \in DOMAIN workOrders :
        LET from == workOrders[w].status
            to == workOrders'[w].status
        IN from # to => WorkOrderCanTransition(from, to)

(***************************************************************************)
(* Acceptance, escalation and dispatch set the status without asking the   *)
(* table of transitions; with the methods that ask it, every step of every *)
(* order is still one the table permits, and a finished order stays so.    *)
(***************************************************************************)
OrdersFollowTable == [][OrderStepPermitted]_vars

AssigneeKept ==
    \A w \in DOMAIN workOrders :
        workOrders[w].acceptedAt # 0 =>
            /\ workOrders'[w].assignedTo = workOrders[w].assignedTo
            /\ workOrders'[w].acceptedAt = workOrders[w].acceptedAt

(***************************************************************************)
(* First acceptance wins: whoever accepted an order keeps it through every *)
(* later step, worsening and restart included.                             *)
(***************************************************************************)
OneTeamPerOrder == [][AssigneeKept]_vars

CabinsStaySafe ==
    \A c \in DOMAIN cabins :
        /\ cabins[c].alarmed => cabins'[c].alarmed
        /\ cabins[c].chargingFrozen => cabins'[c].chargingFrozen
        /\ ~cabins[c].charging => ~cabins'[c].charging

(***************************************************************************)
(* The thermal alarm latches: a cooler reading or a later report never     *)
(* clears an alarm, unfreezes a cabin or lets it charge again.             *)
(***************************************************************************)
AlarmsLatch == [][CabinsStaySafe]_vars

(***************************************************************************)
(* UpdateBatteryCabinTelemetry "Returns true when an alarm was raised or   *)
(* is already active" (service.go:98): its answer is the cabin's alarm.    *)
(***************************************************************************)
ReplyTellsAlarm ==
    [][\A c \in DOMAIN cabins, temp \in CellTemps, soc \in SOCs :
          UpdateBatteryCabinTelemetry(c, temp, soc) =>
              (TelemetryReply(c, temp, soc) <=> cabins'[c].alarmed)]_vars

(***************************************************************************)
(* A report "evaluates the thermal/SOC rules for battery cabins"           *)
(* (inspection.go:78; README.md:16): a report about a cabin below the      *)
(* minimum charge leaves something on the cabin or on its order that the   *)
(* thermal rule alone would not have left.                                 *)
(***************************************************************************)
ReportEvaluatesSOC ==
    [][\A c \in DOMAIN cabins :
          ReportAnomaly(c) /\ ~CanOperateOffGrid(cabins[c], MinSOC) =>
             \/ cabins'[c] # EvaluateTemperature(cabins[c],
                                                 BatteryTempThresholdC)
             \/ \E w \in FiledNow :
                   workOrders'[w] # Dispatched(c, NoWorkOrder, now)]_vars

-----------------------------------------------------------------------------
(* The promise *)

(***************************************************************************)
(* A work order as the job Callout speaks of: escalation does not take it  *)
(* out of the queue, worsening does not take it from its team but marks    *)
(* the job until work is resumed.                                          *)
(***************************************************************************)
StageOf ==
    [draft |-> "none", dispatched |-> "waiting", escalated |-> "waiting",
     accepted |-> "manned", in_progress |-> "manned", worsened |-> "worse",
     completed |-> "done", cancelled |-> "called_off"]

StageMap ==
    [w \in WorkOrderIDs |-> IF w \in DOMAIN workOrders
                            THEN StageOf[workOrders[w].status] ELSE "none"]

SinceMap ==
    [w \in WorkOrderIDs |-> IF w \in DOMAIN workOrders
                            THEN workOrders[w].dispatchedAt ELSE 0]

TeamMap ==
    [w \in WorkOrderIDs |-> IF w \in DOMAIN workOrders
                            THEN workOrders[w].assignedTo ELSE Nobody]

LeaderMap ==
    {w \in DOMAIN workOrders : workOrders[w].escalatedTo = "team_leader"}

BackupMap == {<<w, workOrders[w].parentOrderID>> : w \in alerted}

Promise == INSTANCE Callout WITH
    Jobs <- WorkOrderIDs, Teams <- Assignees, NoTeam <- Nobody,
    Patience <- WorkOrderAcceptTimeout,
    stage <- StageMap, since <- SinceMap, team <- TeamMap,
    leader <- LeaderMap, backup <- BackupMap

(***************************************************************************)
(* The loop of eight statuses, three kinds of report and a sweep does what *)
(* it is for: a job waits from the moment its own order was dispatched,    *)
(* the first team to take it keeps it, it is never finished untaken, one   *)
(* sweep hands the leader every job that has waited too long and no other, *)
(* and a job gets worse only in the step that calls in its backup.         *)
(***************************************************************************)
ImplementsCallout == Promise!Spec

-----------------------------------------------------------------------------
(* Liveness *)

(***************************************************************************)
(* No order waits for ever unanswered: one that has timed out is           *)
(* eventually escalated, unless it is accepted or cancelled first.         *)
(***************************************************************************)
TimedOutLeavesQueue ==
    \A w \in WorkOrderIDs :
        (w \in DOMAIN workOrders /\ AcceptanceExpired(workOrders[w]))
            ~> (w \in DOMAIN workOrders /\ workOrders[w].status # "dispatched")

=============================================================================
