---------------------------- MODULE CalloutProofs ----------------------------
(***************************************************************************)
(* RepairLoop implements Callout, for every set of identifiers and every   *)
(* timeout.  A call that files an order calls a job in, the methods that   *)
(* change one order are each one action of Callout or none, and the sweep  *)
(* hands over exactly the jobs that have waited too long; the last needs   *)
(* to know that an order escalated earlier is in the leader's hands.       *)
(***************************************************************************)
EXTENDS RepairLoopProofs

-----------------------------------------------------------------------------
(* The invariant the refinement needs *)

(***************************************************************************)
(* No call leaves a draft behind, and an escalation names the leader.      *)
(***************************************************************************)
LeaderNamed ==
    \A w \in DOMAIN workOrders :
        /\ workOrders[w].status # "draft"
        /\ workOrders[w].status = "escalated" =>
              workOrders[w].escalatedTo = "team_leader"

CalloutInv == WorseningInv /\ LeaderNamed

(***************************************************************************)
(* Every kind of step keeps escalated orders with the leader, and none     *)
(* makes a draft.                                                          *)
(***************************************************************************)
LEMMA CalloutInvNext == CalloutInv /\ [Next]_vars => CalloutInv'
<1> SUFFICES ASSUME CalloutInv, [Next]_vars PROVE LeaderNamed'
  BY WorseningInvNext DEF CalloutInv
<1>1. OrderSteps
  BY OrderStepCases DEF CalloutInv, WorseningInv
<1>2. SUFFICES ASSUME NEW w \in DOMAIN workOrders'
      PROVE  /\ workOrders'[w].status # "draft"
             /\ workOrders'[w].status = "escalated" =>
                   workOrders'[w].escalatedTo = "team_leader"
  BY DEF LeaderNamed
<1>3. CASE w \notin DOMAIN workOrders
  BY <1>1, <1>3 DEF OrderSteps, IsOpened
<1>4. CASE w \in DOMAIN workOrders
  <2>1. CASE IsAccepted(w)
    BY <2>1 DEF IsAccepted
  <2>2. CASE IsEscalated(w)
    BY <2>2 DEF IsEscalated
  <2>3. CASE IsAdvanced(w)
    BY <1>4, <2>3 DEF IsAdvanced, CalloutInv, LeaderNamed
  <2>. QED  BY <1>1, <1>4, <2>1, <2>2, <2>3 DEF OrderSteps
<1>. QED  BY <1>3, <1>4

(***************************************************************************)
(* The facts about the orders the steps below rest on.                     *)
(***************************************************************************)
LEMMA OrderFacts ==
    ASSUME CalloutInv
    PROVE  /\ now \in Nat
           /\ DOMAIN workOrders \subseteq WorkOrderIDs
           /\ alerted \subseteq DOMAIN workOrders
           /\ \A w \in DOMAIN workOrders :
                 /\ workOrders[w] \in WorkOrder
                 /\ workOrders[w].status \in WorkOrderStatus \ {"draft"}
                 /\ workOrders[w].status = "escalated" =>
                       workOrders[w].escalatedTo = "team_leader"
<1>1. TypeOK
  BY DEF CalloutInv, WorseningInv
<1>2. alerted \subseteq DOMAIN workOrders
  BY DEF CalloutInv, WorseningInv, WorseningsRecorded
<1>3. \A w \in DOMAIN workOrders : workOrders[w].status \in WorkOrderStatus
  BY <1>1 DEF TypeOK, WorkOrder
<1>. QED  BY <1>1, <1>2, <1>3 DEF TypeOK, CalloutInv, LeaderNamed

-----------------------------------------------------------------------------
(* What Callout sees of a step *)

(***************************************************************************)
(* With an empty collection no job has been called in.                     *)
(***************************************************************************)
LEMMA PromiseInit == Init => Promise!Init
  BY DEF Init, Promise!Init, StageMap, SinceMap, TeamMap, LeaderMap, BackupMap

(***************************************************************************)
(* Orders left alone are jobs left alone.                                  *)
(***************************************************************************)
LEMMA JobsSame ==
    ASSUME UNCHANGED <<workOrders, alerted>>
    PROVE  UNCHANGED <<StageMap, SinceMap, TeamMap, LeaderMap, BackupMap>>
  BY DEF StageMap, SinceMap, TeamMap, LeaderMap, BackupMap

(***************************************************************************)
(* Backup jobs keep the job they were called for.                          *)
(***************************************************************************)
LEMMA BackupSame ==
    ASSUME UNCHANGED alerted,
           \A w \in alerted :
              workOrders'[w].parentOrderID = workOrders[w].parentOrderID
    PROVE  BackupMap' = BackupMap
  BY DEF BackupMap

(***************************************************************************)
(* A method that replaces one order by one dispatched at the same time and *)
(* for the same parent changes the stage and the team of one job.          *)
(***************************************************************************)
LEMMA JobReplaced ==
    ASSUME CalloutInv, NEW id \in DOMAIN workOrders, NEW wo, Update(id, wo),
           wo.parentOrderID = workOrders[id].parentOrderID,
           wo.dispatchedAt = workOrders[id].dispatchedAt,
           wo.escalatedTo = workOrders[id].escalatedTo
    PROVE  /\ id \in WorkOrderIDs
           /\ StageMap[id] = StageOf[workOrders[id].status]
           /\ TeamMap[id] = workOrders[id].assignedTo
           /\ StageMap' = [StageMap EXCEPT ![id] = StageOf[wo.status]]
           /\ TeamMap' = [TeamMap EXCEPT ![id] = wo.assignedTo]
           /\ UNCHANGED <<now, SinceMap, LeaderMap, BackupMap>>
<1>1. id \in WorkOrderIDs /\ alerted \subseteq DOMAIN workOrders
  BY OrderFacts
<1>2. /\ DOMAIN workOrders' = DOMAIN workOrders
      /\ workOrders'[id] = wo
      /\ \A w \in DOMAIN workOrders : w # id => workOrders'[w] = workOrders[w]
      /\ UNCHANGED <<now, alerted>>
  BY DEF Update, Put
<1>3. StageMap' = [StageMap EXCEPT ![id] = StageOf[wo.status]]
  BY <1>1, <1>2 DEF StageMap
<1>4. TeamMap' = [TeamMap EXCEPT ![id] = wo.assignedTo]
  BY <1>1, <1>2 DEF TeamMap
<1>5. SinceMap' = SinceMap
  BY <1>1, <1>2 DEF SinceMap
<1>6. LeaderMap' = LeaderMap
  BY <1>1, <1>2 DEF LeaderMap
<1>7. BackupMap' = BackupMap
  BY <1>1, <1>2, BackupSame
<1>. QED
  BY <1>1, <1>2, <1>3, <1>4, <1>5, <1>6, <1>7 DEF StageMap, TeamMap

(***************************************************************************)
(* A stage or a team assigned to itself is no change.                      *)
(***************************************************************************)
LEMMA SameAgain ==
    /\ \A w \in WorkOrderIDs : StageMap = [StageMap EXCEPT ![w] = StageMap[w]]
    /\ \A w \in WorkOrderIDs : TeamMap = [TeamMap EXCEPT ![w] = TeamMap[w]]
  BY DEF StageMap, TeamMap

(***************************************************************************)
(* A dispatched order, added to the others, is one more waiting job.       *)
(***************************************************************************)
LEMMA JobAdded ==
    ASSUME CalloutInv, NEW new \in WorkOrderIDs, new \notin DOMAIN workOrders,
           NEW entity, NEW parent,
           DOMAIN workOrders' = DOMAIN workOrders \cup {new},
           workOrders'[new] = Dispatched(entity, parent, now),
           \A w \in DOMAIN workOrders :
              /\ workOrders'[w].dispatchedAt = workOrders[w].dispatchedAt
              /\ workOrders'[w].assignedTo = workOrders[w].assignedTo
              /\ workOrders'[w].escalatedTo = workOrders[w].escalatedTo
    PROVE  /\ workOrders'[new].status = "dispatched"
           /\ SinceMap' = [SinceMap EXCEPT ![new] = now]
           /\ UNCHANGED <<TeamMap, LeaderMap>>
<1>1. /\ workOrders'[new].status = "dispatched"
      /\ workOrders'[new].dispatchedAt = now
      /\ workOrders'[new].assignedTo = Nobody
      /\ workOrders'[new].escalatedTo = ""
  <2> DEFINE opened == Dispatched(entity, parent, now)
  <2>1. /\ opened.status = "dispatched"
        /\ opened.dispatchedAt = now
        /\ opened.assignedTo = Nobody
        /\ opened.escalatedTo = ""
    BY DEF Dispatched
  <2>2. workOrders'[new] = opened
    OBVIOUS
  <2> HIDE DEF opened
  <2>. QED  BY <2>1, <2>2
<1>2. SinceMap' = [SinceMap EXCEPT ![new] = now]
  BY <1>1 DEF SinceMap
<1>3. TeamMap' = TeamMap
  BY <1>1 DEF TeamMap
<1>4. LeaderMap' = LeaderMap
  BY <1>1 DEF LeaderMap
<1>. QED  BY <1>1, <1>2, <1>3, <1>4

-----------------------------------------------------------------------------
(* The steps *)

(***************************************************************************)
(* Reports and anomalous inspections call a job in.                        *)
(***************************************************************************)
LEMMA OpensCallsIn ==
    ASSUME CalloutInv, HasFresh(WorkOrderIDs, workOrders), NEW entity,
           UNCHANGED <<now, alerted>>,
           workOrders' = Put(workOrders, Fresh(WorkOrderIDs, workOrders),
                             Dispatched(entity, NoWorkOrder, now))
    PROVE  Promise!Next
<1> DEFINE new == Fresh(WorkOrderIDs, workOrders)
           opened == Dispatched(entity, NoWorkOrder, now)
<1>1. new \in WorkOrderIDs /\ new \notin DOMAIN workOrders
  BY FreshIs
<1>2. workOrders' = Put(workOrders, new, opened)
  OBVIOUS
<1> HIDE DEF new, opened
<1>3. /\ DOMAIN workOrders' = DOMAIN workOrders \cup {new}
      /\ workOrders'[new] = opened
      /\ \A w \in DOMAIN workOrders : workOrders'[w] = workOrders[w]
  BY <1>1, <1>2 DEF Put
<1>4. /\ StageMap[new] = "none"
      /\ StageMap' = [StageMap EXCEPT ![new] = "waiting"]
      /\ SinceMap' = [SinceMap EXCEPT ![new] = now]
      /\ UNCHANGED <<TeamMap, LeaderMap>>
  <2>1. workOrders'[new] = Dispatched(entity, NoWorkOrder, now)
    BY <1>3 DEF opened
  <2>2. /\ workOrders'[new].status = "dispatched"
        /\ SinceMap' = [SinceMap EXCEPT ![new] = now]
        /\ UNCHANGED <<TeamMap, LeaderMap>>
    BY <1>1, <1>3, <2>1, JobAdded
  <2>3. StageOf["dispatched"] = "waiting"
    BY DEF StageOf
  <2>4. /\ StageMap[new] = "none"
        /\ StageMap' = [StageMap EXCEPT ![new] = "waiting"]
    BY <1>1, <1>3, <2>2, <2>3 DEF StageMap
  <2>. QED  BY <2>2, <2>4
<1>5. BackupMap' = BackupMap
  BY <1>3, OrderFacts, BackupSame
<1>6. Promise!CallIn(new)
  BY <1>4, <1>5 DEF Promise!CallIn
<1>. QED  BY <1>1, <1>6 DEF Promise!Next

(***************************************************************************)
(* Whoever accepts an order takes the job.                                 *)
(***************************************************************************)
LEMMA AcceptTakes ==
    ASSUME CalloutInv, NEW id \in WorkOrderIDs, NEW assignee \in Assignees,
           AcceptWorkOrder(id, assignee)
    PROVE  Promise!Next
<1> DEFINE wo == [workOrders[id] EXCEPT !.status = "accepted",
                                        !.assignedTo = assignee,
                                        !.acceptedAt = now]
<1>1. /\ id \in DOMAIN workOrders
      /\ workOrders[id].status \in {"dispatched", "escalated"}
      /\ Update(id, wo)
  BY DEF AcceptWorkOrder
<1>2. /\ wo.status = "accepted"
      /\ wo.assignedTo = assignee
      /\ wo.parentOrderID = workOrders[id].parentOrderID
      /\ wo.dispatchedAt = workOrders[id].dispatchedAt
      /\ wo.escalatedTo = workOrders[id].escalatedTo
  BY <1>1, OrderFacts DEF WorkOrder
<1> HIDE DEF wo
<1>3. /\ StageMap[id] = StageOf[workOrders[id].status]
      /\ StageMap' = [StageMap EXCEPT ![id] = StageOf["accepted"]]
      /\ TeamMap' = [TeamMap EXCEPT ![id] = assignee]
      /\ UNCHANGED <<now, SinceMap, LeaderMap, BackupMap>>
  BY <1>1, <1>2, JobReplaced
<1>4. /\ StageOf[workOrders[id].status] = "waiting"
      /\ StageOf["accepted"] = "manned"
  BY <1>1 DEF StageOf
<1>5. Promise!Take(id, assignee)
  BY <1>3, <1>4 DEF Promise!Take
<1>. QED  BY <1>5 DEF Promise!Next

(***************************************************************************)
(* The three methods that only move an order along its table: what they    *)
(* are to Callout is decided by the stages before and after.               *)
(***************************************************************************)
LEMMA MovedJob ==
    ASSUME CalloutInv, NEW id \in DOMAIN workOrders,
           NEW status \in WorkOrderStatus,
           Update(id, [workOrders[id] EXCEPT !.status = status])
    PROVE  /\ id \in WorkOrderIDs
           /\ StageMap[id] = StageOf[workOrders[id].status]
           /\ StageMap' = [StageMap EXCEPT ![id] = StageOf[status]]
           /\ UNCHANGED <<now, SinceMap, TeamMap, LeaderMap, BackupMap>>
<1> DEFINE wo == [workOrders[id] EXCEPT !.status = status]
<1>1. /\ wo.status = status
      /\ wo.assignedTo = workOrders[id].assignedTo
      /\ wo.parentOrderID = workOrders[id].parentOrderID
      /\ wo.dispatchedAt = workOrders[id].dispatchedAt
      /\ wo.escalatedTo = workOrders[id].escalatedTo
      /\ Update(id, wo)
  BY OrderFacts DEF WorkOrder
<1> HIDE DEF wo
<1>2. /\ id \in WorkOrderIDs
      /\ StageMap[id] = StageOf[workOrders[id].status]
      /\ StageMap' = [StageMap EXCEPT ![id] = StageOf[status]]
      /\ TeamMap' = [TeamMap EXCEPT ![id] = TeamMap[id]]
      /\ UNCHANGED <<now, SinceMap, LeaderMap, BackupMap>>
  BY <1>1, JobReplaced
<1>. QED  BY <1>2, SameAgain

(***************************************************************************)
(* To start work is nothing new to Callout; to restart it after a          *)
(* worsening is to resume the job.                                         *)
(***************************************************************************)
LEMMA StartResumes ==
    ASSUME CalloutInv, NEW id \in WorkOrderIDs, StartWorkOrder(id)
    PROVE  Promise!Next \/ UNCHANGED Promise!vars
<1>1. /\ id \in DOMAIN workOrders
      /\ workOrders[id].status \in {"accepted", "worsened"}
      /\ Update(id, [workOrders[id] EXCEPT !.status = "in_progress"])
  BY OrderFacts, WorkOrderTable DEF StartWorkOrder
<1>2. /\ StageMap[id] = StageOf[workOrders[id].status]
      /\ StageMap' = [StageMap EXCEPT ![id] = StageOf["in_progress"]]
      /\ UNCHANGED <<now, SinceMap, TeamMap, LeaderMap, BackupMap>>
  BY <1>1, MovedJob, WorkOrderTable
<1>3. CASE workOrders[id].status = "accepted"
  <2>1. StageOf["accepted"] = "manned" /\ StageOf["in_progress"] = "manned"
    BY DEF StageOf
  <2>2. StageMap' = StageMap
    BY <1>2, <1>3, <2>1, SameAgain
  <2>. QED  BY <1>2, <2>2 DEF Promise!vars
<1>4. CASE workOrders[id].status = "worsened"
  <2>1. StageOf["worsened"] = "worse" /\ StageOf["in_progress"] = "manned"
    BY DEF StageOf
  <2>2. Promise!Resume(id)
    BY <1>2, <1>4, <2>1 DEF Promise!Resume
  <2>. QED  BY <2>2 DEF Promise!Next
<1>. QED  BY <1>1, <1>3, <1>4

(***************************************************************************)
(* Completion finishes a job a team has taken.                             *)
(***************************************************************************)
LEMMA CompleteFinishes ==
    ASSUME CalloutInv, NEW id \in WorkOrderIDs, CompleteWorkOrder(id)
    PROVE  Promise!Next
<1>1. /\ id \in DOMAIN workOrders
      /\ workOrders[id].status \in {"in_progress", "worsened"}
      /\ Update(id, [workOrders[id] EXCEPT !.status = "completed"])
  BY OrderFacts, WorkOrderTable DEF CompleteWorkOrder
<1>2. /\ StageOf[workOrders[id].status] \in {"manned", "worse"}
      /\ StageOf["completed"] = "done"
  BY <1>1 DEF StageOf
<1>3. Promise!Finish(id)
  BY <1>1, <1>2, MovedJob, WorkOrderTable DEF Promise!Finish
<1>. QED  BY <1>3 DEF Promise!Next

(***************************************************************************)
(* Cancellation calls off a job that waits or that a team has taken.       *)
(***************************************************************************)
LEMMA CancelCallsOff ==
    ASSUME CalloutInv, NEW id \in WorkOrderIDs, CancelWorkOrder(id)
    PROVE  Promise!Next
<1>1. /\ id \in DOMAIN workOrders
      /\ workOrders[id].status \in {"dispatched", "escalated", "accepted",
                                    "in_progress", "worsened"}
      /\ Update(id, [workOrders[id] EXCEPT !.status = "cancelled"])
  BY OrderFacts, WorkOrderTable DEF CancelWorkOrder
<1>2. /\ StageOf[workOrders[id].status] \in {"waiting", "manned", "worse"}
      /\ StageOf["cancelled"] = "called_off"
  BY <1>1 DEF StageOf
<1>3. Promise!CallOff(id)
  BY <1>1, <1>2, MovedJob, WorkOrderTable DEF Promise!CallOff
<1>. QED  BY <1>3 DEF Promise!Next

(***************************************************************************)
(* A worsening marks its job and calls in the backup.                      *)
(***************************************************************************)
LEMMA WorsenCallsBackup ==
    ASSUME CalloutInv, NEW id \in WorkOrderIDs, WorsenWorkOrder(id)
    PROVE  Promise!Next
<1> DEFINE new == Fresh(WorkOrderIDs, workOrders)
           worsened == [workOrders[id] EXCEPT !.status = "worsened",
                                              !.backupNotified = TRUE]
           opened == Dispatched(workOrders[id].entity, id, now)
<1>1. /\ id \in DOMAIN workOrders
      /\ new \in WorkOrderIDs /\ new \notin DOMAIN workOrders
      /\ workOrders[id].status = "in_progress"
      /\ workOrders' = Put(Put(workOrders, id, worsened), new, opened)
      /\ alerted' = alerted \cup {new}
      /\ now' = now
  BY OrderFacts, WorkOrderTable, FreshIs DEF WorsenWorkOrder
<1>2. /\ worsened.status = "worsened"
      /\ worsened.assignedTo = workOrders[id].assignedTo
      /\ worsened.parentOrderID = workOrders[id].parentOrderID
      /\ worsened.dispatchedAt = workOrders[id].dispatchedAt
      /\ worsened.escalatedTo = workOrders[id].escalatedTo
  BY <1>1, OrderFacts DEF WorkOrder
<1>3. opened.parentOrderID = id
  BY DEF Dispatched
<1> HIDE DEF new, worsened, opened
<1>4. /\ DOMAIN workOrders' = DOMAIN workOrders \cup {new}
      /\ workOrders'[id] = worsened
      /\ workOrders'[new] = opened
      /\ \A w \in DOMAIN workOrders : w # id => workOrders'[w] = workOrders[w]
  BY <1>1 DEF Put
<1>5. \A w \in DOMAIN workOrders :
         /\ workOrders'[w].dispatchedAt = workOrders[w].dispatchedAt
         /\ workOrders'[w].assignedTo = workOrders[w].assignedTo
         /\ workOrders'[w].escalatedTo = workOrders[w].escalatedTo
         /\ workOrders'[w].parentOrderID = workOrders[w].parentOrderID
  BY <1>1, <1>2, <1>4
<1>6. workOrders'[new] = Dispatched(workOrders[id].entity, id, now)
  BY <1>4 DEF opened
<1>7. /\ SinceMap' = [SinceMap EXCEPT ![new] = now]
      /\ UNCHANGED <<TeamMap, LeaderMap>>
  BY <1>1, <1>4, <1>5, <1>6, JobAdded
<1>8. /\ StageMap[id] = "manned"
      /\ StageMap[new] = "none"
      /\ StageMap' = [StageMap EXCEPT ![id] = "worse", ![new] = "waiting"]
  <2>1. /\ StageOf["in_progress"] = "manned"
        /\ StageOf["worsened"] = "worse"
        /\ StageOf["dispatched"] = "waiting"
    BY DEF StageOf
  <2>2. workOrders'[new].status = "dispatched"
    BY <1>1, <1>4, <1>5, <1>6, JobAdded
  <2>3. id \in WorkOrderIDs /\ id # new
    BY <1>1
  <2>4. \A w \in WorkOrderIDs :
           StageMap'[w] = IF w = new THEN "waiting"
                          ELSE IF w = id THEN "worse" ELSE StageMap[w]
    BY <1>1, <1>2, <1>4, <2>1, <2>2, <2>3 DEF StageMap
  <2>5. /\ DOMAIN StageMap = WorkOrderIDs
        /\ StageMap' = [w \in WorkOrderIDs |-> StageMap'[w]]
    BY DEF StageMap
  <2>6. StageMap[id] = "manned" /\ StageMap[new] = "none"
    BY <1>1, <2>1, <2>3 DEF StageMap
  <2>7. StageMap' = [StageMap EXCEPT ![id] = "worse", ![new] = "waiting"]
    BY <1>1, <2>3, <2>4, <2>5
  <2>. QED  BY <2>6, <2>7
<1>9. BackupMap' = BackupMap \cup {<<new, id>>}
  <2>1. \A w \in alerted :
           workOrders'[w].parentOrderID = workOrders[w].parentOrderID
    BY <1>5, OrderFacts
  <2>2. workOrders'[new].parentOrderID = id
    BY <1>3, <1>4
  <2>. QED  BY <1>1, <2>1, <2>2 DEF BackupMap
<1>10. Promise!CallBackup(id, new)
  BY <1>1, <1>7, <1>8, <1>9 DEF Promise!CallBackup
<1>. QED  BY <1>1, <1>10 DEF Promise!Next

(***************************************************************************)
(* A sweep hands over what has waited too long and was not handed over     *)
(* before: together, every job that waits too long.                        *)
(***************************************************************************)
LEMMA SweepHandsOver ==
    ASSUME CalloutInv, EscalateTimedOutWorkOrders
    PROVE  Promise!Next
<1>a. /\ now \in Nat
      /\ DOMAIN workOrders \subseteq WorkOrderIDs
      /\ alerted \subseteq DOMAIN workOrders
      /\ \A w \in DOMAIN workOrders :
            /\ workOrders[w] \in WorkOrder
            /\ workOrders[w].status = "escalated" =>
                  workOrders[w].escalatedTo = "team_leader"
  BY OrderFacts
<1>1. /\ DOMAIN workOrders' = DOMAIN workOrders
      /\ \A w \in DOMAIN workOrders :
            IF AcceptanceExpired(workOrders[w])
            THEN workOrders'[w] = [workOrders[w] EXCEPT
                                      !.status = "escalated",
                                      !.escalatedTo = "team_leader"]
            ELSE workOrders'[w] = workOrders[w]
      /\ UNCHANGED <<now, alerted>>
  BY DEF EscalateTimedOutWorkOrders, TimedOut
<1>2. \A w \in DOMAIN workOrders :
         /\ StageOf[workOrders'[w].status] = StageOf[workOrders[w].status]
         /\ workOrders'[w].dispatchedAt = workOrders[w].dispatchedAt
         /\ workOrders'[w].assignedTo = workOrders[w].assignedTo
         /\ workOrders'[w].parentOrderID = workOrders[w].parentOrderID
         /\ (workOrders'[w].escalatedTo = "team_leader")
               <=> \/ workOrders[w].escalatedTo = "team_leader"
                   \/ AcceptanceExpired(workOrders[w])
  <2> SUFFICES ASSUME NEW w \in DOMAIN workOrders
      PROVE  /\ StageOf[workOrders'[w].status] = StageOf[workOrders[w].status]
             /\ workOrders'[w].dispatchedAt = workOrders[w].dispatchedAt
             /\ workOrders'[w].assignedTo = workOrders[w].assignedTo
             /\ workOrders'[w].parentOrderID = workOrders[w].parentOrderID
             /\ (workOrders'[w].escalatedTo = "team_leader")
                   <=> \/ workOrders[w].escalatedTo = "team_leader"
                       \/ AcceptanceExpired(workOrders[w])
    OBVIOUS
  <2>1. CASE AcceptanceExpired(workOrders[w])
    <3>1. /\ workOrders'[w].status = "escalated"
          /\ workOrders'[w].escalatedTo = "team_leader"
          /\ workOrders'[w].dispatchedAt = workOrders[w].dispatchedAt
          /\ workOrders'[w].assignedTo = workOrders[w].assignedTo
          /\ workOrders'[w].parentOrderID = workOrders[w].parentOrderID
      BY <1>a, <1>1, <2>1 DEF WorkOrder
    <3>2. /\ workOrders[w].status = "dispatched"
          /\ StageOf["escalated"] = StageOf["dispatched"]
      BY <2>1 DEF AcceptanceExpired, StageOf
    <3>. QED  BY <2>1, <3>1, <3>2
  <2>2. CASE ~AcceptanceExpired(workOrders[w])
    BY <1>1, <2>2
  <2>. QED  BY <2>1, <2>2
<1>3. UNCHANGED <<StageMap, SinceMap, TeamMap>>
  BY <1>1, <1>2 DEF StageMap, SinceMap, TeamMap
<1>4. BackupMap' = BackupMap
  BY <1>a, <1>1, <1>2, BackupSame
<1>5. \A w \in WorkOrderIDs :
         /\ StageMap[w] = "waiting"
         /\ now - SinceMap[w] > WorkOrderAcceptTimeout
         <=> /\ w \in DOMAIN workOrders
             /\ workOrders[w].status \in {"dispatched", "escalated"}
             /\ now - workOrders[w].dispatchedAt > WorkOrderAcceptTimeout
  <2> SUFFICES ASSUME NEW w \in WorkOrderIDs
      PROVE  /\ StageMap[w] = "waiting"
             /\ now - SinceMap[w] > WorkOrderAcceptTimeout
             <=> /\ w \in DOMAIN workOrders
                 /\ workOrders[w].status \in {"dispatched", "escalated"}
                 /\ now - workOrders[w].dispatchedAt > WorkOrderAcceptTimeout
    OBVIOUS
  <2>1. CASE w \notin DOMAIN workOrders
    BY <2>1 DEF StageMap
  <2>2. CASE w \in DOMAIN workOrders
    <3>1. /\ StageMap[w] = StageOf[workOrders[w].status]
          /\ SinceMap[w] = workOrders[w].dispatchedAt
      BY <2>2 DEF StageMap, SinceMap
    <3>2. StageOf[workOrders[w].status] = "waiting"
            <=> workOrders[w].status \in {"dispatched", "escalated"}
      <4>1. workOrders[w].status \in WorkOrderStatus
        BY <2>2, OrderFacts
      <4>. QED  BY <4>1, WorkOrderTable DEF StageOf
    <3>. QED  BY <2>2, <3>1, <3>2
  <2>. QED  BY <2>1, <2>2
<1>6. LeaderMap' = LeaderMap \cup
         {w \in WorkOrderIDs : /\ StageMap[w] = "waiting"
                               /\ now - SinceMap[w] > WorkOrderAcceptTimeout}
  <2>1. ASSUME NEW w \in LeaderMap'
        PROVE  \/ w \in LeaderMap
               \/ /\ w \in WorkOrderIDs
                  /\ StageMap[w] = "waiting"
                  /\ now - SinceMap[w] > WorkOrderAcceptTimeout
    BY <1>a, <1>1, <1>2, <1>5, <2>1 DEF LeaderMap, AcceptanceExpired
  <2>2. LeaderMap \subseteq LeaderMap'
    BY <1>1, <1>2 DEF LeaderMap
  <2>3. ASSUME NEW w \in WorkOrderIDs, StageMap[w] = "waiting",
               now - SinceMap[w] > WorkOrderAcceptTimeout
        PROVE  w \in LeaderMap'
    <3>1. /\ w \in DOMAIN workOrders
          /\ workOrders[w].status \in {"dispatched", "escalated"}
          /\ now - workOrders[w].dispatchedAt > WorkOrderAcceptTimeout
      BY <1>5, <2>3
    <3>2. \/ workOrders[w].escalatedTo = "team_leader"
          \/ AcceptanceExpired(workOrders[w])
      BY <1>a, <3>1 DEF AcceptanceExpired
    <3>. QED  BY <1>1, <1>2, <3>1, <3>2 DEF LeaderMap
  <2>. QED  BY <2>1, <2>2, <2>3
<1>7. Promise!HandOver
  BY <1>1, <1>3, <1>4, <1>6 DEF Promise!HandOver
<1>. QED  BY <1>7 DEF Promise!Next

(***************************************************************************)
(* Every step of RepairLoop is a step of Callout or none.                  *)
(***************************************************************************)
LEMMA PromiseNext ==
    CalloutInv /\ [Next]_vars => [Promise!Next]_(Promise!vars)
<1> SUFFICES ASSUME CalloutInv, [Next]_vars
             PROVE  Promise!Next \/ UNCHANGED Promise!vars
  OBVIOUS
<1>1. ASSUME UNCHANGED <<now, workOrders, alerted>>
      PROVE  UNCHANGED Promise!vars
  BY <1>1, JobsSame DEF Promise!vars
<1>2. ASSUME NEW c \in CabinIDs, NEW cabin \in BatteryCabin,
             RegisterBatteryCabin(c, cabin)
      PROVE  UNCHANGED Promise!vars
  BY <1>1, <1>2 DEF RegisterBatteryCabin
<1>3. ASSUME NEW c \in CabinIDs, NEW temp \in CellTemps, NEW soc \in SOCs,
             UpdateBatteryCabinTelemetry(c, temp, soc)
      PROVE  UNCHANGED Promise!vars
  BY <1>1, <1>3 DEF UpdateBatteryCabinTelemetry
<1>4. ASSUME NEW entity \in Entities, CreateInspection(entity)
      PROVE  UNCHANGED Promise!vars
  BY <1>1, <1>4 DEF CreateInspection
<1>5. ASSUME NEW entity \in Entities, ReportAnomaly(entity)
      PROVE  Promise!Next
  BY <1>5, OpensCallsIn DEF ReportAnomaly
<1>6. ASSUME NEW i \in InspectionIDs, NEW anomaly \in BOOLEAN,
             RecordInspectionResult(i, anomaly)
      PROVE  Promise!Next \/ UNCHANGED Promise!vars
  BY <1>1, <1>6, OpensCallsIn DEF RecordInspectionResult
<1>7. CASE Tick
  BY <1>7, JobsSame DEF Tick, Promise!Tick, Promise!Next
<1>8. CASE UNCHANGED vars
  BY <1>1, <1>8 DEF vars
<1>. QED
  BY <1>2, <1>3, <1>4, <1>5, <1>6, <1>7, <1>8, AcceptTakes, StartResumes,
     WorsenCallsBackup, CompleteFinishes, CancelCallsOff, SweepHandsOver
     DEF Next

(***************************************************************************)
(* The methods of repair.go and inspection.go and the escalation sweep     *)
(* together keep the promise of Callout, in every order in which they may  *)
(* be called.                                                              *)
(***************************************************************************)
THEOREM PromiseKept == Spec => ImplementsCallout
<1>1. Init => Promise!Init
  BY PromiseInit
<1>2. Init => CalloutInv
  BY DEF Init, CalloutInv, LeaderNamed, WorseningInv, TypeOK,
         WorseningsRecorded, ChildrenOf
<1>. QED
  BY <1>1, <1>2, CalloutInvNext, PromiseNext, PTL
     DEF Spec, ImplementsCallout, Promise!Spec

=============================================================================
