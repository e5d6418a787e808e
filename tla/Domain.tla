------------------------------- MODULE Domain -------------------------------
(***************************************************************************)
(* The pure part of the program (internal/domain): the three state         *)
(* machines, the sign-off and deadline predicates, the thermal rule and    *)
(* the load-shedding algorithm.  No state lives here.                      *)
(***************************************************************************)
EXTENDS Integers

-----------------------------------------------------------------------------
(* Work orders *)

workOrderTransitions ==
    [draft       |-> {"dispatched", "cancelled"},
     dispatched  |-> {"accepted", "escalated", "cancelled"},
     escalated   |-> {"accepted", "cancelled"},
     accepted    |-> {"in_progress", "cancelled"},
     in_progress |-> {"worsened", "completed", "cancelled"},
     worsened    |-> {"in_progress", "completed", "cancelled"},
     completed   |-> {},
     cancelled   |-> {}]

WorkOrderStatus == DOMAIN workOrderTransitions

WorkOrderCanTransition(from, to) == to \in workOrderTransitions[from]

-----------------------------------------------------------------------------
(* Black starts *)

blackStartTransitions ==
    [initiated    |-> {"in_progress", "failed"},
     in_progress  |-> {"bus_restored", "failed"},
     bus_restored |-> {"grid_syncing", "failed"},
     grid_syncing |-> {"completed", "failed"},
     completed    |-> {},
     failed       |-> {}]

BlackStartStatus == DOMAIN blackStartTransitions

BlackStartCanTransition(from, to) == to \in blackStartTransitions[from]

BlackStartTerminal(status) == status \in {"completed", "failed"}

(***************************************************************************)
(* The bus-voltage deadline has passed.  time.Time.After is strict: at the *)
(* deadline itself the black start is still in time.                       *)
(***************************************************************************)
IsOverdue(blackStart, now) ==
    /\ blackStart.status = "in_progress"
    /\ now > blackStart.deadline

-----------------------------------------------------------------------------
(* Grid connections *)

gridConnTransitions ==
    [requested       |-> {"dispatch_signed", "om_signed", "rejected"},
     dispatch_signed |-> {"dual_signed", "rejected"},
     om_signed       |-> {"dual_signed", "rejected"},
     dual_signed     |-> {"synchronized", "rejected"},
     synchronized    |-> {"completed"},
     completed       |-> {},
     rejected        |-> {}]

GridConnStatus == DOMAIN gridConnTransitions

GridConnCanTransition(from, to) == to \in gridConnTransitions[from]

GridConnTerminal(status) == status \in {"completed", "rejected"}

SignParty == {"dispatch", "operations"}

BothSigned(gridConn) == gridConn.signed = SignParty

-----------------------------------------------------------------------------
(* Loads *)

Energized == [energized |-> TRUE, shed |-> FALSE]
Shed      == [energized |-> FALSE, shed |-> TRUE]

\* Mutant: keeps only what ranks strictly above the priority to keep.
ShedLoadsFromPriority(loads, priority, keepPriority) ==
    [l \in DOMAIN loads |->
        IF priority[l] < keepPriority
        THEN Energized
        ELSE IF loads[l].energized /\ ~loads[l].shed
             THEN Shed
             ELSE loads[l]]

(***************************************************************************)
(* ShedLoadsByPriority: loads up to keepPriority are energized whatever    *)
(* they were; of the others, exactly those that are energized and not yet  *)
(* shed are switched off.  The stable sort only orders the reply.          *)
(***************************************************************************)
ShedLoadsByPriority(loads, priority, keepPriority) ==
    [l \in DOMAIN loads |->
        IF priority[l] <= keepPriority
        THEN Energized
        ELSE IF loads[l].energized /\ ~loads[l].shed
             THEN Shed
             ELSE loads[l]]

-----------------------------------------------------------------------------
(* Battery cabins *)

TooHot(cabin, threshold) == cabin.cellTemp > threshold

\* Mutant: lets the alarm follow the temperature.
EvaluateTemperatureUnlatched(cabin, threshold) ==
    [cabin EXCEPT !.alarmed = TooHot(cabin, threshold),
                  !.chargingFrozen = TooHot(cabin, threshold)]

(***************************************************************************)
(* EvaluateTemperature: above the threshold the cabin is alarmed, frozen   *)
(* and stops charging.  Nothing in the program ever takes that back.       *)
(***************************************************************************)
EvaluateTemperature(cabin, threshold) ==
    IF TooHot(cabin, threshold)
    THEN [cabin EXCEPT !.alarmed = TRUE, !.chargingFrozen = TRUE,
                       !.charging = FALSE]
    ELSE cabin

CanOperateOffGrid(cabin, minSOC) == cabin.soc >= minSOC

=============================================================================
