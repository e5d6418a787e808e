---------------------------- MODULE DomainProofs ----------------------------
(***************************************************************************)
(* Facts about the pure operators every component uses: which identifiers  *)
(* are generated and what the transition tables permit.                    *)
(***************************************************************************)
EXTENDS Domain, Store, TLAPS

(***************************************************************************)
(* A generated identifier is one of the supply and not taken.              *)
(***************************************************************************)
LEMMA FreshIs ==
    ASSUME NEW ids, NEW collection, HasFresh(ids, collection)
    PROVE  /\ Fresh(ids, collection) \in ids
           /\ Fresh(ids, collection) \notin DOMAIN collection
  BY DEF HasFresh, Fresh

(***************************************************************************)
(* The black-start table is a chain with an exit to failed from every      *)
(* status that is not terminal.                                            *)
(***************************************************************************)
LEMMA BlackStartTable ==
    /\ BlackStartStatus = {"initiated", "in_progress", "bus_restored",
                           "grid_syncing", "completed", "failed"}
    /\ \A from \in BlackStartStatus :
          /\ BlackStartCanTransition(from, "in_progress")
                <=> from = "initiated"
          /\ BlackStartCanTransition(from, "bus_restored")
                <=> from = "in_progress"
          /\ BlackStartCanTransition(from, "grid_syncing")
                <=> from = "bus_restored"
          /\ BlackStartCanTransition(from, "completed")
                <=> from = "grid_syncing"
          /\ BlackStartCanTransition(from, "failed")
                <=> from \notin {"completed", "failed"}
  BY DEF BlackStartStatus, blackStartTransitions, BlackStartCanTransition

(***************************************************************************)
(* The grid-connection table admits both orders of signing and nothing     *)
(* after completion.                                                       *)
(***************************************************************************)
LEMMA GridConnTable ==
    /\ GridConnStatus = {"requested", "dispatch_signed", "om_signed",
                         "dual_signed", "synchronized", "completed",
                         "rejected"}
    /\ \A from \in GridConnStatus :
          /\ GridConnCanTransition(from, "dispatch_signed")
                <=> from = "requested"
          /\ GridConnCanTransition(from, "om_signed")
                <=> from = "requested"
          /\ GridConnCanTransition(from, "dual_signed")
                <=> from \in {"dispatch_signed", "om_signed"}
          /\ GridConnCanTransition(from, "synchronized")
                <=> from = "dual_signed"
          /\ GridConnCanTransition(from, "completed")
                <=> from = "synchronized"
  BY DEF GridConnStatus, gridConnTransitions, GridConnCanTransition

(***************************************************************************)
(* The work-order table: where each status may be entered from.            *)
(***************************************************************************)
LEMMA WorkOrderTable ==
    /\ WorkOrderStatus = {"draft", "dispatched", "escalated", "accepted",
                          "in_progress", "worsened", "completed", "cancelled"}
    /\ \A from \in WorkOrderStatus :
          /\ WorkOrderCanTransition(from, "escalated")
                <=> from = "dispatched"
          /\ WorkOrderCanTransition(from, "accepted")
                <=> from \in {"dispatched", "escalated"}
          /\ WorkOrderCanTransition(from, "in_progress")
                <=> from \in {"accepted", "worsened"}
          /\ WorkOrderCanTransition(from, "worsened")
                <=> from = "in_progress"
          /\ WorkOrderCanTransition(from, "completed")
                <=> from \in {"in_progress", "worsened"}
          /\ WorkOrderCanTransition(from, "cancelled")
                <=> from \notin {"completed", "cancelled"}
  BY DEF WorkOrderStatus, workOrderTransitions, WorkOrderCanTransition

(***************************************************************************)
(* Evaluating the temperature of a cabin only ever raises its alarm and    *)
(* stops its charging.                                                     *)
(***************************************************************************)
LEMMA EvaluateIs ==
    ASSUME NEW T, NEW S, NEW threshold,
           NEW cabin \in [cellTemp : T, soc : S, charging : BOOLEAN,
                          chargingFrozen : BOOLEAN, alarmed : BOOLEAN]
    PROVE  LET after == EvaluateTemperature(cabin, threshold)
           IN /\ after \in [cellTemp : T, soc : S, charging : BOOLEAN,
                             chargingFrozen : BOOLEAN, alarmed : BOOLEAN]
              /\ cabin.alarmed => after.alarmed
              /\ cabin.chargingFrozen => after.chargingFrozen
              /\ ~cabin.charging => ~after.charging
<1>1. CASE TooHot(cabin, threshold)
  BY <1>1 DEF EvaluateTemperature
<1>2. CASE ~TooHot(cabin, threshold)
  BY <1>2 DEF EvaluateTemperature
<1>. QED  BY <1>1, <1>2

=============================================================================
