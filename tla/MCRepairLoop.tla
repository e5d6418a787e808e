---------------------------- MODULE MCRepairLoop ----------------------------
(***************************************************************************)
(* A finite instance of RepairLoop: one cabin, one other entity, two       *)
(* repair teams of which one sends an empty name, and a temperature on     *)
(* each side of the threshold and on it.                                   *)
(***************************************************************************)
EXTENDS RepairLoop

CONSTANTS zhao

MCAssignees == {zhao, Nobody}
MCCellTemps == {45, 46}

=============================================================================
