---------------------------- MODULE MCBlackStart ----------------------------
(***************************************************************************)
(* A finite instance of BlackStart: one load of each priority, of which    *)
(* the tertiary one is registered while the program runs.                  *)
(***************************************************************************)
EXTENDS BlackStart

CONSTANTS hospital, residential, industrial

MCLoadIDs == {hospital, residential, industrial}
MCSeedLoads == {hospital, residential}
MCLoadPriority == [l \in LoadIDs |-> IF l = hospital THEN 1
                                     ELSE IF l = residential THEN 2 ELSE 3]

=============================================================================
