------------------------- MODULE MCBlackStartSteps -------------------------
(***************************************************************************)
(* A finite instance of BlackStartSteps: one load of each priority from    *)
(* the start, and one that is registered while the program runs.           *)
(***************************************************************************)
EXTENDS BlackStartSteps, TLC

CONSTANTS hospital, residential, industrial, commercial

MCSeedLoads == {hospital, residential, industrial}
MCLoadIDs == MCSeedLoads \cup {commercial}
MCLoadPriority == [l \in MCLoadIDs |-> IF l = hospital THEN 1
                                       ELSE IF l = industrial THEN 3 ELSE 2]

\* The threads are interchangeable; nothing chooses among them.
Interchangeable == Permutations(Threads)

=============================================================================
