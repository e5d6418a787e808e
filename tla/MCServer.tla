------------------------------ MODULE MCServer ------------------------------
(***************************************************************************)
(* Server with the configuration it is started with: the theorems of       *)
(* ConfigProofs on small integers, evaluated before the run.               *)
(***************************************************************************)
EXTENDS Server, Config

(***************************************************************************)
(* Files that give one setting, or all of them, the same number; the last  *)
(* three overflow to a negative duration, to zero and to a positive one.   *)
(***************************************************************************)
Seconds == {-1, 0, 1, 7, Half \div Second, (2 * Half) \div Second,
            (2 * Half) \div Second + 7}

JSONs == {[s \in Settings |-> IF s \in given THEN n ELSE 0] :
             given \in {{s} : s \in Settings} \cup {Settings}, n \in Seconds}

Environments ==
    UNION {[given -> {-1, 0, 3}] :
              given \in {{}, EnvSettings} \cup {{s} : s \in EnvSettings}}

\* LayersInOrder, LoadedUsable, TickerNeverPanics
ASSUME ConfigLayers ==
    \A reading \in Reading, json \in JSONs, env \in Environments :
        LET cfg == Load(reading, json, env)
        IN /\ Layered(cfg, reading, json, env)
           /\ ~Overflows(json) => Usable(cfg)
           /\ TickerInterval(cfg) > 0

(***************************************************************************)
(* What LoadedUsable excludes happens: a file with too long a deadline     *)
(* makes every black start overdue as soon as it is in progress, and one   *)
(* with too long an interval leaves the ticker to the scheduler's guard.   *)
(***************************************************************************)
ASSUME ConfigOverflows ==
    \E json \in JSONs :
        LET cfg == Load("read", json, <<>>)
        IN cfg.BlackStartDeadline < 0 /\ cfg.SchedulerInterval < 0

=============================================================================
