------------------------------- MODULE Config -------------------------------
(***************************************************************************)
(* How the configuration is put together at start-up                       *)
(* (internal/config/config.go): built-in defaults, a JSON file over them,  *)
(* environment variables over both.  The constants of the other modules    *)
(* (the black-start deadline, the acceptance timeout, the two thresholds)  *)
(* are values of this module's Load.                                       *)
(*                                                                         *)
(* Durations are int64 nanoseconds and multiplication wraps around; a file *)
(* gives them in seconds.  Only signs and sizes of numbers matter, so that *)
(* the two floating-point settings are integers here as well.              *)
(***************************************************************************)
EXTENDS Integers

CONSTANTS
    Second,  \* time.Second, 10^9
    Half     \* 2^63: a Duration d has -Half <= d < Half

ASSUME ConfigAssumption ==
    /\ Second \in Nat \ {0}
    /\ Half \in Nat
    /\ 1200 * Second < Half  \* the longest default is representable

Durations ==
    {"ReadTimeout", "WriteTimeout", "WorkOrderAcceptTimeout",
     "BlackStartDeadline", "SMSResendInterval", "SchedulerInterval"}

Settings ==
    Durations \cup {"ServerPort", "BatteryTempThresholdC", "MinSOCPercent"}

(***************************************************************************)
(* Settings with an environment variable of their own.                     *)
(***************************************************************************)
EnvSettings ==
    {"ServerPort", "BatteryTempThresholdC", "MinSOCPercent",
     "WorkOrderAcceptTimeout", "BlackStartDeadline"}

Default ==
    [ServerPort             |-> 57579,
     ReadTimeout            |-> 30 * Second,
     WriteTimeout           |-> 30 * Second,
     BatteryTempThresholdC  |-> 45,
     MinSOCPercent          |-> 15,
     WorkOrderAcceptTimeout |-> 900 * Second,
     BlackStartDeadline     |-> 1200 * Second,
     SMSResendInterval      |-> 30 * Second,
     SchedulerInterval      |-> 10 * Second]

(***************************************************************************)
(* time.Duration(seconds) * time.Second                                    *)
(***************************************************************************)
Duration(seconds) == ((seconds * Second + Half) % (2 * Half)) - Half

(***************************************************************************)
(* A setting the file does not mention is 0 in json, which is not taken;   *)
(* so a file cannot set anything to 0.                                     *)
(***************************************************************************)
applyJSON(cfg, json) ==
    [s \in Settings |-> IF json[s] <= 0 THEN cfg[s]
                        ELSE IF s \in Durations THEN Duration(json[s])
                        ELSE json[s]]

(***************************************************************************)
(* env holds the variables that are set to something that parses; the      *)
(* others are ignored, and so is a value that is not positive, except a    *)
(* minimum charge of 0.  A duration too long to represent does not parse.  *)
(***************************************************************************)
Accepted(s, value) == value > 0 \/ (s = "MinSOCPercent" /\ value = 0)

applyEnv(cfg, env) ==
    [s \in Settings |-> IF s \in DOMAIN env /\ Accepted(s, env[s])
                        THEN env[s] ELSE cfg[s]]

(***************************************************************************)
(* What became of the file: a missing one is no error, one that cannot be  *)
(* read or parsed ends the program.                                        *)
(***************************************************************************)
Reading == {"read", "missing", "unreadable"}

LoadFails(reading) == reading = "unreadable"

Load(reading, json, env) ==
    applyEnv(IF reading = "read" THEN applyJSON(Default, json) ELSE Default,
             env)

(***************************************************************************)
(* Scheduler.loop's interval: time.NewTicker panics if it is not positive. *)
(***************************************************************************)
TickerInterval(cfg) ==
    IF cfg.SchedulerInterval <= 0 THEN 10 * Second ELSE cfg.SchedulerInterval

-----------------------------------------------------------------------------
(* What the rest of the program relies on *)

Overflows(json) == \E s \in Durations : json[s] * Second >= Half

(***************************************************************************)
(* All settings are usable: positive, or for the minimum charge not        *)
(* negative.  The assumptions of BlackStart and RepairLoop on the deadline *)
(* and the acceptance timeout follow.                                      *)
(***************************************************************************)
Usable(cfg) ==
    \A s \in Settings : cfg[s] \in Int /\ Accepted(s, cfg[s])

(***************************************************************************)
(* The layer a setting is taken from, stated from the outside: the         *)
(* environment if it has an acceptable value, else the file, else the      *)
(* default.                                                                *)
(***************************************************************************)
Layered(cfg, reading, json, env) ==
    \A s \in Settings :
        LET inEnv == s \in DOMAIN env /\ Accepted(s, env[s])
            inFile == reading = "read" /\ json[s] > 0
        IN /\ inEnv => cfg[s] = env[s]
           /\ ~inEnv /\ inFile /\ ~Overflows(json) =>
                 cfg[s] = IF s \in Durations THEN json[s] * Second ELSE json[s]
           /\ ~inEnv /\ ~inFile => cfg[s] = Default[s]

=============================================================================
