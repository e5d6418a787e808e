---------------------------- MODULE ConfigProofs ----------------------------
(***************************************************************************)
(* The configuration the program runs with, for every file, every          *)
(* environment and every size of the integers.                             *)
(***************************************************************************)
EXTENDS Config, TLAPS

(***************************************************************************)
(* A positive number of seconds that fits is converted exactly.            *)
(***************************************************************************)
LEMMA DurationExact ==
    ASSUME NEW seconds \in Int, seconds > 0, seconds * Second < Half
    PROVE  Duration(seconds) = seconds * Second /\ Duration(seconds) > 0
<1> DEFINE d == seconds * Second
<1>1. d \in Int /\ d > 0
  BY ConfigAssumption
<1> HIDE DEF d
<1>2. (d + Half) % (2 * Half) = d + Half
  <2>1. /\ d + Half \in Int /\ 2 * Half \in Int
        /\ 0 <= d + Half /\ d + Half < 2 * Half
    BY <1>1, ConfigAssumption DEF d
  <2>. QED BY <2>1
<1>3. Duration(seconds) = ((d + Half) % (2 * Half)) - Half
  BY DEF Duration, d
<1>. QED  BY <1>1, <1>2, <1>3, ConfigAssumption DEF d

(***************************************************************************)
(* The nine settings, and a default that is usable for each.               *)
(***************************************************************************)
LEMMA DefaultUsable == DOMAIN Default = Settings /\ Usable(Default)
<1>1. DOMAIN Default = Settings
  BY DEF Default, Settings, Durations
<1>2. ASSUME NEW s \in Settings
      PROVE  Default[s] \in Int /\ Default[s] > 0
  BY ConfigAssumption DEF Default, Settings, Durations
<1>. QED  BY <1>1, <1>2 DEF Usable, Accepted

(***************************************************************************)
(* Layering, whatever is written in the file and in the environment: the   *)
(* environment wins over the file and the file over the defaults, and a    *)
(* value out of its range leaves the layer below in force.                 *)
(***************************************************************************)
THEOREM LayersInOrder ==
    ASSUME NEW reading \in Reading, NEW json \in [Settings -> Int], NEW env,
           \A s \in DOMAIN env : env[s] \in Int
    PROVE  Layered(Load(reading, json, env), reading, json, env)
<1> DEFINE file == IF reading = "read" THEN applyJSON(Default, json) ELSE Default
           cfg == Load(reading, json, env)
<1>1. ASSUME NEW s \in Settings
      PROVE  cfg[s] = IF s \in DOMAIN env /\ Accepted(s, env[s])
                      THEN env[s] ELSE file[s]
  BY DEF Load, applyEnv
<1>2. ASSUME NEW s \in Settings, ~(reading = "read" /\ json[s] > 0)
      PROVE  file[s] = Default[s]
  BY <1>2 DEF applyJSON
<1>3. ASSUME NEW s \in Settings, reading = "read", json[s] > 0,
             ~Overflows(json)
      PROVE  file[s] = IF s \in Durations THEN json[s] * Second ELSE json[s]
  <2>1. CASE s \in Durations
    <3>1. json[s] \in Int /\ json[s] * Second < Half
      BY <1>3, <2>1, ConfigAssumption DEF Overflows
    <3>2. Duration(json[s]) = json[s] * Second
      BY <1>3, <3>1, DurationExact
    <3>3. file[s] = Duration(json[s])
      BY <1>3, <2>1 DEF applyJSON
    <3>. QED  BY <2>1, <3>2, <3>3
  <2>2. CASE s \notin Durations
    BY <1>3, <2>2 DEF applyJSON
  <2>. QED  BY <2>1, <2>2
<1> HIDE DEF file, cfg
<1>4. Layered(cfg, reading, json, env)
  BY <1>1, <1>2, <1>3 DEF Layered
<1>. QED  BY <1>4 DEF cfg

(***************************************************************************)
(* A file whose durations are representable yields a usable configuration  *)
(* in every environment; the deadline and the timeouts the other modules   *)
(* assume to be natural numbers are positive.                              *)
(***************************************************************************)
THEOREM LoadedUsable ==
    ASSUME NEW reading \in Reading, NEW json \in [Settings -> Int], NEW env,
           \A s \in DOMAIN env : env[s] \in Int,
           ~Overflows(json)
    PROVE  Usable(Load(reading, json, env))
<1> DEFINE cfg == Load(reading, json, env)
<1>1. Layered(cfg, reading, json, env)
  BY LayersInOrder
<1> HIDE DEF cfg
<1>2. ASSUME NEW s \in Settings
      PROVE  cfg[s] \in Int /\ Accepted(s, cfg[s])
  <2>1. CASE s \in DOMAIN env /\ Accepted(s, env[s])
    BY <1>1, <2>1 DEF Layered
  <2>2. CASE /\ ~(s \in DOMAIN env /\ Accepted(s, env[s]))
             /\ reading = "read" /\ json[s] > 0
    <3>1. cfg[s] = IF s \in Durations THEN json[s] * Second ELSE json[s]
      BY <1>1, <2>2 DEF Layered
    <3>2. /\ json[s] \in Int /\ json[s] > 0
          /\ json[s] * Second \in Int /\ json[s] * Second > 0
      BY <2>2, ConfigAssumption
    <3>3. cfg[s] \in Int /\ cfg[s] > 0
      BY <3>1, <3>2
    <3>. QED  BY <3>3 DEF Accepted
  <2>3. CASE /\ ~(s \in DOMAIN env /\ Accepted(s, env[s]))
             /\ ~(reading = "read" /\ json[s] > 0)
    <3>1. cfg[s] = Default[s]
      BY <1>1, <2>3 DEF Layered
    <3>. QED  BY <3>1, DefaultUsable DEF Usable
  <2>. QED  BY <2>1, <2>2, <2>3
<1>3. Usable(cfg)
  BY <1>2 DEF Usable
<1>. QED  BY <1>3 DEF cfg

(***************************************************************************)
(* Whatever overflows, the scheduler's ticker gets a positive interval:    *)
(* the guard in Scheduler.loop is needed, and it is enough.                *)
(***************************************************************************)
THEOREM TickerNeverPanics ==
    ASSUME NEW reading \in Reading, NEW json \in [Settings -> Int], NEW env,
           \A s \in DOMAIN env : env[s] \in Int
    PROVE  TickerInterval(Load(reading, json, env)) > 0
<1> DEFINE file == IF reading = "read" THEN applyJSON(Default, json) ELSE Default
           interval == Load(reading, json, env).SchedulerInterval
<1>1. "SchedulerInterval" \in Settings /\ "SchedulerInterval" \in Durations
  BY DEF Settings, Durations
<1>2. Duration(json["SchedulerInterval"]) \in Int
  BY <1>1, ConfigAssumption DEF Duration
<1>3. Default["SchedulerInterval"] \in Int
  BY <1>1, DefaultUsable DEF Usable
<1>4. file["SchedulerInterval"] \in Int
  BY <1>1, <1>2, <1>3 DEF applyJSON
<1>5. interval \in Int
  BY <1>1, <1>4 DEF Load, applyEnv
<1> HIDE DEF interval
<1>6. TickerInterval(Load(reading, json, env))
         = IF interval <= 0 THEN 10 * Second ELSE interval
  BY DEF TickerInterval, interval
<1>. QED  BY <1>5, <1>6, ConfigAssumption

=============================================================================
