--------------------------- MODULE ThermalMonitor ---------------------------
(***************************************************************************)
(* The thermal monitor of the vision daemon (edge_ops/gema_vision,         *)
(* ThermalMonitor): a thread that samples the sensor, publishes the sample *)
(* and its level under a mutex, and calls back when the level changes.     *)
(* The level is that of the reading alone: the rate of change is left out, *)
(* and thermal_thresholds::HYSTERESIS is declared and used nowhere.        *)
(***************************************************************************)
EXTENDS Integers, FiniteSets

CONSTANT Temps  \* the temperatures the sensor can have, in Celsius

VARIABLES
  sensor,   \* what read_temp() returns; -1 when it cannot be read
  state_,   \* state_: temp_celsius and level
  monitor,  \* where monitor_loop is
  told,     \* the level that callback_ was last given
  running,  \* running_
  main,     \* where the thread that calls start() and stop() is
  good      \* history: the last reading that was not a failure

vars == <<sensor, state_, monitor, told, running, main, good>>

Levels   == 0 .. 5   \* OK, WARM, HOT, HOTTER, CRITICAL, EMERGENCY
Readings == Temps \cup {-1}

TypeOK ==
  /\ sensor \in Readings /\ good \in Temps \cup {0}
  /\ state_ \in [temp : Temps \cup {0}, level : Levels]
  /\ monitor \in {"none", "read", "changed", "sleep"}
  /\ told \in Levels /\ running \in BOOLEAN
  /\ main \in {"new", "up", "join", "stopped"}

\* evaluate_level: how many of thermal_thresholds are reached.
EvaluateLevel(temp) == Cardinality({t \in {65, 70, 75, 80, 85} : temp >= t})

Init ==
  /\ sensor = -1 /\ good = 0
  /\ state_ = [temp |-> 0, level |-> 0] /\ told = 0
  /\ monitor = "none" /\ running = FALSE /\ main = "new"

SensorChanges ==
  sensor' \in Readings /\ UNCHANGED <<state_, monitor, told, running, main, good>>

Start ==
  /\ main = "new" /\ main' = "up" /\ running' = TRUE /\ monitor' = "read"
  /\ UNCHANGED <<sensor, state_, told, good>>

Stop ==
  /\ main = "up" /\ main' = "join" /\ running' = FALSE
  /\ UNCHANGED <<sensor, state_, monitor, told, good>>

\* Mutant: stop() does not wait for the thread.
StopDetached ==
  /\ main = "join" /\ main' = "stopped"
  /\ UNCHANGED <<sensor, state_, monitor, told, running, good>>

StopJoin ==
  /\ main = "join" /\ monitor = "none" /\ main' = "stopped"
  /\ UNCHANGED <<sensor, state_, monitor, told, running, good>>

Goes(from, to) == monitor = from /\ monitor' = to /\ UNCHANGED <<sensor, running, main>>

\* Nothing changes when the sensor cannot be read; otherwise the state is
\* replaced and its old level compared in one critical section...
Sample ==
  \/ sensor = -1 /\ Goes("read", "sleep") /\ UNCHANGED <<state_, told, good>>
  \/ LET level == EvaluateLevel(sensor)
     IN /\ sensor # -1
        /\ Goes("read", IF level # state_.level THEN "changed" ELSE "sleep")
        /\ state_' = [temp |-> sensor, level |-> level] /\ good' = sensor
        /\ UNCHANGED told

\* ... and the callback is called outside it.
Callback ==
  /\ Goes("changed", "sleep") /\ told' = state_.level
  /\ UNCHANGED <<state_, good>>

\* Fifty sleeps of 100 ms, with running_ tested before each.
Sleep ==
  /\ Goes("sleep", IF running THEN "read" ELSE "none")
  /\ UNCHANGED <<state_, told, good>>

Next ==
  SensorChanges \/ Start \/ Stop \/ StopJoin \/ Sample \/ Callback \/ Sleep

Spec == Init /\ [][Next]_vars

-----------------------------------------------------------------------------
(* Properties                                                              *)

\* thermal_thresholds::HYSTERESIS, the cooling after which a level is restored.
HYSTERESIS == 5

\* Whatever the order of readings and failures, the level is that of the last good
\* reading, or at most the higher one that it would keep with the documented
\* hysteresis; the receiver of the callbacks has been told, or is about to be.
ThermalLevelTold ==
  /\ state_.temp = good
  /\ EvaluateLevel(good) <= state_.level /\ state_.level <= EvaluateLevel(good + HYSTERESIS)
  /\ monitor # "changed" => told = state_.level

\* Once stop() has returned, the receiver of the callbacks can be destroyed:
\* it is not called any more.
ThermalNoLateCallback == main = "stopped" => monitor = "none"

\* What the receiver of the callbacks relies on.
ThermalInv == TypeOK /\ ThermalLevelTold /\ ThermalNoLateCallback
=============================================================================
