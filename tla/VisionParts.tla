----------------------------- MODULE VisionParts -----------------------------
(***************************************************************************)
(* What runs beside the pipeline of the vision daemon, what it does to one *)
(* frame, its configuration, the keys of its update agent and the watchdog *)
(* of vision_edge.                                                         *)
(* These parts share no variable and no property speaks of two of them, so *)
(* a behaviour has the steps of one part only: letting them interleave     *)
(* would multiply the states and reach nothing new.                        *)
(***************************************************************************)
EXTENDS Integers, Sequences

CONSTANTS
  TelemetryFrames,    \* TelemetryCollector: bound on the frames
  Temps,              \* ThermalMonitor: what the sensor can show
  KeepaliveInterval, KeepaliveTimeout, KeepaliveMisses,       \* Watchdog
  EdgePoll, EdgeTimeout, EdgeIterations,                      \* EdgeWatchdog
  Limit, CollectorFrames, CollectorSets, CollectorSeconds,    \* DataCollector
  BatchSize, MaxLoads,                                        \* SpatialCalibrator
  Ranges, Ratio, Regions,                                     \* PostProcDispatcher
  NumClasses, Values, NotFinite, Timesteps,                   \* CtcDecode
  MaxKey, Faults,                                             \* OtaKeys
  NumFields, FieldValues, MaxUpdates, MaxStarts, ConfigFaults \* ConfigManager

ASSUME TelemetryAssumption == TelemetryFrames \in Nat

ASSUME ThermalAssumption == Temps \subseteq Int

ASSUME KeepaliveAssumption ==
  KeepaliveInterval \in Nat /\ KeepaliveTimeout \in Nat \ {0} /\ KeepaliveMisses \in Nat

ASSUME EdgeAssumption ==
  EdgePoll \in Nat /\ EdgeTimeout \in Nat /\ EdgeIterations \in Nat

ASSUME CollectorAssumption ==
  /\ Limit \in Nat \ {0}
  /\ CollectorFrames \in Nat /\ CollectorSets \in Nat /\ CollectorSeconds \in Nat

ASSUME CalibratorAssumption == BatchSize \in Nat /\ MaxLoads \in Nat

\* Glare is taken out before the colours are matched.
ASSUME PostProcAssumption ==
  /\ "none" \notin Ranges /\ Ratio \in 0 .. 100
  /\ Regions \subseteq [total : Nat, glare : Nat, hits : [Ranges -> Nat]]
  /\ \A r \in Regions : \A range \in Ranges : r.glare + r.hits[range] <= r.total

ASSUME CtcAssumption ==
  /\ NumClasses \in Nat \ {0} /\ Timesteps \in Nat
  /\ Values \subseteq Int /\ NotFinite \notin Values

ASSUME KeysAssumption == MaxKey \in Nat

\* Every field has a default, 0.
ASSUME ConfigAssumption ==
  /\ NumFields \in Nat /\ 0 \in FieldValues
  /\ MaxUpdates \in Nat /\ MaxStarts \in Nat
  /\ ConfigFaults \subseteq {"open", "full", "rename", "kill", "power"}

VARIABLES
  part,
  \* TelemetryCollector
  frames, defects, consumer, history, telemetry_running, collector,
  telemetry_main, last, delta, payload, base, sum,
  \* ThermalMonitor
  sensor, state_, monitor, told, thermal_running, thermal_main, good,
  \* Watchdog
  keepalive_running, keepalive, keepalive_left, misses, keepalive_main, armed,
  magic, timer, board,
  \* EdgeWatchdog
  edge_main, edge_left, watching, wake, edge_running, age, quiet,
  \* DataCollector
  mode_, capture_count_, batch_id_, saver, name, control, second, files, saved,
  began, completed, straddled, captures, sets,
  \* SpatialCalibrator
  H_, calibrated_, loader, coords, has, step, i,
  \* PostProcDispatcher
  configs_, ocr_, color_, prim, judged, inforce,
  \* CtcDecode
  prev_char, result, seen,
  \* OtaKeys
  active, next, tmp, survives, agent, manifest, publisher, promised, fault,
  \* ConfigManager
  config, pending, config_running, flusher, writer, config_main, flush, config_tmp,
  file, config_survives, config_fault, updates, starts, recent

Telemetry == INSTANCE TelemetryCollector WITH
  MaxFrames <- TelemetryFrames, running <- telemetry_running, main <- telemetry_main
Thermal == INSTANCE ThermalMonitor WITH
  running <- thermal_running, main <- thermal_main
Keepalive == INSTANCE Watchdog WITH
  Interval <- KeepaliveInterval, Timeout <- KeepaliveTimeout, MaxMisses <- KeepaliveMisses,
  running <- keepalive_running, left <- keepalive_left, main <- keepalive_main
Edge == INSTANCE EdgeWatchdog WITH
  Poll <- EdgePoll, Timeout <- EdgeTimeout, Iterations <- EdgeIterations,
  running <- edge_running, left <- edge_left, main <- edge_main
Collector == INSTANCE DataCollector WITH
  MaxFrames <- CollectorFrames, MaxSets <- CollectorSets, MaxSeconds <- CollectorSeconds,
  consumer <- saver, frames <- captures
Calibrator == INSTANCE SpatialCalibrator
PostProc == INSTANCE PostProcDispatcher
Ctc == INSTANCE CtcDecode
Keys == INSTANCE OtaKeys
Config == INSTANCE ConfigManager WITH
  Values <- FieldValues, Faults <- ConfigFaults, running <- config_running,
  main <- config_main, tmp <- config_tmp, survives <- config_survives,
  fault <- config_fault

telemetryVars == <<frames, defects, consumer, history, telemetry_running,
  collector, telemetry_main, last, delta, payload, base, sum>>
thermalVars == <<sensor, state_, monitor, told, thermal_running, thermal_main, good>>
keepaliveVars == <<keepalive_running, keepalive, keepalive_left, misses,
  keepalive_main, armed, magic, timer, board>>
edgeVars == <<edge_main, edge_left, watching, wake, edge_running, age, quiet>>
collectorVars == <<mode_, capture_count_, batch_id_, saver, name, control, second,
  files, saved, began, completed, straddled, captures, sets>>
calibratorVars == <<H_, calibrated_, loader, coords, has, step, i>>
postprocVars == <<configs_, ocr_, color_, prim, judged, inforce>>
ctcVars == <<prev_char, result, seen>>
threadVars == <<telemetryVars, thermalVars, keepaliveVars, edgeVars>>
keysVars == <<active, next, tmp, survives, agent, manifest, publisher, promised, fault>>
configVars == <<config, pending, config_running, flusher, writer, config_main, flush,
  config_tmp, file, config_survives, config_fault, updates, starts, recent>>
frameVars == <<collectorVars, calibratorVars, postprocVars, ctcVars>>
fileVars == <<keysVars, configVars>>
vars == <<part, threadVars, frameVars, fileVars>>

Init ==
  /\ part \in {"telemetry", "thermal", "keepalive", "edge",
               "collector", "calibrator", "postproc", "ctc", "keys", "config"}
  /\ Telemetry!Init /\ Thermal!Init /\ Keepalive!Init /\ Edge!Init
  /\ Collector!Init /\ Calibrator!Init /\ PostProc!Init /\ Ctc!Init
  /\ Keys!Init /\ Config!Init
  /\ part # "postproc" =>
       /\ ocr_ /\ color_
       /\ prim = CHOOSE p \in PostProc!Inferred : TRUE

Next ==
  /\ UNCHANGED part
  /\ \/ /\ part = "telemetry" /\ Telemetry!Next
        /\ UNCHANGED <<thermalVars, keepaliveVars, edgeVars, frameVars, fileVars>>
     \/ /\ part = "thermal" /\ Thermal!Next
        /\ UNCHANGED <<telemetryVars, keepaliveVars, edgeVars, frameVars, fileVars>>
     \/ /\ part = "keepalive" /\ Keepalive!Next
        /\ UNCHANGED <<telemetryVars, thermalVars, edgeVars, frameVars, fileVars>>
     \/ /\ part = "edge" /\ Edge!Next
        /\ UNCHANGED <<telemetryVars, thermalVars, keepaliveVars, frameVars, fileVars>>
     \/ /\ part = "collector" /\ Collector!Next
        /\ UNCHANGED <<threadVars, calibratorVars, postprocVars, ctcVars, fileVars>>
     \/ /\ part = "calibrator" /\ Calibrator!Next
        /\ UNCHANGED <<threadVars, collectorVars, postprocVars, ctcVars, fileVars>>
     \/ /\ part = "postproc" /\ PostProc!Next
        /\ UNCHANGED <<threadVars, collectorVars, calibratorVars, ctcVars, fileVars>>
     \/ /\ part = "ctc" /\ Ctc!Next
        /\ UNCHANGED <<threadVars, collectorVars, calibratorVars, postprocVars, fileVars>>
     \/ /\ part = "keys" /\ Keys!Next
        /\ UNCHANGED <<threadVars, frameVars, configVars>>
     \/ /\ part = "config" /\ Config!Next
        /\ UNCHANGED <<threadVars, frameVars, keysVars>>

\* Nothing fair is enabled in the initial state of a part that does not move.
Spec == Init /\ [][Next]_vars /\ Telemetry!Fairness /\ Config!Fairness

-----------------------------------------------------------------------------
(* Properties                                                              *)

\* TelemetryCollector: totals and deltas agree, defects keep up with frames.
TelemetryInv == Telemetry!TelemetryInv

\* TelemetryCollector: stop() does not wait for the interval to pass.
TelemetryStopsPromptly == Telemetry!TelemetryStopsPromptly

\* ThermalMonitor: the last good reading is known to the receiver of the
\* callbacks, which is not called after stop().
ThermalInv == Thermal!ThermalInv

\* Watchdog: no reset of a daemon that works though pings fail, if the interval
\* leaves room for it; disarmed by stop() alone; a reset of one that is killed.
WatchdogInv == Keepalive!WatchdogInv

\* vision_edge: a main loop that hangs is ended in time, and no other.
EdgeInv == Edge!EdgeInv

\* DataCollectorEngine: calibrations end at the limit and are reported once however
\* set_mode() and save_frame() interleave, and overwrite a frame only when one falls
\* between the two accesses of the other.
CollectorInv == Collector!CollectorInv

\* SpatialCalibrator: a batch is projected whole or not at all, by homographies
\* that were loaded, the older first.
CalibratorInv == Calibrator!CalibratorInv

\* PostProcessDispatcher, ColorValidator: a zone passes only by a colour that was
\* in force for some class, and does if all of them match and glare is no bar.
PostProcInv == PostProc!PostProcInv

\* LprnetOcrEngine: the text has one character for each run of equal ones.
DecodedRuns == Ctc!DecodedRuns

\* OtaManager: the key that is announced, and the one that the publisher signs
\* with, are never given up.
KeysInv == Keys!KeysInv

\* ConfigManager: stop() saves a snapshot that was current after it was called, and
\* only a full disk or a loss of power leaves a text that is cut.
ConfigDurable == Config!ConfigDurable

\* ConfigManager: no wake-up that is lost and no save that is under way holds up
\* stop() or the save of an update for ever.
ConfigSettles == Config!ConfigSettles
=============================================================================
