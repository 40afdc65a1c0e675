-------------------------- MODULE VisionPartsProofs --------------------------
(***************************************************************************)
(* The invariant of each part of VisionParts, for every value of its       *)
(* constants, from an inductive invariant of its own; and that the         *)
(* specification that is checked is one of each part.                      *)
(***************************************************************************)
EXTENDS VisionParts, FiniteSetTheorems, SequenceTheorems, WellFoundedInduction, TLAPS

-----------------------------------------------------------------------------
(* ThermalMonitor                                                          *)

\* The cardinality that ThermalMonitor speaks of is that of the theorems.
LEMMA ThermalCardinality == \A S : Thermal!Cardinality(S) = Cardinality(S)
BY DEF Thermal!Cardinality, Cardinality

Thresholds == {65, 70, 75, 80, 85}

\* There are five thresholds.
LEMMA FiveThresholds == IsFiniteSet(Thresholds) /\ Cardinality(Thresholds) <= 5
<1> DEFINE f == [k \in 1 .. 5 |-> 60 + 5 * k]
<1>1. f \in Surjection(1 .. 5, Thresholds)
  <2>1. f \in [1 .. 5 -> Thresholds]
    BY DEF Thresholds
  <2>2. f[1] = 65 /\ f[2] = 70 /\ f[3] = 75 /\ f[4] = 80 /\ f[5] = 85
    OBVIOUS
  <2>3. \A t \in Thresholds : \E k \in 1 .. 5 : f[k] = t
    <3> HIDE DEF f
    <3> QED
      BY <2>2 DEF Thresholds
  <2> QED
    BY <2>1, <2>3 DEF Surjection
<1> HIDE DEF f
<1>2. ExistsSurjection(1 .. 5, Thresholds)
  BY <1>1 DEF ExistsSurjection
<1> QED
  BY <1>2, 5 \in Nat, FS_NatSurjection, FS_SurjCardinalityBound, Zenon

\* The level of a temperature is one of the six, and a warmer one has no lower level.
LEMMA LevelRises ==
  /\ \A temp : Thermal!EvaluateLevel(temp) \in Thermal!Levels
  /\ \A temp, warmer \in Int : temp <= warmer =>
       Thermal!EvaluateLevel(temp) <= Thermal!EvaluateLevel(warmer)
<1> DEFINE reached(t) == {l \in Thresholds : t >= l}
<1>1. \A t : reached(t) \in SUBSET Thresholds
  OBVIOUS
<1>2. \A t : Thermal!EvaluateLevel(t) = Cardinality(reached(t))
  BY ThermalCardinality DEF Thermal!EvaluateLevel, Thresholds
<1>3. \A s, t \in Int : s <= t => reached(s) \in SUBSET reached(t)
  BY DEF Thresholds
<1> HIDE DEF reached
<1>4. ASSUME NEW t
      PROVE  /\ IsFiniteSet(reached(t)) /\ Cardinality(reached(t)) \in Nat
             /\ Cardinality(reached(t)) <= 5
  <2>1. IsFiniteSet(reached(t)) /\ Cardinality(reached(t)) <= Cardinality(Thresholds)
    BY <1>1, FiveThresholds, FS_Subset
  <2>2. Cardinality(reached(t)) \in Nat /\ Cardinality(Thresholds) \in Nat
    BY <2>1, FiveThresholds, FS_CardinalityType
  <2> QED
    BY <2>1, <2>2, FiveThresholds
<1>5. ASSUME NEW s \in Int, NEW t \in Int, s <= t
      PROVE  Cardinality(reached(s)) <= Cardinality(reached(t))
  BY <1>3, <1>4, <1>5, FS_Subset
<1> QED
  BY <1>2, <1>4, <1>5 DEF Thermal!Levels

\* What has been published is the level of the last good reading.
ThermalLevelPublished == state_.level = Thermal!EvaluateLevel(good)

\* The thread is started once.
ThermalNotStarted == thermal_main = "new" => monitor = "none"

\* ThermalInv: the level is that of the last good reading, or the one it would keep
\* with the documented hysteresis, and the receiver of the callbacks knows it,
\* whatever the temperatures and however the sensor fails.
THEOREM ThermalCorrect == Thermal!Spec => []ThermalInv
<1> DEFINE Inv == ThermalInv /\ ThermalLevelPublished /\ ThermalNotStarted
<1> USE DEF Thermal!HYSTERESIS
<1>1. Thermal!Init => Inv
  <2> SUFFICES ASSUME Thermal!Init PROVE Inv
    OBVIOUS
  <2>1. Thermal!TypeOK
    <3>1. sensor \in Thermal!Readings /\ good \in Temps \cup {0}
      BY DEF Thermal!Init, Thermal!Readings
    <3>2. state_ \in [temp : Temps \cup {0}, level : Thermal!Levels]
      BY DEF Thermal!Init, Thermal!Levels
    <3>3. told \in Thermal!Levels
      BY DEF Thermal!Init, Thermal!Levels
    <3> QED
      BY <3>1, <3>2, <3>3 DEF Thermal!Init, Thermal!TypeOK
  <2>2. Thermal!EvaluateLevel(0) = 0 /\ Thermal!EvaluateLevel(5) = 0
    <3>1. {t \in {65, 70, 75, 80, 85} : 0 >= t} = {} /\ {t \in {65, 70, 75, 80, 85} : 5 >= t} = {}
      OBVIOUS
    <3> QED
      BY <3>1, FS_EmptySet, ThermalCardinality DEF Thermal!EvaluateLevel
  <2> QED
    BY <2>1, <2>2 DEF Thermal!Init, ThermalInv, Thermal!ThermalInv, Thermal!ThermalLevelTold,
      Thermal!ThermalNoLateCallback, ThermalLevelPublished, ThermalNotStarted
<1>2. Inv /\ [Thermal!Next]_(Thermal!vars) => Inv'
  <2> SUFFICES ASSUME Inv, [Thermal!Next]_(Thermal!vars) PROVE Inv'
    OBVIOUS
  <2> USE DEF ThermalInv, Thermal!ThermalInv, Thermal!TypeOK, Thermal!ThermalLevelTold,
        Thermal!ThermalNoLateCallback, ThermalLevelPublished, ThermalNotStarted
  <2>1. CASE Thermal!SensorChanges
    BY <2>1 DEF Thermal!SensorChanges
  <2>2. CASE Thermal!Start
    BY <2>2 DEF Thermal!Start
  <2>3. CASE Thermal!Stop \/ Thermal!StopJoin
    BY <2>3 DEF Thermal!Stop, Thermal!StopJoin
  <2>4. CASE Thermal!Sample
    <3>1. CASE sensor = -1
      BY <2>4, <3>1 DEF Thermal!Sample, Thermal!Goes
    <3>2. CASE sensor # -1
      <4>1. sensor \in Temps /\ sensor \in Int /\ sensor + 5 \in Int /\ sensor <= sensor + 5
        BY <3>2, ThermalAssumption DEF Thermal!Readings
      <4>2. /\ Thermal!EvaluateLevel(sensor) \in Thermal!Levels
            /\ Thermal!EvaluateLevel(sensor) \in Int
            /\ Thermal!EvaluateLevel(sensor) <= Thermal!EvaluateLevel(sensor + 5)
        BY <4>1, LevelRises DEF Thermal!Levels
      <4>3. Thermal!TypeOK'
        BY <2>4, <3>2, <4>1, <4>2 DEF Thermal!Sample, Thermal!Goes, Thermal!Readings
      <4> QED
        BY <2>4, <3>2, <4>1, <4>2, <4>3 DEF Thermal!Sample, Thermal!Goes
    <3> QED
      BY <3>1, <3>2
  <2>5. CASE Thermal!Callback
    BY <2>5 DEF Thermal!Callback, Thermal!Goes
  <2>6. CASE Thermal!Sleep
    BY <2>6 DEF Thermal!Sleep, Thermal!Goes
  <2>7. CASE UNCHANGED Thermal!vars
    BY <2>7 DEF Thermal!vars
  <2> QED
    BY <2>1, <2>2, <2>3, <2>4, <2>5, <2>6, <2>7 DEF Thermal!Next
<1> QED
  BY <1>1, <1>2, PTL DEF Thermal!Spec

-----------------------------------------------------------------------------
(* Watchdog                                                                *)

\* The time that m pings in a row that fail, and one that does not, leave between
\* two writes to the device.
PingGap(m) == (m + 1) * KeepaliveInterval

\* The interval leaves room for the pings that may fail.
PingRoom == PingGap(KeepaliveMisses) < KeepaliveTimeout

\* A gap is a number of ticks, one more failure adds an interval, and if there is
\* room for all that may fail there is for fewer.
LEMMA PingGaps ==
  ASSUME NEW m \in 0 .. KeepaliveMisses
  PROVE  /\ PingGap(m) \in Nat
         /\ PingGap(m + 1) = PingGap(m) + KeepaliveInterval
         /\ PingRoom => PingGap(m) < KeepaliveTimeout
<1> DEFINE k == KeepaliveMisses - m
<1>1. /\ m \in Nat /\ k \in Nat /\ KeepaliveInterval \in Nat /\ KeepaliveTimeout \in Nat
      /\ KeepaliveMisses + 1 = (m + 1) + k
  BY KeepaliveAssumption
<1>2. \A a, b, c \in Nat : (a + b) * c = a * c + b * c /\ a * c \in Nat
  OBVIOUS
<1>3. PingRoom => ((m + 1) + k) * KeepaliveInterval < KeepaliveTimeout
  BY <1>1 DEF PingRoom, PingGap
<1> HIDE DEF k
<1>4. ((m + 1) + k) * KeepaliveInterval = PingGap(m) + k * KeepaliveInterval
  BY <1>1, <1>2, m + 1 \in Nat DEF PingGap
<1>5. PingGap(m) \in Nat /\ k * KeepaliveInterval \in Nat
  BY <1>1, <1>2, m + 1 \in Nat DEF PingGap
<1>6. PingGap(m + 1) = PingGap(m) + KeepaliveInterval
  BY <1>1, <1>2, m + 1 \in Nat, 1 * KeepaliveInterval = KeepaliveInterval DEF PingGap
<1> QED
  BY <1>1, <1>3, <1>4, <1>5, <1>6

\* Which thread can still write to the device at each step of start() and stop().
KeepaliveThreads ==
  /\ keepalive_main \in {"new", "unguarded"} => ~keepalive_running /\ ~armed
  /\ keepalive_main \in {"new", "unguarded", "magic", "close", "stopped", "killed"} =>
       keepalive = "none"
  /\ keepalive_main \in {"join", "magic", "close", "stopped"} => ~keepalive_running
  /\ keepalive_main \in {"up", "hung"} =>
       keepalive_running /\ armed /\ keepalive # "none"
  /\ keepalive_main \in {"new", "unguarded", "up", "hung", "join", "magic"} => ~magic

\* While the daemon runs the device was written to recently enough.
KeepaliveInTime ==
  /\ board = "on" => timer < KeepaliveTimeout
  /\ keepalive_main \in {"up", "hung"} =>
       timer + (IF keepalive = "sleep" THEN keepalive_left ELSE 0) <= PingGap(misses)

\* WatchdogInv: disarmed by stop() alone and a reset after a kill, for any interval
\* and time-out, and no reset of a daemon that works if they leave room for the
\* pings that fail.
THEOREM WatchdogCorrect == Keepalive!Spec => []WatchdogInv
<1> DEFINE Inv == WatchdogInv /\ KeepaliveThreads /\ KeepaliveInTime
<1>0. /\ KeepaliveInterval \in Nat /\ KeepaliveTimeout \in Nat \ {0} /\ KeepaliveMisses \in Nat
      /\ (KeepaliveMisses + 1) * KeepaliveInterval < KeepaliveTimeout <=> PingRoom
      /\ PingGap(0) = KeepaliveInterval
      /\ \A m \in 0 .. KeepaliveMisses :
           /\ PingGap(m) \in Nat /\ (PingRoom => PingGap(m) < KeepaliveTimeout)
           /\ PingGap(m + 1) = PingGap(m) + KeepaliveInterval
  BY KeepaliveAssumption, PingGaps DEF PingGap, PingRoom
<1>1. Keepalive!Init => Inv
  <2> SUFFICES ASSUME Keepalive!Init PROVE Inv
    OBVIOUS
  <2> USE DEF Keepalive!Init
  <2>1. keepalive_running \in BOOLEAN /\ armed \in BOOLEAN /\ magic \in BOOLEAN
    BY Zenon
  <2>2. Keepalive!TypeOK
    BY <1>0, <2>1 DEF Keepalive!TypeOK
  <2>3. /\ Keepalive!WatchdogNoSpuriousReset /\ Keepalive!WatchdogDisarmedAtExit
        /\ Keepalive!WatchdogKillResets /\ KeepaliveThreads /\ KeepaliveInTime
    BY <1>0 DEF Keepalive!WatchdogNoSpuriousReset, Keepalive!WatchdogDisarmedAtExit,
      Keepalive!WatchdogKillResets, KeepaliveThreads, KeepaliveInTime
  <2> QED
    BY <2>2, <2>3 DEF WatchdogInv, Keepalive!WatchdogInv
<1>2. Inv /\ [Keepalive!Next]_(Keepalive!vars) => Inv'
  <2> SUFFICES ASSUME Inv, [Keepalive!Next]_(Keepalive!vars) PROVE Inv'
    OBVIOUS
  <2> USE <1>0 DEF WatchdogInv, Keepalive!WatchdogInv, Keepalive!TypeOK,
    Keepalive!WatchdogNoSpuriousReset, Keepalive!WatchdogDisarmedAtExit,
    Keepalive!WatchdogKillResets, KeepaliveThreads, KeepaliveInTime
  <2>1. CASE Keepalive!Tick
    BY <2>1 DEF Keepalive!Tick
  <2>2. CASE Keepalive!Start
    <3> USE DEF Keepalive!Start, Keepalive!MainGoes
    <3>1. keepalive_running' \in BOOLEAN /\ armed' \in BOOLEAN /\ magic' \in BOOLEAN
      BY <2>2, Zenon
    <3>2. Keepalive!TypeOK'
      BY <2>2, <3>1
    <3>3. (Keepalive!WatchdogNoSpuriousReset /\ Keepalive!WatchdogDisarmedAtExit
           /\ Keepalive!WatchdogKillResets /\ KeepaliveThreads)'
      BY <2>2
    <3>4. KeepaliveInTime'
      BY <2>2
    <3> QED
      BY <3>2, <3>3, <3>4
  <2>3. CASE Keepalive!Hang \/ Keepalive!StopExchange
    <3> USE DEF Keepalive!Hang, Keepalive!StopExchange, Keepalive!MainGoes
    <3>1. keepalive_running' \in BOOLEAN /\ armed' \in BOOLEAN /\ magic' \in BOOLEAN
      BY <2>3, Zenon
    <3>2. Keepalive!TypeOK'
      BY <2>3, <3>1
    <3>3. (Keepalive!WatchdogNoSpuriousReset /\ Keepalive!WatchdogDisarmedAtExit
           /\ Keepalive!WatchdogKillResets /\ KeepaliveThreads)'
      BY <2>3
    <3>4. KeepaliveInTime'
      BY <2>3
    <3> QED
      BY <3>2, <3>3, <3>4
  <2>4. CASE Keepalive!StopJoin
    BY <2>4 DEF Keepalive!StopJoin, Keepalive!MainGoes
  <2>5. CASE Keepalive!StopMagic \/ Keepalive!StopClose
    <3> USE DEF Keepalive!StopMagic, Keepalive!StopClose, Keepalive!Close,
          Keepalive!MainGoes
    <3>1. keepalive_running' \in BOOLEAN /\ armed' \in BOOLEAN /\ magic' \in BOOLEAN
      BY <2>5, Zenon
    <3>2. Keepalive!TypeOK'
      BY <2>5, <3>1
    <3>3. (Keepalive!WatchdogNoSpuriousReset /\ Keepalive!WatchdogDisarmedAtExit
           /\ Keepalive!WatchdogKillResets /\ KeepaliveThreads)'
      BY <2>5
    <3>4. KeepaliveInTime'
      BY <2>5
    <3> QED
      BY <3>2, <3>3, <3>4
  <2>6. CASE Keepalive!Kill
    BY <2>6 DEF Keepalive!Kill, Keepalive!Close
  <2>7. CASE Keepalive!Ping
    <3> USE DEF Keepalive!Ping
    <3>1. Keepalive!TypeOK'
      <4>1. magic' \in BOOLEAN
        BY <2>7, Zenon
      <4>2. /\ timer' \in 0 .. KeepaliveTimeout /\ misses' \in 0 .. KeepaliveMisses
            /\ keepalive_left' \in 0 .. KeepaliveInterval
        BY <2>7
      <4> QED
        BY <2>7, <4>1, <4>2
    <3>2. KeepaliveInTime'
      <4>1. CASE timer' = 0 /\ misses' = 0
        BY <2>7, <4>1
      <4>2. CASE misses < KeepaliveMisses /\ misses' = misses + 1 /\ UNCHANGED <<timer, magic>>
        BY <2>7, <4>2
      <4> QED
        BY <2>7, <4>1, <4>2
    <3>3. KeepaliveThreads'
      BY <2>7
    <3> QED
      BY <2>7, <3>1, <3>2, <3>3
  <2>8. CASE Keepalive!Wake
    BY <2>8 DEF Keepalive!Wake
  <2>9. CASE UNCHANGED Keepalive!vars
    BY <2>9 DEF Keepalive!vars
  <2> QED
    BY <2>1, <2>2, <2>3, <2>4, <2>5, <2>6, <2>7, <2>8, <2>9 DEF Keepalive!Next
<1> QED
  BY <1>1, <1>2, PTL DEF Keepalive!Spec

-----------------------------------------------------------------------------
(* EdgeWatchdog                                                            *)

\* The monitor runs while the main loop is watched, and the beat is as old as the
\* last thing the main loop did: old at most by the time since the monitor last
\* found it young enough.
EdgeBeat ==
  /\ edge_main \notin {"loop", "join"} => ~watching
  /\ edge_main \in {"loop", "join"} =>
       /\ age = quiet
       /\ watching => quiet + wake <= EdgeTimeout + EdgePoll

\* EdgeInv: vision_edge ends a main loop that hangs, and no other, for any
\* interval and time-out and however long anything takes.
THEOREM EdgeCorrect == Edge!Spec => []EdgeInv
<1> DEFINE Inv == EdgeInv /\ EdgeBeat
<1> USE EdgeAssumption DEF Edge!Ages
<1>1. Edge!Init => Inv
  <2> SUFFICES ASSUME Edge!Init PROVE Inv
    OBVIOUS
  <2> USE DEF Edge!Init
  <2>1. Edge!TypeOK
    <3>1. watching \in BOOLEAN /\ edge_running \in BOOLEAN
      BY Zenon
    <3>2. edge_left \in 0 .. EdgeIterations /\ wake \in 0 .. EdgePoll /\ age \in Edge!Ages
      OBVIOUS
    <3>3. edge_main \in {"new", "loop", "join", "done", "aborted"} /\ quiet \in Edge!Ages
      OBVIOUS
    <3> QED
      BY <3>1, <3>2, <3>3 DEF Edge!TypeOK
  <2>2. Edge!EdgeHangBounded /\ Edge!EdgeAbortJustified /\ EdgeBeat
    BY DEF Edge!EdgeHangBounded, Edge!EdgeAbortJustified, EdgeBeat
  <2> QED
    BY <2>1, <2>2 DEF EdgeInv, Edge!EdgeInv
<1>2. Inv /\ [Edge!Next]_(Edge!vars) => Inv'
  <2> SUFFICES ASSUME Inv, [Edge!Next]_(Edge!vars) PROVE Inv'
    OBVIOUS
  <2> USE DEF EdgeInv, Edge!EdgeInv, Edge!TypeOK, Edge!EdgeHangBounded,
        Edge!EdgeAbortJustified, EdgeBeat
  <2>1. CASE Edge!Start
    BY <2>1 DEF Edge!Start
  <2>2. CASE Edge!Iterate
    BY <2>2 DEF Edge!Iterate
  <2>3. CASE Edge!Stop \/ Edge!StopJoin
    <3>1. (Edge!TypeOK)'
      BY <2>3 DEF Edge!Stop, Edge!StopJoin
    <3>2. (Edge!EdgeHangBounded)'
      BY <2>3 DEF Edge!Stop, Edge!StopJoin
    <3>3. (Edge!EdgeAbortJustified)'
      BY <2>3 DEF Edge!Stop, Edge!StopJoin
    <3>4. (EdgeBeat)'
      BY <2>3 DEF Edge!Stop, Edge!StopJoin
    <3> QED
      BY <3>1, <3>2, <3>3, <3>4
  <2>4. CASE Edge!Tick
    BY <2>4 DEF Edge!Tick, Edge!Older
  <2>5. CASE Edge!Wake
    <3>1. (Edge!TypeOK)'
      <4>1. watching' \in BOOLEAN
        BY <2>5, Zenon DEF Edge!Wake
      <4>2. edge_main' \in {"new", "loop", "join", "done", "aborted"}
        BY <2>5 DEF Edge!Wake
      <4>3. wake' \in 0 .. EdgePoll
        BY <2>5 DEF Edge!Wake
      <4> QED
        BY <2>5, <4>1, <4>2, <4>3 DEF Edge!Wake
    <3>2. (Edge!EdgeHangBounded)'
      BY <2>5 DEF Edge!Wake
    <3>3. (Edge!EdgeAbortJustified)'
      BY <2>5 DEF Edge!Wake
    <3>4. (EdgeBeat)'
      BY <2>5 DEF Edge!Wake
    <3> QED
      BY <3>1, <3>2, <3>3, <3>4
  <2>6. CASE UNCHANGED Edge!vars
    BY <2>6 DEF Edge!vars
  <2> QED
    BY <2>1, <2>2, <2>3, <2>4, <2>5, <2>6 DEF Edge!Next
<1> QED
  BY <1>1, <1>2, PTL DEF Edge!Spec

-----------------------------------------------------------------------------
(* TelemetryCollector                                                      *)

TelemetryWaiting == {"loop", "locked", "blocking", "asleep", "awake"}

\* The deltas published, and the one being published, lead from the counter at
\* start() to the last sample of it.
TelemetrySums ==
  /\ telemetry_main = "new" => collector = "none" /\ sum = 0 /\ payload = Telemetry!Nothing
  /\ collector \in TelemetryWaiting => base + sum = last /\ payload \in
       {Telemetry!Nothing} \cup {p \in [frames : Nat, defects : Nat, delta : Nat] : p.frames = last}
  /\ collector = "sampling" => base + sum + delta = last
  /\ collector = "publishing" => base + sum + payload.delta = last /\ payload.frames = last
  /\ last <= frames /\ payload.frames <= frames

\* The frames up to n that have a defect.
Defective(n) == {k \in 1 .. n : history[k] = 1}

\* Every defect is counted, or about to be, in the frame that was counted last.
TelemetryCounted ==
  /\ Len(history) = frames
  /\ defects + consumer = Cardinality(Defective(frames))
  /\ consumer = 1 => frames > 0 /\ history[frames] = 1

\* The cardinality that TelemetryCollector speaks of is that of the theorems.
LEMMA TelemetryCardinality == \A S : Telemetry!Cardinality(S) = Cardinality(S)
BY DEF Cardinality, Telemetry!Cardinality

\* There are at most as many defective frames as frames.
LEMMA DefectiveBounds ==
  ASSUME NEW n \in Nat
  PROVE  /\ IsFiniteSet(Defective(n)) /\ Cardinality(Defective(n)) \in 0 .. n
         /\ \A m \in 0 .. n : Cardinality(Defective(m)) <= Cardinality(Defective(n))
<1>1. IsFiniteSet(1 .. n) /\ Cardinality(1 .. n) = n
  BY FS_Interval
<1>2. Defective(n) \subseteq 1 .. n /\ \A m \in 0 .. n : Defective(m) \subseteq Defective(n)
  BY DEF Defective
<1>3. IsFiniteSet(Defective(n)) /\ Cardinality(Defective(n)) <= n
  BY <1>1, <1>2, FS_Subset
<1>4. Cardinality(Defective(n)) \in Nat
  BY <1>3, FS_CardinalityType
<1> QED
  BY <1>2, <1>3, <1>4, FS_Subset

\* What the frames already counted had is not changed by another frame.
LEMMA DefectiveAppend ==
  ASSUME NEW f \in Nat, history \in [1 .. f -> 0 .. 1],
         NEW d \in 0 .. 1, history' = Append(history, d)
  PROVE  /\ history' \in [1 .. f + 1 -> 0 .. 1] /\ Len(history') = f + 1
         /\ \A n \in 0 .. f : {k \in 1 .. n : history'[k] = 1} = Defective(n)
         /\ history'[f + 1] = d
         /\ Cardinality({k \in 1 .. f + 1 : history'[k] = 1}) = Cardinality(Defective(f)) + d
<1>1. history \in Seq(0 .. 1) /\ Len(history) = f
  OBVIOUS
<1>2. /\ history' \in Seq(0 .. 1) /\ Len(history') = f + 1 /\ history'[f + 1] = d
      /\ \A k \in 1 .. f : history'[k] = history[k]
  BY <1>1
<1>3. \A n \in 0 .. f : {k \in 1 .. n : history'[k] = 1} = Defective(n)
  BY <1>2 DEF Defective
<1>4. {k \in 1 .. f + 1 : history'[k] = 1} =
        IF d = 1 THEN Defective(f) \cup {f + 1} ELSE Defective(f)
  BY <1>2 DEF Defective
<1>5. f + 1 \notin Defective(f) /\ IsFiniteSet(Defective(f))
      /\ Cardinality(Defective(f)) \in Nat
  BY DefectiveBounds DEF Defective
<1>6. Cardinality(Defective(f) \cup {f + 1}) = Cardinality(Defective(f)) + 1
  BY <1>5, FS_AddElement
<1>7. Cardinality({k \in 1 .. f + 1 : history'[k] = 1}) = Cardinality(Defective(f)) + d
  <2>1. CASE d = 1
    BY <1>4, <1>6, <2>1
  <2>2. CASE d = 0
    <3>1. {k \in 1 .. f + 1 : history'[k] = 1} = Defective(f)
      BY <1>4, <2>2
    <3>2. Cardinality(Defective(f)) + d = Cardinality(Defective(f))
      BY <1>5, <2>2
    <3> QED
      BY <3>1, <3>2, Zenon
  <2>3. d = 0 \/ d = 1
    OBVIOUS
  <2> QED
    BY <2>1, <2>2, <2>3, Zenon
<1>8. history' \in [1 .. f + 1 -> 0 .. 1]
  <2>1. history' \in [1 .. Len(history') -> 0 .. 1]
    BY <1>2, LenProperties
  <2> QED
    BY <1>2, <2>1, Zenon
<1> QED
  BY <1>2, <1>3, <1>7, <1>8

\* The defects that are counted include those of all frames but the last.
LEMMA DefectsCounted ==
  ASSUME frames \in Nat, defects \in Nat, consumer \in 0 .. 1, TelemetryCounted,
         NEW n \in Nat, n <= frames
  PROVE  Cardinality(Defective(n - 1)) <= defects
<1>1. CASE n = 0
  <2>1. Defective(n - 1) = {}
    BY <1>1 DEF Defective
  <2> QED
    BY <2>1, FS_EmptySet
<1>2. CASE n > 0 /\ consumer = 0
  <2>1. n - 1 \in 0 .. frames
    BY <1>2
  <2> QED
    BY <1>2, <2>1, DefectiveBounds DEF TelemetryCounted
<1>3. CASE n > 0 /\ consumer = 1
  <2>1. n - 1 \in Nat /\ Defective(n - 1) \subseteq Defective(frames) \ {frames}
        /\ frames \in Defective(frames)
    BY <1>3 DEF Defective, TelemetryCounted
  <2>2. IsFiniteSet(Defective(frames)) /\ Cardinality(Defective(frames)) \in Nat
    BY DefectiveBounds
  <2>3. /\ IsFiniteSet(Defective(frames) \ {frames})
        /\ Cardinality(Defective(frames) \ {frames}) = Cardinality(Defective(frames)) - 1
    BY <2>1, <2>2, FS_RemoveElement
  <2>4. Cardinality(Defective(n - 1)) <= Cardinality(Defective(frames) \ {frames})
    BY <2>1, <2>3, FS_Subset
  <2>5. Cardinality(Defective(frames) \ {frames}) = defects
    BY <1>3, <2>2, <2>3 DEF TelemetryCounted
  <2> QED
    BY <2>4, <2>5
<1> QED
  BY <1>1, <1>2, <1>3

\* TelemetryInv: the deltas published add up to the total published with the last,
\* and the defects include those of every frame that is counted but the last.
THEOREM TelemetryCorrect == Telemetry!Spec => []TelemetryInv
<1> DEFINE Inv == TelemetryInv /\ TelemetrySums /\ TelemetryCounted
<1>0. TelemetryFrames \in Nat
  BY TelemetryAssumption
<1>1. Telemetry!Init => Inv
  <2> SUFFICES ASSUME Telemetry!Init PROVE Inv
    OBVIOUS
  <2> USE DEF Telemetry!Init
  <2>1. telemetry_running \in BOOLEAN
    BY Zenon
  <2>2. history \in [1 .. 0 -> 0 .. 1] /\ Len(history) = 0
    OBVIOUS
  <2>3. history \in UNION {[1 .. n -> 0 .. 1] : n \in 0 .. TelemetryFrames}
    BY <1>0, <2>2
  <2>4. Telemetry!TypeOK
    BY <1>0, <2>1, <2>3 DEF Telemetry!TypeOK, Telemetry!Count, Telemetry!Nothing
  <2>5. Defective(0) = {} /\ Cardinality({}) = 0
    BY FS_EmptySet DEF Defective
  <2>6. Telemetry!TelemetryDeltasAdd /\ Telemetry!TelemetryDefectsKeepUp
    BY DEF Telemetry!TelemetryDeltasAdd, Telemetry!TelemetryDefectsKeepUp
  <2>7. TelemetrySums
    BY DEF TelemetrySums, TelemetryWaiting, Telemetry!Nothing
  <2>8. TelemetryCounted
    BY <2>2, <2>5 DEF TelemetryCounted
  <2> QED
    BY <2>4, <2>6, <2>7, <2>8 DEF TelemetryInv, Telemetry!TelemetryInv
<1>2. Inv /\ [Telemetry!Next]_(Telemetry!vars) => Inv'
  <2> SUFFICES ASSUME Inv, [Telemetry!Next]_(Telemetry!vars) PROVE Inv'
    OBVIOUS
  <2>a. /\ Telemetry!TypeOK /\ Telemetry!TelemetryDeltasAdd
        /\ Telemetry!TelemetryDefectsKeepUp /\ TelemetrySums /\ TelemetryCounted
    BY DEF TelemetryInv, Telemetry!TelemetryInv
  <2>b. /\ frames \in Nat /\ defects \in Nat /\ consumer \in 0 .. 1
        /\ history \in [1 .. frames -> 0 .. 1] /\ Len(history) = frames
        /\ frames <= TelemetryFrames /\ defects <= frames
    <3>1. /\ frames \in Nat /\ defects \in Nat /\ consumer \in 0 .. 1
          /\ frames <= TelemetryFrames
      BY <1>0, <2>a DEF Telemetry!TypeOK, Telemetry!Count
    <3>2. PICK n \in 0 .. TelemetryFrames : history \in [1 .. n -> 0 .. 1]
      BY <2>a DEF Telemetry!TypeOK, Telemetry!Count
    <3>3. Len(history) = n /\ Len(history) = frames
      BY <1>0, <2>a, <3>2 DEF TelemetryCounted
    <3>4. Cardinality(Defective(frames)) \in 0 .. frames
      BY <3>1, DefectiveBounds
    <3> QED
      BY <2>a, <3>1, <3>2, <3>3, <3>4 DEF TelemetryCounted
  <2>c. SUFFICES /\ Telemetry!TypeOK' /\ Telemetry!TelemetryDeltasAdd'
                 /\ Telemetry!TelemetryDefectsKeepUp' /\ TelemetrySums' /\ TelemetryCounted'
    BY <2>c DEF TelemetryInv, Telemetry!TelemetryInv
  <2> HIDE DEF Inv
  \* The thread of the pipeline moves the counters, and the others do not.
  <2>1. ASSUME NEW d \in 0 .. 1, Telemetry!CountFrame(d)
        PROVE  /\ Telemetry!TypeOK' /\ Telemetry!TelemetryDeltasAdd'
               /\ Telemetry!TelemetryDefectsKeepUp' /\ TelemetrySums' /\ TelemetryCounted'
    <3> USE <2>1 DEF Telemetry!CountFrame, Telemetry!sample
    <3>1. /\ history' \in [1 .. frames' -> 0 .. 1] /\ Len(history') = frames'
          /\ \A n \in 0 .. frames : {k \in 1 .. n : history'[k] = 1} = Defective(n)
          /\ history'[frames'] = d
          /\ Cardinality({k \in 1 .. frames' : history'[k] = 1}) =
               Cardinality(Defective(frames)) + d
      BY <2>b, DefectiveAppend
    <3>2. frames' \in 0 .. TelemetryFrames
      BY <1>0, <2>b
    <3>3. history' \in UNION {[1 .. n -> 0 .. 1] : n \in 0 .. TelemetryFrames}
      BY <3>1, <3>2
    <3>4. Telemetry!TypeOK'
      BY <1>0, <2>a, <3>2, <3>3 DEF Telemetry!TypeOK, Telemetry!Count
    <3>5. Telemetry!TelemetryDeltasAdd'
      BY <2>a DEF Telemetry!TelemetryDeltasAdd
    <3>6. Telemetry!TelemetryDefectsKeepUp'
      <4>1. payload.frames \in 0 .. frames
        BY <1>0, <2>a DEF Telemetry!TypeOK, Telemetry!Count, TelemetrySums
      <4>2. {k \in 1 .. payload.frames - 1 : history'[k] = 1} =
              {k \in 1 .. payload.frames - 1 : history[k] = 1}
        <5>1. CASE payload.frames = 0
          BY <5>1
        <5>2. CASE payload.frames > 0
          BY <2>b, <3>1, <4>1, <5>2, payload.frames - 1 \in 0 .. frames DEF Defective
        <5> QED
          BY <4>1, <5>1, <5>2, payload.frames = 0 \/ payload.frames > 0
      <4> QED
        BY <2>a, <4>2 DEF Telemetry!TelemetryDefectsKeepUp
    <3>7. TelemetrySums'
      BY <1>0, <2>a, <2>b DEF TelemetrySums, TelemetryWaiting, Telemetry!TypeOK, Telemetry!Count
    <3>8. TelemetryCounted'
      <4>1. Defective(frames)' = {k \in 1 .. frames' : history'[k] = 1}
        BY DEF Defective
      <4>2. (defects + consumer)' = Cardinality(Defective(frames)')
        BY <2>a, <2>b, <3>1, <4>1, Cardinality(Defective(frames)) = defects DEF TelemetryCounted
      <4> QED
        BY <2>b, <3>1, <4>2 DEF TelemetryCounted
    <3> QED
      BY <3>4, <3>5, <3>6, <3>7, <3>8
  <2>2. CASE Telemetry!CountDefects
    <3>1. /\ consumer = 1 /\ consumer' = 0 /\ defects' = defects + 1
          /\ UNCHANGED <<frames, history, telemetry_running, collector, telemetry_main,
                         last, delta, payload, base, sum>>
      BY <2>2, <2>b DEF Telemetry!CountDefects, Telemetry!sample
    <3>2. defects' = Cardinality(Defective(frames))
      BY <2>a, <2>b, <3>1 DEF TelemetryCounted
    <3>3. defects' \in 0 .. TelemetryFrames
      BY <1>0, <2>b, <3>2, DefectiveBounds
    <3> QED
      BY <2>a, <2>b, <3>1, <3>2, <3>3 DEF Telemetry!TypeOK, Telemetry!Count,
        Telemetry!TelemetryDeltasAdd, Telemetry!TelemetryDefectsKeepUp, TelemetrySums,
        TelemetryCounted, Defective
  <2>3. ASSUME UNCHANGED Telemetry!counters, telemetry_running' \in BOOLEAN,
               UNCHANGED payload
        PROVE  TelemetryCounted' /\ Telemetry!TelemetryDefectsKeepUp'
    BY <2>a, <2>3 DEF Telemetry!counters, TelemetryCounted, Defective,
      Telemetry!TelemetryDefectsKeepUp
  <2>4. CASE Telemetry!Start
    <3>1. telemetry_running' \in BOOLEAN
      BY <2>4, Zenon DEF Telemetry!Start
    <3> QED
      BY <1>0, <2>a, <2>b, <2>3, <2>4, <3>1 DEF Telemetry!Start, Telemetry!counters,
        Telemetry!TypeOK, Telemetry!Count, Telemetry!TelemetryDeltasAdd, TelemetrySums,
        TelemetryWaiting, Telemetry!Nothing
  <2>5. CASE Telemetry!StopExchange \/ Telemetry!StopNotify \/ Telemetry!StopJoin
    <3>1. telemetry_running' \in BOOLEAN
      BY <2>a, <2>5, Zenon DEF Telemetry!StopExchange, Telemetry!StopNotify,
        Telemetry!StopJoin, Telemetry!TypeOK
    <3> QED
      BY <1>0, <2>a, <2>b, <2>3, <2>5, <3>1 DEF Telemetry!StopExchange, Telemetry!StopNotify,
        Telemetry!StopJoin, Telemetry!counters, Telemetry!sample, Telemetry!TypeOK,
        Telemetry!Count, Telemetry!TelemetryDeltasAdd, TelemetrySums, TelemetryWaiting
  <2>6. CASE Telemetry!LoopTest \/ Telemetry!WaitTest \/ Telemetry!WaitBlock
             \/ Telemetry!WaitTimeout
    BY <2>a, <2>3, <2>6 DEF Telemetry!LoopTest, Telemetry!WaitTest, Telemetry!WaitBlock,
      Telemetry!WaitTimeout, Telemetry!Goes, Telemetry!counters, Telemetry!sample,
      Telemetry!TypeOK, Telemetry!TelemetryDeltasAdd, TelemetrySums, TelemetryWaiting
  <2>7. CASE Telemetry!SampleFrames
    BY <1>0, <2>a, <2>b, <2>3, <2>7 DEF Telemetry!SampleFrames, Telemetry!Goes,
      Telemetry!counters, Telemetry!sample, Telemetry!TypeOK, Telemetry!Count,
      Telemetry!TelemetryDeltasAdd, TelemetrySums, TelemetryWaiting
  <2>8. CASE Telemetry!SampleDefects
    <3> USE <2>8 DEF Telemetry!SampleDefects, Telemetry!Goes, Telemetry!counters
    <3>1. Telemetry!TypeOK'
      BY <1>0, <2>a DEF Telemetry!TypeOK, Telemetry!Count
    <3>2. Telemetry!TelemetryDeltasAdd' /\ TelemetrySums'
      BY <1>0, <2>a, <2>b DEF Telemetry!TypeOK, Telemetry!Count,
        Telemetry!TelemetryDeltasAdd, TelemetrySums, TelemetryWaiting
    <3>3. TelemetryCounted'
      BY <2>a DEF TelemetryCounted, Defective
    <3>4. Telemetry!TelemetryDefectsKeepUp'
      <4>1. last \in Nat /\ last <= frames
        BY <1>0, <2>a DEF Telemetry!TypeOK, Telemetry!Count, TelemetrySums
      <4>2. Cardinality(Defective(last - 1)) <= defects
        BY <2>a, <2>b, <4>1, DefectsCounted
      <4>3. {k \in 1 .. payload'.frames - 1 : history'[k] = 1} = Defective(last - 1)
            /\ payload'.defects = defects
        BY DEF Defective
      <4> QED
        BY <4>2, <4>3, TelemetryCardinality
        DEF Telemetry!TelemetryDefectsKeepUp
    <3> QED
      BY <3>1, <3>2, <3>3, <3>4
  <2>9. CASE Telemetry!Publish
    BY <1>0, <2>a, <2>b, <2>3, <2>9 DEF Telemetry!Publish, Telemetry!Goes, Telemetry!counters,
      Telemetry!TypeOK, Telemetry!Count, Telemetry!TelemetryDeltasAdd, TelemetrySums,
      TelemetryWaiting
  <2>10. CASE UNCHANGED Telemetry!vars
    BY <2>a, <2>3, <2>10 DEF Telemetry!vars, Telemetry!counters, Telemetry!sample,
      Telemetry!TypeOK, Telemetry!TelemetryDeltasAdd, TelemetrySums
  <2> QED
    BY <2>1, <2>2, <2>4, <2>5, <2>6, <2>7, <2>8, <2>9, <2>10
    DEF Telemetry!Next, Telemetry!Collect
<1> QED
  BY <1>1, <1>2, PTL DEF Telemetry!Spec

-----------------------------------------------------------------------------
(* DataCollectorEngine                                                     *)

\* The calls of set_mode() and the frames account for the counters.
CollectorCounts ==
  /\ capture_count_ + (IF saver \in {"idle", "end"} THEN 0 ELSE 1) <= captures
  /\ saved + (IF saver \in {"idle", "end", "count"} THEN 0 ELSE 1) <= captures
  /\ batch_id_ + (IF control = "idle" THEN 0 ELSE 1) <= sets
  /\ began <= sets

\* Past the test of the limit there is room for a frame.
CollectorRoom == saver \in {"name", "batch", "write", "count"} => capture_count_ < Limit

\* A name that counts as older than those to come: of an earlier batch, or of this
\* one with a capture up to n, or any while the batch is about to be advanced.
CollectorOlder(f, n) ==
  \/ f.batch < batch_id_
  \/ control = "bump" /\ f.batch <= batch_id_
  \/ f.batch = batch_id_ /\ f.capture <= n

\* Unless a name may have been torn, it is newer than those of the files.
CollectorNames ==
  /\ IsFiniteSet(files)
  /\ ~straddled =>
       /\ saver = "batch" => name.capture = capture_count_
       /\ saver = "write" => name \notin files /\ CollectorOlder(name, capture_count_)
       /\ \A f \in files :
            CollectorOlder(f, IF saver = "count" THEN capture_count_ ELSE capture_count_ - 1)

\* The cardinality that DataCollector speaks of is that of the theorems.
LEMMA CollectorCardinality == \A S : Collector!Cardinality(S) = Cardinality(S)
BY DEF Cardinality, Collector!Cardinality

\* CollectorInv: a calibration of any size counts no frame past its limit, ends and is
\* reported once, however set_mode() and save_frame() interleave, and overwrites no
\* frame unless the two accesses of one to count and batch fall across the other's.
THEOREM CollectorCorrect == Collector!Spec => []CollectorInv
<1> DEFINE Inv == CollectorInv /\ CollectorCounts /\ CollectorRoom /\ CollectorNames
<1>0. /\ Limit \in Nat /\ Limit > 0 /\ CollectorFrames \in Nat /\ CollectorSets \in Nat
      /\ CollectorSeconds \in Nat
  BY CollectorAssumption
<1>1. Collector!Init => Inv
  <2> SUFFICES ASSUME Collector!Init PROVE Inv
    OBVIOUS
  <2> USE DEF Collector!Init
  <2>1. straddled \in BOOLEAN /\ ~straddled
    BY Zenon
  <2>2. Collector!TypeOK
    BY <1>0, <2>1 DEF Collector!TypeOK, Collector!Names
  <2>3. IsFiniteSet(files) /\ Collector!Cardinality(files) = saved
    BY FS_EmptySet, CollectorCardinality
  <2> QED
    BY <1>0, <2>2, <2>3 DEF CollectorInv, Collector!CollectorInv, Collector!CollectorLimit,
      Collector!CollectorEndsAtLimit, Collector!CollectorCompletesOnce,
      Collector!CollectorKeepsFrames, CollectorCounts, CollectorRoom, CollectorNames, CollectorOlder
<1>2. Inv /\ [Collector!Next]_(Collector!vars) => Inv'
  <2> SUFFICES ASSUME Inv, [Collector!Next]_(Collector!vars) PROVE Inv'
    OBVIOUS
  <2> DEFINE Booked == Collector!CollectorLimit /\ Collector!CollectorEndsAtLimit
                       /\ Collector!CollectorCompletesOnce /\ CollectorRoom
  <2>a. /\ Collector!TypeOK /\ Booked /\ CollectorCounts /\ CollectorNames
        /\ Collector!CollectorKeepsFrames
    BY DEF CollectorInv, Collector!CollectorInv
  <2>b. SUFFICES (Collector!TypeOK /\ Booked /\ CollectorCounts /\ CollectorNames
                  /\ Collector!CollectorKeepsFrames)'
    BY <2>b DEF CollectorInv, Collector!CollectorInv
  <2> HIDE DEF Inv
  <2> USE <1>0, <2>a DEF Collector!TypeOK, CollectorCounts, Collector!ToIdle,
    Collector!ConsumerGoes, Collector!engine, Collector!past
  <2>1. CASE Collector!Clock
    <3> USE DEF Collector!Clock
    <3>1. straddled' \in BOOLEAN
      BY <2>1, Zenon
    <3>2. Collector!TypeOK'
      BY <2>1, <3>1 DEF Collector!Names
    <3>3. Booked' /\ CollectorCounts'
      BY <2>1 DEF Collector!CollectorLimit, Collector!CollectorEndsAtLimit,
        Collector!CollectorCompletesOnce, CollectorRoom
    <3>4. CollectorNames' /\ Collector!CollectorKeepsFrames'
      BY <2>1 DEF CollectorNames, CollectorOlder, Collector!CollectorKeepsFrames, Collector!Names
    <3> QED
      BY <3>2, <3>3, <3>4
  <2>2. CASE Collector!SetIdle
    <3> USE DEF Collector!SetIdle
    <3>1. straddled' \in BOOLEAN
      BY <2>2, Zenon
    <3>2. Collector!TypeOK'
      BY <2>2, <3>1 DEF Collector!Names, Collector!CollectorCompletesOnce
    <3>3. Booked' /\ CollectorCounts'
      BY <2>2 DEF Collector!CollectorLimit, Collector!CollectorEndsAtLimit,
        Collector!CollectorCompletesOnce, CollectorRoom
    <3>4. CollectorNames' /\ Collector!CollectorKeepsFrames'
      BY <2>2 DEF CollectorNames, CollectorOlder, Collector!CollectorKeepsFrames, Collector!Names
    <3> QED
      BY <3>2, <3>3, <3>4
  <2>3. CASE Collector!SetCalibration
    <3> USE DEF Collector!SetCalibration
    <3>1. straddled' \in BOOLEAN
      BY <2>3, Zenon
    <3>2. Collector!TypeOK'
      BY <2>3, <3>1 DEF Collector!Names
    <3>3. Booked' /\ CollectorCounts'
      BY <2>3 DEF Collector!CollectorLimit, Collector!CollectorEndsAtLimit,
        Collector!CollectorCompletesOnce, CollectorRoom
    <3>4. CollectorNames' /\ Collector!CollectorKeepsFrames'
      BY <2>3 DEF CollectorNames, CollectorOlder, Collector!CollectorKeepsFrames, Collector!Names
    <3> QED
      BY <3>2, <3>3, <3>4
  <2>4. CASE Collector!SetReset
    <3> USE DEF Collector!SetReset
    <3>1. straddled' \in BOOLEAN
      BY <2>4, Zenon
    <3>2. Collector!TypeOK'
      BY <2>4, <3>1 DEF Collector!Names
    <3>3. Booked' /\ CollectorCounts'
      BY <2>4 DEF Collector!CollectorLimit, Collector!CollectorEndsAtLimit,
        Collector!CollectorCompletesOnce, CollectorRoom
    <3>4. CollectorNames' /\ Collector!CollectorKeepsFrames'
      <4>1. ~straddled' => ~straddled /\ saver # "batch"
        BY <2>4, Zenon
      <4>2. Collector!CollectorKeepsFrames'
        BY <2>4, <4>1 DEF Collector!CollectorKeepsFrames
      <4>3. CollectorNames'
        BY <2>4, <4>1 DEF CollectorNames, CollectorOlder, Collector!Names
      <4> QED
        BY <4>2, <4>3
    <3> QED
      BY <3>2, <3>3, <3>4
  <2>5. CASE Collector!SetBump
    <3> USE DEF Collector!SetBump
    <3>1. straddled' \in BOOLEAN
      BY <2>5, Zenon
    <3>2. Collector!TypeOK'
      BY <2>5, <3>1 DEF Collector!Names
    <3>3. Booked' /\ CollectorCounts'
      BY <2>5 DEF Collector!CollectorLimit, Collector!CollectorEndsAtLimit,
        Collector!CollectorCompletesOnce, CollectorRoom
    <3>4. CollectorNames' /\ Collector!CollectorKeepsFrames'
      BY <2>5 DEF CollectorNames, CollectorOlder, Collector!CollectorKeepsFrames, Collector!Names
    <3> QED
      BY <3>2, <3>3, <3>4
  <2>6. CASE Collector!Infer
    <3> USE DEF Collector!Infer
    <3>1. straddled' \in BOOLEAN
      BY <2>6, Zenon
    <3>2. Collector!TypeOK'
      BY <2>6, <3>1 DEF Collector!Names
    <3>3. Booked' /\ CollectorCounts'
      BY <2>6 DEF Collector!CollectorLimit, Collector!CollectorEndsAtLimit,
        Collector!CollectorCompletesOnce, CollectorRoom
    <3>4. CollectorNames' /\ Collector!CollectorKeepsFrames'
      BY <2>6 DEF CollectorNames, CollectorOlder, Collector!CollectorKeepsFrames, Collector!Names
    <3> QED
      BY <3>2, <3>3, <3>4
  <2>7. CASE Collector!SaveCheck
    <3> USE DEF Collector!SaveCheck
    <3>1. straddled' \in BOOLEAN
      BY <2>7, Zenon
    <3>2. Collector!TypeOK'
      BY <2>7, <3>1 DEF Collector!Names
    <3>3. Booked' /\ CollectorCounts'
      BY <2>7 DEF Collector!CollectorLimit, Collector!CollectorEndsAtLimit,
        Collector!CollectorCompletesOnce, CollectorRoom
    <3>4. CollectorNames' /\ Collector!CollectorKeepsFrames'
      BY <2>7 DEF CollectorNames, CollectorOlder, Collector!CollectorKeepsFrames, Collector!Names
    <3> QED
      BY <3>2, <3>3, <3>4
  <2>8. CASE Collector!NameCapture
    <3> USE DEF Collector!NameCapture
    <3>1. straddled' \in BOOLEAN
      BY <2>8, Zenon
    <3>2. Collector!TypeOK'
      BY <2>8, <3>1 DEF Collector!Names
    <3>3. Booked' /\ CollectorCounts'
      BY <2>8 DEF Collector!CollectorLimit, Collector!CollectorEndsAtLimit,
        Collector!CollectorCompletesOnce, CollectorRoom
    <3>4. CollectorNames' /\ Collector!CollectorKeepsFrames'
      BY <2>8 DEF CollectorNames, CollectorOlder, Collector!CollectorKeepsFrames, Collector!Names
    <3> QED
      BY <3>2, <3>3, <3>4
  <2>9. CASE Collector!NameBatch
    <3> USE DEF Collector!NameBatch
    <3>1. straddled' \in BOOLEAN
      BY <2>9, Zenon
    <3>2. Collector!TypeOK'
      BY <2>9, <3>1 DEF Collector!Names
    <3>3. Booked' /\ CollectorCounts'
      BY <2>9 DEF Collector!CollectorLimit, Collector!CollectorEndsAtLimit,
        Collector!CollectorCompletesOnce, CollectorRoom
    <3>4. CollectorNames' /\ Collector!CollectorKeepsFrames'
      <4>1. ~straddled' => ~straddled /\ control # "bump"
        BY <2>9, Zenon
      <4>2. Collector!CollectorKeepsFrames'
        BY <2>9, <4>1 DEF Collector!CollectorKeepsFrames
      <4>3. CollectorNames'
        <5> SUFFICES ASSUME ~straddled'
                     PROVE  /\ name' \notin files /\ CollectorOlder(name', capture_count_)
                            /\ \A f \in files : CollectorOlder(f, capture_count_ - 1)
          BY <2>9 DEF CollectorNames, CollectorOlder
        <5>1. \A f \in files : CollectorOlder(f, capture_count_ - 1)
          BY <2>9, <4>1 DEF CollectorNames
        <5>2. name'.batch = batch_id_ /\ name'.capture = capture_count_
          BY <2>9, <4>1 DEF CollectorNames, Collector!Names
        <5>3. \A f \in files : f # name'
          BY <4>1, <5>1, <5>2 DEF CollectorOlder, Collector!Names
        <5> QED
          BY <5>1, <5>2, <5>3 DEF CollectorOlder
      <4> QED
        BY <4>2, <4>3
    <3> QED
      BY <3>2, <3>3, <3>4
  <2>10. CASE Collector!Write
    <3> USE DEF Collector!Write
    <3>1. straddled' \in BOOLEAN
      BY <2>10, Zenon
    <3>2. Collector!TypeOK'
      BY <2>10, <3>1 DEF Collector!Names
    <3>3. Booked' /\ CollectorCounts'
      BY <2>10 DEF Collector!CollectorLimit, Collector!CollectorEndsAtLimit,
        Collector!CollectorCompletesOnce, CollectorRoom
    <3>4. CollectorNames' /\ Collector!CollectorKeepsFrames'
      <4> USE DEF CollectorNames, CollectorOlder, Collector!CollectorKeepsFrames
      <4>1. CASE UNCHANGED files
        BY <2>10, <4>1
      <4>2. CASE files' = files \cup {name} /\ saved' = saved + 1
        <5>1. IsFiniteSet(files') /\
              (name \notin files => Cardinality(files') = Cardinality(files) + 1)
          BY <4>2, FS_AddElement
        <5>2. ~straddled => name \notin files
          BY <2>10
        <5>3. Collector!CollectorKeepsFrames'
          BY <2>10, <4>2, <5>1, <5>2, CollectorCardinality
        <5>4. CollectorNames'
          BY <2>10, <4>2, <5>1 DEF Collector!Names
        <5> QED
          BY <5>3, <5>4
      <4> QED
        BY <2>10, <4>1, <4>2
    <3> QED
      BY <3>2, <3>3, <3>4
  <2>11. CASE Collector!CountFrame
    <3> USE DEF Collector!CountFrame
    <3>1. straddled' \in BOOLEAN
      BY <2>11, Zenon
    <3>2. Collector!TypeOK'
      BY <2>11, <3>1 DEF Collector!Names
    <3>3. Booked' /\ CollectorCounts'
      BY <2>11 DEF Collector!CollectorLimit, Collector!CollectorEndsAtLimit,
        Collector!CollectorCompletesOnce, CollectorRoom
    <3>4. CollectorNames' /\ Collector!CollectorKeepsFrames'
      BY <2>11 DEF CollectorNames, CollectorOlder, Collector!CollectorKeepsFrames, Collector!Names
    <3> QED
      BY <3>2, <3>3, <3>4
  <2>12. CASE Collector!SaveEnd
    <3> USE DEF Collector!SaveEnd
    <3>1. straddled' \in BOOLEAN
      BY <2>12, Zenon
    <3>2. Collector!TypeOK'
      BY <2>12, <3>1 DEF Collector!Names, Collector!CollectorCompletesOnce
    <3>3. Booked' /\ CollectorCounts'
      BY <2>12 DEF Collector!CollectorLimit, Collector!CollectorEndsAtLimit,
        Collector!CollectorCompletesOnce, CollectorRoom
    <3>4. CollectorNames' /\ Collector!CollectorKeepsFrames'
      BY <2>12 DEF CollectorNames, CollectorOlder, Collector!CollectorKeepsFrames, Collector!Names
    <3> QED
      BY <3>2, <3>3, <3>4
  <2>13. CASE UNCHANGED Collector!vars
    BY <2>13 DEF Collector!vars, Collector!CollectorLimit, Collector!CollectorEndsAtLimit,
      Collector!CollectorCompletesOnce, CollectorRoom, CollectorNames, CollectorOlder,
      Collector!CollectorKeepsFrames
  <2> QED
    BY <2>1, <2>2, <2>3, <2>4, <2>5, <2>6, <2>7, <2>8, <2>9, <2>10, <2>11, <2>12, <2>13
    DEF Collector!Next
<1> QED
  BY <1>1, <1>2, PTL DEF Collector!Spec

-----------------------------------------------------------------------------
(* SpatialCalibrator                                                       *)

\* A homography is in place before the flag says so, and the flag stays.
CalibratorLoaded ==
  /\ loader = "flag" \/ calibrated_ => H_ > 0
  /\ step \in {"check", "project"} => calibrated_

\* What apply_batch has done so far: the primitives before i are projected by
\* homographies in the order of their loads, the others are untouched.
CalibratorProgress ==
  /\ \A p \in Calibrator!Primitives :
       /\ has[p] <=> p < i
       /\ coords[p] <= H_
       /\ p >= i => coords[p] = -1
  /\ \A p, q \in Calibrator!Primitives :
       p < q /\ q < i /\ coords[q] # -1 => coords[p] <= coords[q]
  /\ step = "batch" => i = 1
  /\ step = "project" => i <= BatchSize
  /\ step = "done" => i \in {1, BatchSize + 1}

\* CalibratorInv: a batch of any size is projected whole or not at all, by
\* homographies that were loaded, the older first, whenever they are loaded.
THEOREM CalibratorCorrect == Calibrator!Spec => []CalibratorInv
<1> DEFINE Inv == CalibratorInv /\ CalibratorLoaded /\ CalibratorProgress
<1>0. BatchSize \in Nat /\ MaxLoads \in Nat
  BY CalibratorAssumption
<1>1. Calibrator!Init => Inv
  <2> SUFFICES ASSUME Calibrator!Init PROVE Inv
    OBVIOUS
  <2> USE DEF Calibrator!Init, Calibrator!Primitives
  <2>1. calibrated_ \in BOOLEAN /\ ~calibrated_
    BY Zenon
  <2>2. has \in [Calibrator!Primitives -> BOOLEAN]
        /\ \A p \in Calibrator!Primitives : ~has[p]
    BY Zenon
  <2>3. Calibrator!TypeOK
    BY <1>0, <2>1, <2>2 DEF Calibrator!TypeOK
  <2> QED
    BY <1>0, <2>1, <2>2, <2>3 DEF CalibratorInv, Calibrator!CalibratorInv,
      Calibrator!CoordsByLoaded, Calibrator!CoordsInOrder, CalibratorLoaded, CalibratorProgress
<1>2. Inv /\ [Calibrator!Next]_(Calibrator!vars) => Inv'
  <2> SUFFICES ASSUME Inv, [Calibrator!Next]_(Calibrator!vars) PROVE Inv'
    OBVIOUS
  <2> USE <1>0 DEF CalibratorInv, Calibrator!CalibratorInv, Calibrator!TypeOK,
    Calibrator!CoordsByLoaded, Calibrator!CoordsInOrder, CalibratorLoaded, CalibratorProgress,
    Calibrator!ApplyState, Calibrator!Calibration, Calibrator!Primitives
  <2>1. CASE Calibrator!Load
    BY <2>1 DEF Calibrator!Load
  <2>2. CASE Calibrator!LoadFlag
    <3>1. calibrated_' \in BOOLEAN /\ calibrated_' /\ loader' = "idle"
          /\ UNCHANGED <<H_, coords, has, step, i>>
      BY <2>2, Zenon DEF Calibrator!LoadFlag
    <3>2. H_ > 0
      BY <2>2 DEF Calibrator!LoadFlag
    <3> QED
      BY <3>1, <3>2
  <2>3. CASE Calibrator!ApplyBatch
    BY <2>3 DEF Calibrator!ApplyBatch
  <2>4. CASE Calibrator!ApplyCheck
    <3>1. calibrated_ /\ UNCHANGED <<H_, calibrated_, loader, coords, has, i>>
          /\ step' = IF i > BatchSize THEN "done" ELSE "project"
      BY <2>4 DEF Calibrator!ApplyCheck
    <3>2. CalibratorLoaded' /\ CalibratorProgress' /\ Calibrator!TypeOK'
          /\ Calibrator!CoordsByLoaded'
      BY <3>1
    <3>3. Calibrator!CoordsInOrder'
      <4> SUFFICES ASSUME i > BatchSize PROVE Calibrator!CoordsInOrder'
        BY <3>1
      <4>1. \A p \in Calibrator!Primitives : has[p] /\ p < i
        OBVIOUS
      <4>2. \A p, q \in Calibrator!Primitives : p < q => has[p] = has[q]
        BY <4>1, Zenon
      <4> QED
        BY <3>1, <4>1, <4>2
    <3> QED
      BY <3>2, <3>3
  <2>5. CASE Calibrator!Project
    <3> USE DEF Calibrator!Project
    <3>1. PICK c \in {H_, -1} : coords' = [coords EXCEPT ![i] = c]
      BY <2>5
    <3>2. has' \in [Calibrator!Primitives -> BOOLEAN]
      BY <2>5
    <3>3. Calibrator!TypeOK' /\ CalibratorLoaded' /\ Calibrator!CoordsByLoaded'
          /\ Calibrator!CoordsInOrder'
      BY <2>5, <3>1, <3>2
    <3>4. CalibratorProgress'
      BY <2>5, <3>1
    <3> QED
      BY <3>3, <3>4
  <2>6. CASE UNCHANGED Calibrator!vars
    BY <2>6 DEF Calibrator!vars
  <2> QED
    BY <2>1, <2>2, <2>3, <2>4, <2>5, <2>6 DEF Calibrator!Next
<1> QED
  BY <1>1, <1>2, PTL DEF Calibrator!Spec

-----------------------------------------------------------------------------
(* PostProcessDispatcher and ColorValidator                                *)

\* The ranges that validate() would use are among those in force, the region is
\* the box or was not extracted, and a primitive passes by its processing only.
PostProcInForce ==
  /\ PostProc!FirstRanges(configs_) \subseteq inforce
  /\ prim.roi \in {prim.bbox, PostProc!Empty}
  /\ ~judged => ~prim.color_pass

\* What can come first is a range, or none.
LEMMA FirstRangesType ==
  ASSUME NEW configs \in [PostProc!Classes -> Ranges \cup {"none"}]
  PROVE  PostProc!FirstRanges(configs) \subseteq Ranges \cup {"none"}
BY DEF PostProc!FirstRanges

\* What the ratio asks of the pixels that match it allows to the others.
LEMMA RatioOfOthers ==
  ASSUME NEW clear \in Nat, NEW hits \in Nat
  PROVE  /\ 100 * hits >= Ratio * clear => 100 * (clear - hits) <= (100 - Ratio) * clear
         /\ 100 * clear >= Ratio * clear
<1> DEFINE rest == 100 - Ratio
<1>1. Ratio \in Nat /\ rest \in Nat /\ Ratio + rest = 100
  BY PostProcAssumption
<1> HIDE DEF rest
<1>2. \A a, b, c \in Nat : (a + b) * c = a * c + b * c /\ a * c \in Nat
  OBVIOUS
<1>3. 100 * clear = Ratio * clear + rest * clear /\ Ratio * clear \in Nat /\ rest * clear \in Nat
  BY <1>1, <1>2
<1>4. 100 * (clear - hits) = 100 * clear - 100 * hits
  OBVIOUS
<1>5. 100 * hits >= Ratio * clear => 100 * (clear - hits) <= rest * clear
  BY <1>3, <1>4
<1> QED
  BY <1>3, <1>5 DEF rest

\* PostProcInv: a zone passes by a colour in force for some class, and does if all of
\* them match and glare is no bar, for any ranges, regions and ratio, and whichever
\* range the map yields first.
THEOREM PostProcCorrect == PostProc!Spec => []PostProcInv
<1> DEFINE Inv == PostProcInv /\ PostProcInForce
<1>0. /\ "none" \notin Ranges /\ Ratio \in Nat /\ Ratio <= 100
      /\ \A r \in Regions : /\ r.total \in Nat /\ r.glare \in Nat /\ r.hits \in [Ranges -> Nat]
                            /\ r = [total |-> r.total, glare |-> r.glare, hits |-> r.hits]
                            /\ \A range \in Ranges : r.glare + r.hits[range] <= r.total
  BY PostProcAssumption
<1>1. PostProc!Init => Inv
  <2> SUFFICES ASSUME PostProc!Init PROVE Inv
    OBVIOUS
  <2> USE DEF PostProc!Init
  <2>1. judged \in BOOLEAN /\ ~judged
    BY Zenon
  <2>2. prim \in PostProc!Prims /\ prim.roi \in {prim.bbox, PostProc!Empty} /\ ~prim.color_pass
    BY DEF PostProc!Inferred
  <2>3. PostProc!FirstRanges(configs_) = {"none"}
    BY DEF PostProc!FirstRanges
  <2> QED
    BY <2>1, <2>2, <2>3 DEF PostProcInv, PostProc!PostProcInv, PostProc!TypeOK,
      PostProc!PassIsDeserved, PostProc!MatchPasses, PostProcInForce
<1>2. Inv /\ [PostProc!Next]_(PostProc!vars) => Inv'
  <2> SUFFICES ASSUME Inv, [PostProc!Next]_(PostProc!vars) PROVE Inv'
    OBVIOUS
  <2>a. PostProc!TypeOK /\ PostProc!PassIsDeserved /\ PostProc!MatchPasses /\ PostProcInForce
    BY DEF PostProcInv, PostProc!PostProcInv
  <2>b. SUFFICES (PostProc!TypeOK /\ PostProc!PassIsDeserved /\ PostProc!MatchPasses
                  /\ PostProcInForce)'
    BY <2>b DEF PostProcInv, PostProc!PostProcInv
  <2> HIDE DEF Inv
  <2>1. ASSUME NEW c \in PostProc!Classes, NEW r \in Ranges, PostProc!Configure(c, r)
        PROVE  (PostProc!TypeOK /\ PostProc!PassIsDeserved /\ PostProc!MatchPasses
                /\ PostProcInForce)'
    <3>1. configs_' \in [PostProc!Classes -> Ranges \cup {"none"}]
      BY <2>a, <2>1 DEF PostProc!Configure, PostProc!TypeOK
    <3>2. /\ PostProc!FirstRanges(configs_)' \subseteq Ranges \cup {"none"}
          /\ inforce' = inforce \cup PostProc!FirstRanges(configs_)'
          /\ UNCHANGED <<ocr_, color_, prim, judged>>
      <4>1. PostProc!FirstRanges(configs_)' = PostProc!FirstRanges(configs_')
        BY DEF PostProc!FirstRanges
      <4> QED
        BY <2>1, <3>1, <4>1, FirstRangesType DEF PostProc!Configure
    <3>3. PostProc!TypeOK' /\ PostProcInForce'
      BY <2>a, <3>1, <3>2 DEF PostProc!TypeOK, PostProcInForce
    <3>4. PostProc!PassIsDeserved' /\ PostProc!MatchPasses'
      BY <2>a, <3>2 DEF PostProc!PassIsDeserved, PostProc!MatchPasses
    <3> QED
      BY <3>3, <3>4
  <2>2. CASE PostProc!Process
    <3> DEFINE roi == PostProc!Extracted(prim)
    <3>0. PICK range \in PostProc!FirstRanges(configs_) :
            prim' = [prim EXCEPT !.roi = roi, !.color_pass =
                       IF color_ /\ prim.class_id \in {1, 2}
                         THEN PostProc!Validate(roi, range) ELSE prim.color_pass]
      BY <2>2 DEF PostProc!Process
    <3> DEFINE pass == IF color_ /\ prim.class_id \in {1, 2}
                         THEN PostProc!Validate(roi, range) ELSE prim.color_pass
    <3>1. /\ ~judged /\ judged' /\ UNCHANGED <<configs_, ocr_, color_, inforce>>
          /\ prim' = [prim EXCEPT !.roi = roi, !.color_pass = pass]
      BY <2>2, <3>0, Zenon DEF PostProc!Process
    <3>2. /\ prim.class_id \in PostProc!Classes /\ prim.bbox \in Regions
          /\ prim.color_pass = FALSE
          /\ prim = [class_id |-> prim.class_id, bbox |-> prim.bbox, roi |-> prim.roi,
                     color_pass |-> prim.color_pass]
      BY <2>a, <3>1 DEF PostProc!TypeOK, PostProc!Prims, PostProcInForce
    <3>3. /\ prim'.class_id = prim.class_id /\ prim'.bbox = prim.bbox /\ prim'.roi = roi
          /\ prim'.color_pass = pass
      BY <3>1, <3>2
    <3>4. /\ roi \in {prim.bbox, PostProc!Empty}
          /\ color_ /\ prim.class_id = 2 => roi = prim.bbox
      BY <2>a DEF PostProc!Extracted, PostProcInForce
    <3>5. range \in inforce /\ range \in Ranges \cup {"none"}
      BY <2>a, FirstRangesType DEF PostProcInForce, PostProc!TypeOK
    <3>6. pass \in BOOLEAN
      <4>1. PostProc!Validate(roi, range) \in BOOLEAN
        BY Zenon DEF PostProc!Validate
      <4> QED
        BY <3>2, <4>1, Zenon
    <3> HIDE DEF roi, pass
    <3>7. prim' \in PostProc!Prims
      <4>1. roi \in Regions \cup {PostProc!Empty}
        BY <3>2, <3>4
      <4>2. prim' = [class_id |-> prim.class_id, bbox |-> prim.bbox, roi |-> roi,
                     color_pass |-> pass]
        BY <3>1, <3>2
      <4> QED
        BY <3>2, <3>6, <4>1, <4>2, Zenon DEF PostProc!Prims
    <3>8. PostProc!TypeOK'
      <4>1. judged' \in BOOLEAN
        BY <3>1, Zenon
      <4> QED
        BY <2>a, <3>1, <3>7, <4>1 DEF PostProc!TypeOK
    <3>9. PostProcInForce'
      <4>1. PostProc!FirstRanges(configs_)' = PostProc!FirstRanges(configs_)
        BY <3>1 DEF PostProc!FirstRanges
      <4>2. prim'.roi \in {prim'.bbox, PostProc!Empty}
        BY <3>3, <3>4
      <4> QED
        BY <2>a, <3>1, <4>1, <4>2 DEF PostProcInForce
    <3> DEFINE box == prim.bbox
               clear == box.total - box.glare
    <3>a. box.total \in Nat /\ box.glare \in Nat
      BY <1>0, <3>2
    <3>10. ASSUME NEW q \in Ranges
           PROVE  /\ box.total \in Nat /\ box.glare \in Nat /\ clear \in Nat
                  /\ box.hits[q] \in Nat /\ box.hits[q] <= clear
      BY <1>0, <3>2
    <3>11. PostProc!PassIsDeserved'
      <4> SUFFICES ASSUME pass
          PROVE  "none" \in inforce \/ \E q \in inforce :
                   100 * (clear - box.hits[q]) <= (100 - Ratio) * clear
        BY <3>1, <3>3 DEF PostProc!PassIsDeserved
      <4>1. PostProc!Validate(roi, range)
        BY <3>2 DEF pass
      <4>2. range # "none" => 100 * box.hits[range] >= Ratio * clear
        <5>1. roi = box
          BY <3>4, <4>1 DEF PostProc!Validate, PostProc!Empty
        <5> QED
          BY <4>1, <5>1 DEF PostProc!Validate
      <4>3. CASE range = "none"
        BY <3>5, <4>3
      <4>4. CASE range # "none"
        <5>1. range \in Ranges
          BY <3>5, <4>4
        <5>2. 100 * (clear - box.hits[range]) <= (100 - Ratio) * clear
          BY <3>10, <4>2, <4>4, <5>1, RatioOfOthers
        <5> QED
          BY <3>5, <5>2
      <4> QED
        BY <4>3, <4>4
    <3>12. PostProc!MatchPasses'
      <4> SUFFICES ASSUME color_, prim.class_id = 2, box.total > 0,
                          10 * box.glare <= 7 * box.total,
                          \A q \in inforce \ {"none"} : box.hits[q] = clear
          PROVE  pass
        BY <3>1, <3>3 DEF PostProc!MatchPasses
      <4>1. roi = box
        BY <3>4
      <4>2. 10 * (box.total - box.glare) >= 3 * box.total
        BY <3>a
      <4>3. range # "none" => 100 * box.hits[range] >= Ratio * clear
        <5> SUFFICES ASSUME range # "none" PROVE 100 * box.hits[range] >= Ratio * clear
          OBVIOUS
        <5>1. range \in Ranges /\ range \in inforce \ {"none"}
          BY <3>5
        <5>2. box.hits[range] = clear /\ clear \in Nat
          BY <3>10, <5>1
        <5> QED
          BY <5>2, RatioOfOthers
      <4>4. PostProc!Validate(roi, range)
        BY <4>1, <4>2, <4>3 DEF PostProc!Validate
      <4> QED
        BY <4>4 DEF pass
    <3> QED
      BY <3>8, <3>9, <3>11, <3>12
  <2>3. CASE PostProc!NextPrimitive
    <3>1. ~judged' /\ judged' \in BOOLEAN /\ UNCHANGED <<configs_, ocr_, color_>>
          /\ prim' \in PostProc!Inferred /\ inforce' = PostProc!FirstRanges(configs_)
      BY <2>3, Zenon DEF PostProc!NextPrimitive
    <3>2. PostProc!FirstRanges(configs_) \subseteq Ranges \cup {"none"}
      BY <2>a, FirstRangesType DEF PostProc!TypeOK
    <3>3. PostProc!FirstRanges(configs_)' = PostProc!FirstRanges(configs_)
      BY <3>1 DEF PostProc!FirstRanges
    <3>4. prim' \in PostProc!Prims /\ prim'.roi \in {prim'.bbox, PostProc!Empty}
          /\ ~prim'.color_pass
      BY <3>1 DEF PostProc!Inferred
    <3>5. PostProc!TypeOK'
      BY <2>a, <3>1, <3>2, <3>4 DEF PostProc!TypeOK
    <3> QED
      BY <3>1, <3>3, <3>4, <3>5 DEF PostProc!PassIsDeserved, PostProc!MatchPasses, PostProcInForce
  <2>4. CASE UNCHANGED PostProc!vars
    <3>1. UNCHANGED <<configs_, ocr_, color_, prim, judged, inforce>>
      BY <2>4 DEF PostProc!vars
    <3> QED
      BY <2>a, <3>1 DEF PostProc!TypeOK, PostProc!PassIsDeserved, PostProc!MatchPasses,
        PostProcInForce, PostProc!FirstRanges
  <2> QED
    BY <2>1, <2>2, <2>3, <2>4 DEF PostProc!Next
<1> QED
  BY <1>1, <1>2, PTL DEF PostProc!Spec

-----------------------------------------------------------------------------
(* LprnetOcrEngine                                                         *)

\* prev_char is the class of the last timestep.
CtcPrevious ==
  prev_char = IF seen = <<>> THEN Ctc!Corrupt ELSE seen[Len(seen)]

\* A class is the first of the largest logits among those up to n.
FirstLargest(logits, c, n) ==
  c <= n /\ \A d \in 0 .. n :
    logits[d] < logits[c] \/ (logits[d] = logits[c] /\ c <= d)

\* Argmax is a class whenever the logits are finite: the smallest number of classes
\* among which none is the first of the largest would have a largest before it.
LEMMA ArgmaxIsClass ==
  ASSUME NEW logits \in [Ctc!Classes -> Int]
  PROVE  Ctc!Argmax(logits) \in Ctc!Classes
<1> DEFINE Bad == {n \in Ctc!Classes : \A c \in Ctc!Classes : ~FirstLargest(logits, c, n)}
<1>1. NumClasses \in Nat /\ NumClasses > 0 /\ Ctc!Classes \subseteq Nat
      /\ Ctc!Classes = 0 .. NumClasses - 1
  BY CtcAssumption DEF Ctc!Classes
<1>2. Bad = {}
  <2> SUFFICES ASSUME Bad # {} PROVE FALSE
    OBVIOUS
  <2>1. PICK n \in Bad : \A m \in Bad : ~(<<m, n>> \in OpToRel(<, Nat))
    BY <1>1, WFMin, NatLessThanWellFounded, Bad \subseteq Nat, Zenon
  <2>2. \A m \in Bad : ~(m < n)
    BY <1>1, <2>1, Zenon DEF OpToRel
  <2>3. CASE n = 0
    BY <1>1, <2>3, FirstLargest(logits, 0, 0) DEF FirstLargest
  <2>4. CASE n > 0
    <3>1. n - 1 \in Ctc!Classes /\ n - 1 \notin Bad
      BY <1>1, <2>2, <2>4
    <3>2. PICK c \in Ctc!Classes : FirstLargest(logits, c, n - 1)
      BY <3>1
    <3> DEFINE best == IF logits[c] < logits[n] THEN n ELSE c
    <3>3. best \in Ctc!Classes
      OBVIOUS
    <3>4. \A d \in 0 .. n : d = n \/ d \in 0 .. n - 1
      BY <1>1
    <3>5. FirstLargest(logits, best, n)
      <4>1. logits[n] \in Int /\ logits[c] \in Int /\ \A d \in 0 .. n : logits[d] \in Int
        BY <1>1
      <4>2. \A d \in 0 .. n - 1 :
              logits[d] < logits[c] \/ (logits[d] = logits[c] /\ c <= d)
        BY <3>2 DEF FirstLargest
      <4>3. c \in Nat /\ n \in Nat /\ c <= n - 1
        BY <1>1, <3>2 DEF FirstLargest
      <4>4. CASE logits[c] < logits[n]
        <5>1. \A d \in 0 .. n - 1 : logits[d] < logits[n]
          BY <1>1, <4>1, <4>2, <4>4
        <5> QED
          BY <3>4, <4>3, <4>4, <5>1 DEF FirstLargest
      <4>5. CASE ~(logits[c] < logits[n])
        <5>1. logits[n] < logits[c] \/ (logits[n] = logits[c] /\ c <= n)
          BY <4>1, <4>3, <4>5
        <5> QED
          BY <3>4, <4>2, <4>3, <4>5, <5>1 DEF FirstLargest
      <4> QED
        BY <4>4, <4>5
    <3> QED
      BY <3>3, <3>5
  <2> QED
    BY <1>1, <2>3, <2>4
<1>3. PICK c \in Ctc!Classes : FirstLargest(logits, c, NumClasses - 1)
  <2> DEFINE top == NumClasses - 1
  <2>1. top \in Ctc!Classes
    BY <1>1
  <2> HIDE DEF Bad, top
  <2>2. top \notin Bad
    BY <1>2
  <2>3. \E c \in Ctc!Classes : FirstLargest(logits, c, top)
    BY <2>1, <2>2 DEF Bad
  <2> QED
    BY <2>3 DEF top
<1>4. \E a \in Ctc!Classes : \A d \in Ctc!Classes :
        logits[d] < logits[a] \/ (logits[d] = logits[a] /\ a <= d)
  BY <1>1, <1>3 DEF FirstLargest
<1> QED
  BY <1>4 DEF Ctc!Argmax

\* A sequence of bounded length is a sequence.
LEMMA SequencesUpTo ==
  ASSUME NEW S, NEW s, NEW m \in Nat
  PROVE  (s \in UNION {[1 .. n -> S] : n \in 0 .. m}) <=> (s \in Seq(S) /\ Len(s) <= m)
<1>1. ASSUME NEW n \in 0 .. m, s \in [1 .. n -> S]
      PROVE  s \in Seq(S) /\ Len(s) <= m
  BY <1>1
<1>2. ASSUME s \in Seq(S), Len(s) <= m
      PROVE  s \in [1 .. Len(s) -> S] /\ Len(s) \in 0 .. m
  BY <1>2, LenProperties
<1> QED
  BY <1>1, <1>2

\* DecodedRuns: the text has one character for each run of equal ones, in their
\* order, for any logits of any number of timesteps.
THEOREM DecodedCorrect == Ctc!Spec => []DecodedRuns
<1> DEFINE Chars == Ctc!Classes \ {Ctc!kBlankIdx}
<1> DEFINE Steps == Ctc!Classes \cup {Ctc!Corrupt}
<1> DEFINE Typed == /\ prev_char \in Steps
                    /\ seen \in Seq(Steps) /\ Len(seen) <= Timesteps
                    /\ result \in Seq(Chars) /\ Len(result) <= Len(seen)
<1> DEFINE Matched(start) ==
      /\ start \in [DOMAIN result -> Ctc!Starts]
      /\ \A k \in DOMAIN result : result[k] = seen[start[k]]
      /\ \A j, k \in DOMAIN result : j < k => start[j] < start[k]
      /\ \A s \in Ctc!Starts : \E k \in DOMAIN result : start[k] = s
<1> DEFINE Inv == Typed /\ CtcPrevious /\ \E start : Matched(start)
<1>0. /\ NumClasses \in Nat /\ NumClasses > 0 /\ Timesteps \in Nat
      /\ Values \subseteq Int /\ NotFinite \notin Values
      /\ Ctc!Classes = 0 .. NumClasses - 1 /\ Ctc!Corrupt = -1 /\ Ctc!Corrupt \notin Ctc!Classes
  BY CtcAssumption DEF Ctc!Classes, Ctc!Corrupt
<1>1. Inv => DecodedRuns
  <2> SUFFICES ASSUME Inv PROVE DecodedRuns
    OBVIOUS
  <2>1. Len(seen) \in Nat
    OBVIOUS
  <2>2. Ctc!TypeOK
    BY <1>0, <2>1, SequencesUpTo DEF Ctc!TypeOK
  <2>3. PICK start : Matched(start)
    OBVIOUS
  <2> QED
    BY <2>2, <2>3 DEF DecodedRuns, Ctc!DecodedRuns
<1>2. Ctc!Init => Inv
  <2> SUFFICES ASSUME Ctc!Init PROVE Inv
    OBVIOUS
  <2>1. Typed /\ CtcPrevious
    BY <1>0 DEF Ctc!Init, CtcPrevious
  <2>2. Ctc!Starts = {} /\ DOMAIN result = {}
    BY DEF Ctc!Init, Ctc!Starts
  <2>3. Matched([k \in {} |-> 0])
    BY <2>2
  <2> QED
    BY <2>1, <2>3
<1>3. Inv /\ [Ctc!Next]_(Ctc!vars) => Inv'
  <2> SUFFICES ASSUME Inv, [Ctc!Next]_(Ctc!vars) PROVE Inv'
    OBVIOUS
  <2>1. PICK start : Matched(start)
    OBVIOUS
  <2>2. Typed /\ CtcPrevious /\ Len(seen) \in Nat /\ Len(result) \in Nat
        /\ DOMAIN result = 1 .. Len(result)
    OBVIOUS
  <2> DEFINE n == Len(seen) + 1
  <2>3. ASSUME NEW m \in Steps, seen' = Append(seen, m)
        PROVE  /\ seen' \in Seq(Steps) /\ Len(seen') = n /\ seen'[n] = m /\ seen' # <<>>
               /\ \A k \in 1 .. Len(seen) : seen'[k] = seen[k]
               /\ \A s \in Ctc!Starts : s \in 1 .. Len(seen)
               /\ Ctc!Starts' = IF m \notin {Ctc!kBlankIdx, Ctc!Corrupt, prev_char}
                                 THEN Ctc!Starts \cup {n} ELSE Ctc!Starts
    <3>1. /\ seen' \in Seq(Steps) /\ Len(seen') = n /\ seen'[n] = m /\ seen' # <<>>
          /\ \A k \in 1 .. Len(seen) : seen'[k] = seen[k]
      BY <2>2, <2>3
    <3>2. \A s \in Ctc!Starts : s \in 1 .. Len(seen)
      BY DEF Ctc!Starts
    <3>3. n \in Ctc!Starts' <=> m \notin {Ctc!kBlankIdx, Ctc!Corrupt, prev_char}
      <4>1. n \in Ctc!Starts' <=> /\ m \notin {Ctc!kBlankIdx, Ctc!Corrupt}
                                  /\ n = 1 \/ m # seen'[n - 1]
        BY <2>2, <3>1 DEF Ctc!Starts
      <4>2. CASE n = 1
        BY <2>2, <4>1, <4>2 DEF CtcPrevious
      <4>3. CASE n # 1
        BY <2>2, <3>1, <4>1, <4>3 DEF CtcPrevious
      <4> QED
        BY <4>2, <4>3
    <3>4. ASSUME NEW s \in 1 .. Len(seen) PROVE s \in Ctc!Starts' <=> s \in Ctc!Starts
      <4>1. s \in 1 .. Len(seen') /\ seen'[s] = seen[s]
        BY <2>2, <3>1
      <4>2. s # 1 => seen'[s - 1] = seen[s - 1]
        BY <2>2, <3>1, s # 1 => s - 1 \in 1 .. Len(seen)
      <4> QED
        BY <4>1, <4>2 DEF Ctc!Starts
    <3>5. \A s \in Ctc!Starts' : s = n \/ s \in 1 .. Len(seen)
      BY <2>2, <3>1 DEF Ctc!Starts
    <3>6. n \notin 1 .. Len(seen)
      BY <2>2
    <3>7. Ctc!Starts' = IF n \in Ctc!Starts' THEN Ctc!Starts \cup {n} ELSE Ctc!Starts
      <4>1. \A s : s \in Ctc!Starts' => s = n \/ s \in Ctc!Starts
        BY <3>4, <3>5
      <4>2. \A s : s \in Ctc!Starts => s \in Ctc!Starts' /\ s # n
        BY <3>2, <3>4, <3>6
      <4> HIDE DEF n
      <4>3. CASE n \in Ctc!Starts'
        <5>1. Ctc!Starts' = Ctc!Starts \cup {n}
          BY <4>1, <4>2, <4>3
        <5> QED
          BY <4>3, <5>1
      <4>4. CASE n \notin Ctc!Starts'
        <5>1. Ctc!Starts' = Ctc!Starts
          BY <4>1, <4>2, <4>4
        <5> QED
          BY <4>4, <5>1
      <4> QED
        BY <4>3, <4>4
    <3> QED
      BY <3>1, <3>2, <3>3, <3>7, Zenon
  <2>4. ASSUME NEW logits \in Ctc!Logits, Ctc!Skip(logits) PROVE Inv'
    <3>1. /\ Len(seen) < Timesteps /\ prev_char' = Ctc!Corrupt
          /\ seen' = Append(seen, Ctc!Corrupt) /\ result' = result
      BY <1>0, <2>4 DEF Ctc!Skip
    <3>2. /\ seen' \in Seq(Steps) /\ Len(seen') = n /\ seen'[n] = Ctc!Corrupt /\ seen' # <<>>
          /\ \A k \in 1 .. Len(seen) : seen'[k] = seen[k]
          /\ \A s \in Ctc!Starts : s \in 1 .. Len(seen)
          /\ Ctc!Starts' = Ctc!Starts
      BY <2>3, <3>1
    <3>3. Typed' /\ CtcPrevious'
      BY <1>0, <2>2, <3>1, <3>2 DEF CtcPrevious
    <3>4. Matched(start)'
      BY <2>1, <3>1, <3>2
    <3> QED
      BY <3>3, <3>4
  <2>5. ASSUME NEW logits \in Ctc!Logits, Ctc!Decode(logits) PROVE Inv'
    <3> DEFINE m == Ctc!Argmax(logits)
    <3>1. m \in Ctc!Classes
      <4>1. logits \in [Ctc!Classes -> Int]
        BY <1>0, <2>5 DEF Ctc!Decode, Ctc!Logits
      <4> QED
        BY <4>1, ArgmaxIsClass
    <3>2. /\ Len(seen) < Timesteps /\ prev_char' = m /\ seen' = Append(seen, m)
          /\ result' = IF m \notin {Ctc!kBlankIdx, prev_char} THEN Append(result, m) ELSE result
      BY <2>5 DEF Ctc!Decode
    <3> HIDE DEF m
    <3>3. /\ seen' \in Seq(Steps) /\ Len(seen') = n /\ seen'[n] = m /\ seen' # <<>>
          /\ \A k \in 1 .. Len(seen) : seen'[k] = seen[k]
          /\ \A s \in Ctc!Starts : s \in 1 .. Len(seen)
          /\ Ctc!Starts' = IF m \notin {Ctc!kBlankIdx, Ctc!Corrupt, prev_char}
                            THEN Ctc!Starts \cup {n} ELSE Ctc!Starts
      BY <2>3, <3>1, <3>2
    <3>4. prev_char' \in Steps /\ CtcPrevious'
      BY <3>1, <3>2, <3>3 DEF CtcPrevious
    <3>5. CASE m \in {Ctc!kBlankIdx, prev_char}
      <4>1. result' = result /\ Ctc!Starts' = Ctc!Starts
        BY <3>2, <3>3, <3>5
      <4>2. Typed'
        <5>1. Len(seen) < Timesteps /\ Len(seen') = Len(seen) + 1
          BY <3>2, <3>3
        <5>2. Len(seen') <= Timesteps /\ Len(result') <= Len(seen')
          BY <1>0, <2>2, <4>1, <5>1
        <5> QED
          BY <2>2, <3>3, <3>4, <4>1, <5>2
      <4>3. Matched(start)'
        BY <2>1, <3>3, <4>1
      <4> QED
        BY <3>4, <4>2, <4>3
    <3>6. CASE m \notin {Ctc!kBlankIdx, prev_char}
      <4> DEFINE r == Len(result) + 1
      <4> DEFINE start2 == [k \in 1 .. r |-> IF k = r THEN n ELSE start[k]]
      <4>1. result' = Append(result, m) /\ Ctc!Starts' = Ctc!Starts \cup {n} /\ m \in Chars
        BY <1>0, <3>1, <3>2, <3>3, <3>6
      <4>2. /\ result' \in Seq(Chars) /\ Len(result') = r /\ DOMAIN result' = 1 .. r
            /\ result'[r] = m
            /\ \A k \in 1 .. r : k # r => k \in DOMAIN result /\ result'[k] = result[k]
        BY <2>2, <4>1
      <4>3. Typed'
        BY <1>0, <2>2, <3>2, <3>3, <3>4, <4>2
      <4>4. start2 \in [DOMAIN result' -> Ctc!Starts']
        BY <2>1, <4>1, <4>2
      <4>5. \A k \in DOMAIN result' : result'[k] = seen'[start2[k]]
        BY <2>1, <3>3, <4>2
      <4>6. ASSUME NEW j \in DOMAIN result', NEW k \in DOMAIN result', j < k
            PROVE  start2[j] < start2[k]
        <5>1. j \in 1 .. r /\ k \in 1 .. r /\ j # r /\ r \in Nat
          BY <2>2, <4>2, <4>6
        <5>2. start2[j] = start[j] /\ start[j] \in 1 .. Len(seen)
          BY <2>1, <3>3, <4>2, <5>1
        <5>3. CASE k = r
          BY <2>2, <5>1, <5>2, <5>3
        <5>4. CASE k # r
          BY <2>1, <4>2, <4>6, <5>1, <5>2, <5>4
        <5> QED
          BY <5>3, <5>4
      <4>7. \A s \in Ctc!Starts' : \E k \in DOMAIN result' : start2[k] = s
        <5>1. ASSUME NEW s \in Ctc!Starts PROVE \E k \in DOMAIN result' : start2[k] = s
          <6>1. PICK k \in DOMAIN result : start[k] = s
            BY <2>1
          <6>2. k \in DOMAIN result' /\ k # r
            BY <2>2, <4>2
          <6> QED
            BY <4>2, <6>1, <6>2
        <5>2. r \in DOMAIN result' /\ start2[r] = n
          BY <2>2, <4>2
        <5> QED
          BY <4>1, <5>1, <5>2
      <4> HIDE DEF start2
      <4>8. PICK longer : longer = start2
        OBVIOUS
      <4>9. Matched(longer)'
        BY <4>4, <4>5, <4>6, <4>7, <4>8
      <4> QED
        BY <3>4, <4>3, <4>9
    <3> QED
      BY <3>5, <3>6
  <2>6. CASE UNCHANGED Ctc!vars
    <3>1. UNCHANGED <<prev_char, result, seen>> /\ Ctc!Starts' = Ctc!Starts
      BY <2>6 DEF Ctc!vars, Ctc!Starts
    <3>2. Typed' /\ CtcPrevious' /\ Matched(start)'
      BY <2>1, <3>1 DEF CtcPrevious
    <3> QED
      BY <3>2
  <2> QED
    BY <2>4, <2>5, <2>6 DEF Ctc!Next
<1> QED
  BY <1>1, <1>2, <1>3, PTL DEF Ctc!Spec

-----------------------------------------------------------------------------
(* The keys of OtaManager                                                  *)

\* The publisher is at most one key behind what it has announced, and signs with
\* the key it had when it sent the manifest or the one after it.
KeyOrder ==
  /\ publisher <= promised /\ promised <= publisher + 1
  /\ agent # "idle" => manifest.signer <= publisher /\ promised <= manifest.signer + 1
  /\ manifest.announces \in {Keys!None, manifest.signer + 1}

Saving == {"save", "rename", "sync"}

\* What validate() has established on its way to a save or a promotion.
KeyEstablished ==
  /\ agent \in Saving => manifest.announces # Keys!None
  /\ agent = "promote" => next = manifest.signer

\* The same, of files that no failed save and no loss of power has spoilt.
KeyFiles ==
  fault \notin {"save", "power"} =>
    /\ next \in {Keys!None, active + 1}
    /\ agent \in Saving => manifest.signer = active
    /\ agent = "rename" => tmp = manifest.announces
    /\ agent = "sync" => next = manifest.announces
    /\ agent = "remove" => next = Keys!None

\* KeysInv: neither the key that was announced nor the one that the publisher
\* signs with is given up, and a torn one is never promoted, for any number of
\* keys and any of the faults.
THEOREM KeysCorrect == Keys!Spec => []KeysInv
<1> DEFINE Inv == KeysInv /\ KeyOrder /\ KeyEstablished /\ KeyFiles
<1> USE KeysAssumption DEF Keys!None, Keys!Torn, Keys!Keys
<1>1. Keys!Init => Inv
  BY DEF Keys!Init, KeysInv, Keys!KeysInv, Keys!TypeOK, Keys!KeyKept, Keys!KeyCurrent,
    Keys!KeyWhole, KeyOrder, KeyEstablished, KeyFiles, Saving
<1>2. Inv /\ [Keys!Next]_(Keys!vars) => Inv'
  <2> SUFFICES ASSUME Inv, [Keys!Next]_(Keys!vars) PROVE Inv'
    OBVIOUS
  <2> USE DEF KeysInv, Keys!KeysInv, Keys!TypeOK, Keys!KeyKept, Keys!KeyCurrent,
    Keys!KeyWhole, KeyOrder, KeyEstablished, KeyFiles, Saving
  <2>1. ASSUME NEW k \in {Keys!None, publisher + 1} \cap (Keys!Keys \cup {Keys!None}),
               Keys!Receive(k)
        PROVE  Inv'
    BY <2>1 DEF Keys!Receive, Keys!files
  <2>2. CASE Keys!Rotate
    BY <2>2 DEF Keys!Rotate, Keys!files
  <2>3. CASE Keys!VerifyActive
    BY <2>3 DEF Keys!VerifyActive, Keys!Goes, Keys!Announces, Keys!files
  <2>4. CASE Keys!SaveTmp
    BY <2>4 DEF Keys!SaveTmp, Keys!SaveFails, Keys!SaveSuffers, Keys!Goes, Keys!files
  <2>5. CASE Keys!SaveRename
    BY <2>5 DEF Keys!SaveRename, Keys!SaveFails, Keys!SaveSuffers, Keys!Goes, Keys!files
  <2>6. CASE Keys!SaveSync
    BY <2>6 DEF Keys!SaveSync, Keys!Goes, Keys!files
  <2>7. CASE Keys!VerifyNext
    BY <2>7 DEF Keys!VerifyNext, Keys!Goes, Keys!files
  <2>8. CASE Keys!Promote
    BY <2>8 DEF Keys!Promote, Keys!Goes, Keys!files
  <2>9. CASE Keys!PromoteRemove
    BY <2>9 DEF Keys!PromoteRemove, Keys!Goes, Keys!files
  <2>10. CASE Keys!Kill
    BY <2>10 DEF Keys!Kill, Keys!Dies
  <2>11. CASE Keys!PowerLoss
    BY <2>11 DEF Keys!PowerLoss, Keys!Dies
  <2>12. CASE UNCHANGED Keys!vars
    BY <2>12 DEF Keys!vars, Keys!files
  <2> QED
    BY <2>1, <2>2, <2>3, <2>4, <2>5, <2>6, <2>7, <2>8, <2>9, <2>10, <2>11, <2>12 DEF Keys!Next
<1> QED
  BY <1>1, <1>2, PTL DEF Keys!Spec

-----------------------------------------------------------------------------
(* ConfigManager                                                           *)

ConfigStopping == config_main \in {"exchange", "notify", "join", "final"}

\* After stop() was called the snapshot is one that counts as recent, and the
\* flusher has ended when the final save begins.
ConfigStopSeen ==
  /\ ConfigStopping => config \in recent
  /\ config_main \in {"final", "exited"} => flusher = "none"
  /\ config_main = "exited" => flush = "none"

\* The text to be renamed is whole, unless the disk was full.
ConfigTextWhole == flush = "rename" /\ config_fault # "full" => config_tmp \in Config!Configs

\* The final save holds a recent snapshot from its write on.
ConfigFinalSave ==
  config_main = "final" =>
    /\ flush = "rename" /\ config_fault # "full" => config_tmp \in recent
    /\ flush \in {"sync", "none"} /\ config_fault \notin Config!FailedSaves =>
         \E c \in recent : file = {c}

ConfigIInv == Config!ConfigDurable /\ ConfigStopSeen /\ ConfigTextWhole /\ ConfigFinalSave

\* A snapshot is a document, and so is what is left of a text.
LEMMA ConfigDocumentTypes ==
  /\ Config!Configs \subseteq Config!Documents /\ Config!Empty \in Config!Documents
  /\ Config!Defaults \in Config!Configs
  /\ \A d : Config!Cut(d) \subseteq Config!Documents
  /\ \A d \in Config!Documents : Config!ParseJson(d) \in Config!Configs
<1> USE ConfigAssumption
<1>1. Config!Configs \subseteq Config!Documents
  BY DEF Config!Configs, Config!Documents
<1>2. Config!Empty \in Config!Documents
  <2>1. Config!Empty \in [{} -> FieldValues] /\ {} \in SUBSET Config!Fields
    BY DEF Config!Empty
  <2> QED
    BY <2>1 DEF Config!Documents
<1>3. Config!Defaults \in Config!Configs
  BY DEF Config!Defaults, Config!Configs
<1>4. ASSUME NEW d, NEW c \in Config!Cut(d) PROVE c \in Config!Documents
  <2>1. PICK k \in 0 .. NumFields - 1 : c \in [1 .. k -> FieldValues]
    BY <1>4 DEF Config!Cut
  <2>2. 1 .. k \in SUBSET Config!Fields
    BY DEF Config!Fields
  <2> QED
    BY <2>1, <2>2 DEF Config!Documents
<1>5. ASSUME NEW d \in Config!Documents PROVE Config!ParseJson(d) \in Config!Configs
  <2>1. PICK S \in SUBSET Config!Fields : d \in [S -> FieldValues]
    BY DEF Config!Documents
  <2>2. \A f \in Config!Fields : (IF f \in DOMAIN d THEN d[f] ELSE 0) \in FieldValues
    BY <2>1
  <2> QED
    BY <2>2 DEF Config!ParseJson, Config!Configs
<1> QED
  BY <1>1, <1>2, <1>3, <1>4, <1>5

\* What has been put in a file is one document.
LEMMA ConfigFileTypes ==
  /\ {} \in Config!Files
  /\ \A d \in Config!Documents : {d} \in Config!Files
  /\ \A x \in Config!Files : x = {} \/ \E d \in Config!Documents : x = {d}
BY DEF Config!Files

\* start() reads the file.
LEMMA ConfigStartKeeps ==
  ASSUME ConfigIInv, Config!Start
  PROVE  ConfigIInv'
<1> USE ConfigAssumption DEF ConfigIInv, Config!ConfigDurable
<1>1. /\ starts' \in 0 .. MaxStarts /\ config_running' = TRUE /\ config_main' = "up"
      /\ flusher' = "loop" /\ writer' = "idle" /\ flush' = "none" /\ recent' = {}
      /\ pending' = (file # {})
      /\ UNCHANGED <<config_tmp, file, config_survives, config_fault, updates>>
  BY DEF Config!Start, Config!disk, Config!TypeOK
<1>2. config' \in Config!Configs
  <2>1. CASE file = {}
    BY <2>1, ConfigDocumentTypes DEF Config!Start
  <2>2. CASE file # {}
    <3>1. PICK d \in Config!Documents : file = {d}
      BY <2>2, ConfigFileTypes DEF Config!TypeOK
    <3>2. (CHOOSE c \in file : TRUE) = d
      BY <3>1
    <3> QED
      BY <2>2, <3>1, <3>2, ConfigDocumentTypes DEF Config!Start
  <2> QED
    BY <2>1, <2>2
<1>3. Config!TypeOK'
  <2>1. pending' \in BOOLEAN /\ config_running' \in BOOLEAN
    BY <1>1
  <2> QED
    BY <1>1, <1>2, <2>1 DEF Config!TypeOK
<1> QED
  BY <1>1, <1>3 DEF Config!ConfigSavedAtExit, Config!FailedSaves, Config!ConfigFileWhole,
    ConfigStopSeen, ConfigStopping, ConfigTextWhole, ConfigFinalSave

\* stop().
LEMMA ConfigStopKeeps ==
  ASSUME ConfigIInv, Config!Stop
  PROVE  ConfigIInv'
<1> USE ConfigAssumption DEF ConfigIInv, Config!ConfigDurable, Config!StopGoes,
  Config!disk
<1>1. UNCHANGED <<config, writer, config_tmp, file, config_survives, config_fault, updates, starts>>
  BY DEF Config!Stop, Config!StopClear, Config!StopExchange, Config!StopNotify,
    Config!StopJoin, Config!StopReturn
<1>2. CASE Config!StopClear
  <2>1. Config!TypeOK'
    BY <1>1, <1>2 DEF Config!StopClear, Config!TypeOK
  <2> QED
    BY <1>1, <1>2, <2>1 DEF Config!StopClear, Config!ConfigSavedAtExit,
      Config!FailedSaves, Config!ConfigFileWhole, ConfigStopSeen, ConfigStopping,
      ConfigTextWhole, ConfigFinalSave
<1>3. CASE Config!StopExchange
  <2>1. Config!TypeOK'
    BY <1>1, <1>3 DEF Config!StopExchange, Config!TypeOK
  <2> QED
    BY <1>1, <1>3, <2>1 DEF Config!StopExchange, Config!ConfigSavedAtExit,
      Config!FailedSaves, Config!ConfigFileWhole, ConfigStopSeen, ConfigStopping,
      ConfigTextWhole, ConfigFinalSave
<1>4. CASE Config!StopNotify
  <2>1. Config!TypeOK'
    BY <1>1, <1>4 DEF Config!StopNotify, Config!Notified, Config!TypeOK
  <2> QED
    BY <1>1, <1>4, <2>1 DEF Config!StopNotify, Config!ConfigSavedAtExit,
      Config!FailedSaves, Config!ConfigFileWhole, ConfigStopSeen, ConfigStopping,
      ConfigTextWhole, ConfigFinalSave
<1>5. CASE Config!StopJoin
  <2>1. Config!TypeOK'
    BY <1>1, <1>5 DEF Config!StopJoin, Config!TypeOK
  <2> QED
    BY <1>1, <1>5, <2>1 DEF Config!StopJoin, Config!ConfigSavedAtExit, Config!FailedSaves,
      Config!ConfigFileWhole, ConfigStopSeen, ConfigStopping, ConfigTextWhole,
      ConfigFinalSave
<1>6. CASE Config!StopReturn
  <2>1. Config!TypeOK'
    BY <1>1, <1>6 DEF Config!StopReturn, Config!TypeOK
  <2> QED
    BY <1>1, <1>6, <2>1 DEF Config!StopReturn, Config!ConfigSavedAtExit,
      Config!FailedSaves, Config!ConfigFileWhole, ConfigStopSeen, ConfigStopping,
      ConfigTextWhole, ConfigFinalSave
<1> QED
  BY <1>2, <1>3, <1>4, <1>5, <1>6 DEF Config!Stop

\* An update is received; a snapshot taken after stop() was called is recent.
LEMMA ConfigApplyKeeps ==
  ASSUME ConfigIInv, Config!ApplySchedule \/ \E d \in Config!Documents : Config!ApplyStore(d)
  PROVE  ConfigIInv'
<1> USE ConfigAssumption DEF ConfigIInv, Config!ConfigDurable, Config!disk
<1>1. CASE Config!ApplySchedule
  <2>1. Config!TypeOK'
    BY <1>1 DEF Config!ApplySchedule, Config!Notified, Config!TypeOK
  <2> QED
    BY <1>1, <2>1 DEF Config!ApplySchedule, Config!Notified, Config!ConfigSavedAtExit,
      Config!FailedSaves, Config!ConfigFileWhole, ConfigStopSeen, ConfigStopping,
      ConfigTextWhole, ConfigFinalSave
<1>2. ASSUME NEW d \in Config!Documents, Config!ApplyStore(d)
      PROVE  ConfigIInv'
  <2>1. /\ config_main \notin {"down", "exited"} /\ updates' \in 0 .. MaxUpdates
        /\ config' = Config!ParseJson(d) /\ writer' = "stored"
        /\ recent' = IF config_main = "up" THEN {} ELSE recent \cup {config'}
        /\ UNCHANGED <<pending, config_running, flusher, config_main, flush, config_tmp, file, config_survives,
                       config_fault, starts>>
    BY <1>2 DEF Config!ApplyStore, Config!TypeOK
  <2>2. config' \in Config!Configs
    BY <2>1, ConfigDocumentTypes
  <2>3. Config!TypeOK'
    BY <2>1, <2>2 DEF Config!TypeOK
  <2> QED
    BY <2>1, <2>3 DEF Config!ConfigSavedAtExit, Config!FailedSaves,
      Config!ConfigFileWhole, ConfigStopSeen, ConfigStopping, ConfigTextWhole,
      ConfigFinalSave
<1> QED
  BY <1>1, <1>2

\* The flusher's own steps do not touch the disk.
LEMMA ConfigFlusherKeeps ==
  ASSUME ConfigIInv, Config!Flusher
  PROVE  ConfigIInv'
<1> USE ConfigAssumption DEF ConfigIInv, Config!ConfigDurable, Config!FlusherGoes,
  Config!disk
<1>1. /\ UNCHANGED <<config, config_running, writer, config_main, config_tmp, file, config_survives, config_fault, updates,
                     starts, recent>>
      /\ flusher # "none" /\ (pending' = pending \/ pending' = FALSE)
      /\ flush' = flush \/ flush' = "open"
      /\ flusher' \in {"none", "loop", "locked", "blocking", "asleep", "awake",
                       "flushing"}
  BY DEF Config!Flusher, Config!LoopTest, Config!WaitTest, Config!WaitBlock,
    Config!WaitTimeout, Config!Awake, Config!Flushed
<1>2. Config!TypeOK'
  <2>1. pending' \in BOOLEAN
    BY <1>1 DEF Config!TypeOK
  <2>2. flush' \in {"none", "open", "write", "rename", "sync"}
    BY <1>1 DEF Config!TypeOK
  <2> QED
    BY <1>1, <2>1, <2>2 DEF Config!TypeOK
<1>3. config_main \notin {"final", "exited"}
  BY <1>1 DEF ConfigStopSeen
<1> QED
  BY <1>1, <1>2, <1>3 DEF Config!ConfigSavedAtExit, Config!FailedSaves,
    Config!ConfigFileWhole, ConfigStopSeen, ConfigStopping, ConfigTextWhole,
    ConfigFinalSave

\* flush_to_disk(), in the flusher or in stop().
LEMMA ConfigFlushKeeps ==
  ASSUME ConfigIInv, Config!Flush
  PROVE  ConfigIInv'
<1> USE ConfigAssumption DEF ConfigIInv, Config!ConfigDurable, Config!FlushGoes,
  Config!Suffers, Config!disk, Config!FailedSaves
<1>1. /\ UNCHANGED <<config, pending, config_running, flusher, writer, config_main, updates, starts,
                     recent>>
      /\ config_main # "exited"
  BY DEF Config!Flush, Config!FlushOpen, Config!FlushWrite, Config!FlushRename,
    Config!FlushSync, ConfigStopSeen
<1>2. config_fault' = config_fault \/ (config_fault = "none" /\ config_fault' \in Config!FailedSaves \cap ConfigFaults)
  BY DEF Config!Flush, Config!FlushOpen, Config!FlushWrite, Config!FlushRename,
    Config!FlushSync
<1>3. flush' \in {"none", "open", "write", "rename", "sync"}
      /\ config_fault' \in ConfigFaults \cup {"none"}
  BY <1>2 DEF Config!Flush, Config!FlushOpen, Config!FlushWrite, Config!FlushRename,
    Config!FlushSync, Config!TypeOK
<1>4. ConfigStopSeen'
  BY <1>1 DEF ConfigStopSeen, ConfigStopping
<1>5. Config!ConfigSavedAtExit'
  BY <1>1 DEF Config!ConfigSavedAtExit
<1>6. CASE Config!FlushOpen
  <2>1. config_tmp' \in Config!Documents /\ UNCHANGED <<file, config_survives>>
    BY <1>6, ConfigDocumentTypes DEF Config!FlushOpen, Config!TypeOK
  <2>2. Config!TypeOK'
    BY <1>1, <1>3, <2>1 DEF Config!TypeOK
  <2>3. flush' = "write" \/ (flush' = "none" /\ config_fault' = "open")
    BY <1>6 DEF Config!FlushOpen
  <2> QED
    BY <1>1, <1>2, <1>4, <1>5, <2>1, <2>2, <2>3 DEF Config!ConfigFileWhole,
      Config!FailedSaves, ConfigTextWhole, ConfigFinalSave
<1>7. CASE Config!FlushWrite
  <2>1. /\ flush' = "rename" /\ UNCHANGED <<file, config_survives>>
        /\ config_tmp' = config \/ (config_tmp' \in Config!Cut(config) /\ config_fault' = "full")
    BY <1>7 DEF Config!FlushWrite
  <2>2. config_tmp' \in Config!Documents
    BY <2>1, ConfigDocumentTypes DEF Config!TypeOK
  <2>3. Config!TypeOK'
    BY <1>1, <1>3, <2>1, <2>2 DEF Config!TypeOK
  <2>4. config \in Config!Configs /\ (config_main = "final" => config \in recent)
    BY DEF Config!TypeOK, ConfigStopSeen, ConfigStopping
  <2>5. Config!ConfigFileWhole' /\ ConfigTextWhole' /\ ConfigFinalSave'
    BY <1>1, <1>2, <2>1, <2>4 DEF Config!ConfigFileWhole, Config!FailedSaves,
      ConfigTextWhole, ConfigFinalSave
  <2> QED
    BY <1>4, <1>5, <2>3, <2>5
<1>8. CASE Config!FlushRename
  <2>1. /\ flush = "rename" /\ flush' = "sync"
        /\ \/ /\ config_fault' = config_fault /\ file' = {config_tmp}
              /\ config_tmp' = Config!Empty
              /\ config_survives' = config_survives \cup {{config_tmp}}
                                      \cup {{d} : d \in Config!Cut(config_tmp)}
           \/ /\ config_fault' = "rename" /\ config_fault = "none"
              /\ UNCHANGED <<config_tmp, file, config_survives>>
    BY <1>8 DEF Config!FlushRename
  <2>2. file' \in Config!Files /\ config_tmp' \in Config!Documents
    BY <2>1, ConfigDocumentTypes, ConfigFileTypes DEF Config!TypeOK
  <2>3. config_survives' \subseteq Config!Files
    <3>1. \A d \in Config!Cut(config_tmp) : {d} \in Config!Files
      BY ConfigDocumentTypes, ConfigFileTypes
    <3>2. {config_tmp} \in Config!Files /\ config_survives \subseteq Config!Files
      BY ConfigDocumentTypes, ConfigFileTypes DEF Config!TypeOK
    <3>3. config_survives' \subseteq config_survives \cup {{config_tmp}}
                                      \cup {{d} : d \in Config!Cut(config_tmp)}
      BY <2>1
    <3> QED
      BY <3>1, <3>2, <3>3
  <2>4. Config!TypeOK'
    BY <1>1, <1>3, <2>2, <2>3 DEF Config!TypeOK
  <2>5. Config!ConfigFileWhole' /\ ConfigTextWhole' /\ ConfigFinalSave'
    BY <1>1, <2>1 DEF Config!ConfigFileWhole, Config!FailedSaves, ConfigTextWhole,
      ConfigFinalSave
  <2> QED
    BY <1>4, <1>5, <2>4, <2>5
<1>9. CASE Config!FlushSync
  <2>1. /\ flush = "sync" /\ flush' = "none" /\ config_survives' = {file}
        /\ UNCHANGED <<config_tmp, file, config_fault>>
    BY <1>9 DEF Config!FlushSync
  <2>2. Config!TypeOK'
    BY <1>1, <1>3, <2>1 DEF Config!TypeOK
  <2> QED
    BY <1>1, <1>4, <1>5, <2>1, <2>2 DEF Config!ConfigFileWhole, Config!FailedSaves,
      ConfigTextWhole, ConfigFinalSave
<1> QED
  BY <1>6, <1>7, <1>8, <1>9 DEF Config!Flush

\* The daemon dies; only a loss of power changes the file.
LEMMA ConfigDeathKeeps ==
  ASSUME ConfigIInv, Config!Kill \/ Config!PowerLoss
  PROVE  ConfigIInv'
<1> USE ConfigAssumption DEF ConfigIInv, Config!ConfigDurable
<1>1. /\ config_main' = "down" /\ config' = Config!Defaults /\ pending' = FALSE /\ config_running' = FALSE
      /\ flusher' = "none" /\ writer' = "idle" /\ flush' = "none" /\ recent' = {}
      /\ UNCHANGED <<config_tmp, updates, starts>>
  BY DEF Config!Kill, Config!PowerLoss, Config!Dies
<1>2. /\ config_fault = "none" /\ config_fault' \in {"kill", "power"} \cap ConfigFaults
      /\ (UNCHANGED <<file, config_survives>> \/ (config_fault' = "power" /\ file' \in config_survives
                                            /\ config_survives' = {file'}))
  BY DEF Config!Kill, Config!PowerLoss, Config!Suffers
<1>3. file' \in Config!Files /\ config_survives' \subseteq Config!Files
  BY <1>2 DEF Config!TypeOK
<1>4. Config!TypeOK'
  BY <1>1, <1>2, <1>3, ConfigDocumentTypes DEF Config!TypeOK
<1> QED
  BY <1>1, <1>2, <1>4 DEF Config!ConfigSavedAtExit, Config!FailedSaves,
    Config!ConfigFileWhole, ConfigStopSeen, ConfigStopping, ConfigTextWhole,
    ConfigFinalSave

\* ConfigDurable: stop() saves a snapshot that was current after it was called, and
\* only a full disk or a loss of power leaves a text that is cut, for any fields,
\* values, updates, starts and faults.
THEOREM DurableCorrect == Config!Spec => []ConfigDurable
<1>1. Config!Init => ConfigIInv
  <2> SUFFICES ASSUME Config!Init PROVE ConfigIInv
    OBVIOUS
  <2>1. Config!TypeOK
    <3>1. config \in Config!Configs /\ config_tmp \in Config!Documents /\ file \in Config!Files
      BY ConfigDocumentTypes, ConfigFileTypes DEF Config!Init
    <3>2. config_survives \subseteq Config!Files
      BY ConfigFileTypes DEF Config!Init
    <3>3. 0 \in 0 .. MaxUpdates /\ 0 \in 0 .. MaxStarts
      BY ConfigAssumption
    <3>4. pending \in BOOLEAN /\ config_running \in BOOLEAN
      BY DEF Config!Init
    <3>5. recent \subseteq Config!Configs
      BY DEF Config!Init
    <3> QED
      BY <3>1, <3>2, <3>3, <3>4, <3>5 DEF Config!Init, Config!TypeOK
  <2> QED
    BY <2>1 DEF Config!Init, ConfigIInv, Config!ConfigDurable, Config!ConfigSavedAtExit,
      Config!FailedSaves, Config!ConfigFileWhole, ConfigStopSeen, ConfigStopping,
      ConfigTextWhole, ConfigFinalSave
<1>2. ConfigIInv /\ [Config!Next]_(Config!vars) => ConfigIInv'
  <2> SUFFICES ASSUME ConfigIInv, [Config!Next]_(Config!vars) PROVE ConfigIInv'
    OBVIOUS
  <2>1. CASE UNCHANGED Config!vars
    BY <2>1 DEF Config!vars, Config!memory, Config!disk, ConfigIInv, Config!ConfigDurable,
      Config!TypeOK, Config!ConfigSavedAtExit, Config!FailedSaves, Config!ConfigFileWhole,
      ConfigStopSeen, ConfigStopping, ConfigTextWhole, ConfigFinalSave
  <2>2. CASE Config!Next
    BY <2>2, ConfigStartKeeps, ConfigStopKeeps, ConfigFlusherKeeps, ConfigFlushKeeps,
      ConfigApplyKeeps, ConfigDeathKeeps
    DEF Config!Next
  <2> QED
    BY <2>1, <2>2
<1>3. ConfigIInv => ConfigDurable
  BY DEF ConfigIInv, ConfigDurable
<1> QED
  BY <1>1, <1>2, <1>3, PTL DEF Config!Spec

-----------------------------------------------------------------------------
(* The parts together                                                      *)

\* A step of VisionParts is one of a part, and leaves the others alone.
LEMMA PartsSteps ==
  ASSUME [Next]_vars
  PROVE  /\ [Telemetry!Next]_(Telemetry!vars)
         /\ [Thermal!Next]_(Thermal!vars)
         /\ [Keepalive!Next]_(Keepalive!vars)
         /\ [Edge!Next]_(Edge!vars)
         /\ [Collector!Next]_(Collector!vars)
         /\ [Calibrator!Next]_(Calibrator!vars)
         /\ [PostProc!Next]_(PostProc!vars)
         /\ [Ctc!Next]_(Ctc!vars)
         /\ [Keys!Next]_(Keys!vars)
         /\ [Config!Next]_(Config!vars)
<1>1. UNCHANGED telemetryVars => UNCHANGED Telemetry!vars
  BY DEF telemetryVars, Telemetry!vars, Telemetry!counters, Telemetry!sample
<1>2. UNCHANGED thermalVars => UNCHANGED Thermal!vars
  BY DEF thermalVars, Thermal!vars
<1>3. UNCHANGED keepaliveVars => UNCHANGED Keepalive!vars
  BY DEF keepaliveVars, Keepalive!vars
<1>4. UNCHANGED edgeVars => UNCHANGED Edge!vars
  BY DEF edgeVars, Edge!vars
<1>5. UNCHANGED collectorVars => UNCHANGED Collector!vars
  BY DEF collectorVars, Collector!vars, Collector!engine, Collector!past
<1>6. UNCHANGED calibratorVars => UNCHANGED Calibrator!vars
  BY DEF calibratorVars, Calibrator!vars
<1>7. UNCHANGED postprocVars => UNCHANGED PostProc!vars
  BY DEF postprocVars, PostProc!vars
<1>8. UNCHANGED ctcVars => UNCHANGED Ctc!vars
  BY DEF ctcVars, Ctc!vars
<1>9. UNCHANGED keysVars => UNCHANGED Keys!vars
  BY DEF keysVars, Keys!vars, Keys!files
<1>10. UNCHANGED configVars => UNCHANGED Config!vars
  BY DEF configVars, Config!vars, Config!memory, Config!disk
<1>11. CASE UNCHANGED vars
  BY <1>1, <1>2, <1>3, <1>4, <1>5, <1>6, <1>7, <1>8, <1>9, <1>10, <1>11
  DEF vars, threadVars, frameVars, fileVars
<1>12. CASE Next
  BY <1>1, <1>2, <1>3, <1>4, <1>5, <1>6, <1>7, <1>8, <1>9, <1>10, <1>12
  DEF Next, threadVars, frameVars, fileVars
<1> QED
  BY <1>11, <1>12

\* VisionParts, as it is checked, is a specification of every part of it.
THEOREM PartsImplement ==
  Spec => /\ Telemetry!Spec /\ Thermal!Spec /\ Keepalive!Spec /\ Edge!Spec
          /\ Collector!Spec /\ Calibrator!Spec /\ PostProc!Spec /\ Ctc!Spec /\ Keys!Spec
          /\ Config!Spec
<1>1. Init => /\ Telemetry!Init /\ Thermal!Init /\ Keepalive!Init /\ Edge!Init
              /\ Collector!Init /\ Calibrator!Init /\ PostProc!Init /\ Ctc!Init /\ Keys!Init
              /\ Config!Init
  BY DEF Init
<1> QED
  BY <1>1, PartsSteps, PTL DEF Spec, Telemetry!Spec, Thermal!Spec, Keepalive!Spec, Edge!Spec,
    Collector!Spec, Calibrator!Spec, PostProc!Spec, Ctc!Spec, Keys!Spec, Config!Spec

\* Every invariant of the run of VisionParts.
THEOREM PartsCorrect ==
  Spec => [](/\ TelemetryInv /\ ThermalInv /\ WatchdogInv /\ EdgeInv /\ CollectorInv
             /\ CalibratorInv /\ PostProcInv /\ DecodedRuns /\ KeysInv /\ ConfigDurable)
BY PartsImplement, TelemetryCorrect, ThermalCorrect, WatchdogCorrect, EdgeCorrect,
  CollectorCorrect, CalibratorCorrect, PostProcCorrect, DecodedCorrect, KeysCorrect,
  DurableCorrect, PTL
=============================================================================
