------------------------- MODULE TelemetryCollector -------------------------
(***************************************************************************)
(* The telemetry thread of the vision daemon (edge_ops/gema_vision,        *)
(* TelemetryCollector) and the counters it samples one at a time while the *)
(* consumer of the pipeline advances them.  Uptime, memory, dropped frames *)
(* and temperature are read once and passed on, and are left out.          *)
(***************************************************************************)
EXTENDS Integers, Sequences, FiniteSets

CONSTANT MaxFrames  \* bound on the frames processed

VARIABLES
  frames,     \* frames_processed_
  defects,    \* defects_total_
  consumer,   \* the defects of a frame that are still to be counted
  history,    \* history: the defects in each frame counted
  running,    \* running_
  collector,  \* where collect_loop is
  main,       \* where the thread that calls start() and stop() is
  last,       \* last_frames_
  delta,      \* delta of the sample being taken
  payload,    \* what was published last
  base, sum   \* history: last_frames_ at start(), the deltas published

counters == <<frames, defects, consumer, history>>
sample   == <<last, delta, payload, base, sum>>
vars     == <<counters, running, collector, main, sample>>

Count   == 0 .. MaxFrames
Nothing == [frames |-> 0, defects |-> 0, delta |-> 0]

TypeOK ==
  /\ {frames, defects, last, delta, base, sum} \subseteq Count
  /\ consumer \in 0 .. 1 /\ history \in UNION {[1 .. n -> 0 .. 1] : n \in Count}
  /\ running \in BOOLEAN
  /\ collector \in {"none", "loop", "locked", "blocking", "asleep", "awake",
                    "sampling", "publishing"}
  /\ main \in {"new", "up", "notify", "join", "stopped"}
  /\ payload \in [frames : Count, defects : Count, delta : Count]

Init ==
  /\ frames = 0 /\ defects = 0 /\ consumer = 0 /\ history = <<>>
  /\ running = FALSE /\ collector = "none" /\ main = "new"
  /\ last = 0 /\ delta = 0 /\ payload = Nothing /\ base = 0 /\ sum = 0

\* The end of the consumer's loop: the frame is counted, then its defects.
CountFrame(n) ==
  /\ consumer = 0 /\ frames < MaxFrames
  /\ frames' = frames + 1 /\ consumer' = n /\ history' = Append(history, n)
  /\ UNCHANGED <<defects, running, collector, main, sample>>

CountDefects ==
  /\ consumer > 0
  /\ defects' = defects + consumer /\ consumer' = 0
  /\ UNCHANGED <<frames, history, running, collector, main, sample>>

Start ==
  /\ main = "new" /\ main' = "up" /\ running' = TRUE /\ collector' = "loop"
  /\ last' = frames /\ base' = frames
  /\ UNCHANGED <<counters, delta, payload, sum>>

-----------------------------------------------------------------------------
(* stop(): the flag, the notification under the mutex, join()              *)

StopExchange ==
  /\ main = "up" /\ main' = "notify" /\ running' = FALSE
  /\ UNCHANGED <<counters, collector, sample>>

\* Mutant: notify_one() without the mutex.
StopNotifyUnlocked ==
  /\ main = "notify" /\ main' = "join"
  /\ collector' = IF collector = "asleep" THEN "locked" ELSE collector
  /\ UNCHANGED <<counters, running, sample>>

StopNotify ==
  /\ main = "notify" /\ collector \notin {"locked", "blocking"}
  /\ main' = "join"
  /\ collector' = IF collector = "asleep" THEN "locked" ELSE collector
  /\ UNCHANGED <<counters, running, sample>>

StopJoin ==
  /\ main = "join" /\ collector = "none" /\ main' = "stopped"
  /\ UNCHANGED <<counters, running, collector, sample>>

-----------------------------------------------------------------------------
(* collect_loop()                                                          *)

Goes(from, to) ==
  collector = from /\ collector' = to /\ UNCHANGED <<counters, running, main>>

LoopTest == Goes("loop", IF running THEN "locked" ELSE "none") /\ UNCHANGED sample

\* wait_for tests running_ with the mutex held, and then blocks.
WaitTest ==
  Goes("locked", IF running THEN "blocking" ELSE "awake") /\ UNCHANGED sample

WaitBlock == Goes("blocking", "asleep") /\ UNCHANGED sample

\* interval_ has passed.
WaitTimeout == Goes("asleep", "awake") /\ UNCHANGED sample

\* The frames are sampled first...
SampleFrames ==
  \/ ~running /\ Goes("awake", "none") /\ UNCHANGED sample
  \/ /\ running /\ Goes("awake", "sampling")
     /\ delta' = frames - last /\ last' = frames
     /\ UNCHANGED <<payload, base, sum>>

\* Mutant: last_frames_ is set from another read of the counter.
SampleDefectsRereads ==
  /\ Goes("sampling", "publishing")
  /\ payload' = [frames |-> last, defects |-> defects, delta |-> delta]
  /\ last' = frames
  /\ UNCHANGED <<delta, base, sum>>

\* ... the defects after them...
SampleDefects ==
  /\ Goes("sampling", "publishing")
  /\ payload' = [frames |-> last, defects |-> defects, delta |-> delta]
  /\ UNCHANGED <<last, delta, base, sum>>

\* ... and the payload is published.
Publish ==
  /\ Goes("publishing", "loop")
  /\ sum' = sum + payload.delta
  /\ UNCHANGED <<last, delta, payload, base>>

-----------------------------------------------------------------------------

Collect == LoopTest \/ WaitTest \/ WaitBlock \/ SampleFrames \/ SampleDefects \/ Publish

Next ==
  \/ (\E n \in 0 .. 1 : CountFrame(n)) \/ CountDefects
  \/ Start \/ StopExchange \/ StopNotify \/ StopJoin
  \/ Collect \/ WaitTimeout

Spec == Init /\ [][Next]_vars

\* stop() goes on and the thread runs.  A wait need not time out.
Fairness == WF_vars(StopNotify) /\ WF_vars(StopJoin) /\ WF_vars(Collect)

FairSpec == Spec /\ Fairness

-----------------------------------------------------------------------------
(* Properties                                                              *)

\* stop() returns without waiting for the 30 s of the interval to pass.
TelemetryStopsPromptly == main = "notify" ~> main = "stopped"

\* No frame is counted twice or skipped by the deltas that fps is made of:
\* they add up to the total published with the last of them.
TelemetryDeltasAdd ==
  collector \in {"loop", "locked", "blocking", "asleep", "awake"}
    /\ payload # Nothing => base + sum = payload.frames

\* A payload is not a snapshot of the pipeline, but its defects include those
\* of every frame it counts, the last one excepted.
TelemetryDefectsKeepUp ==
  payload # Nothing =>
    payload.defects >=
      Cardinality({i \in 1 .. payload.frames - 1 : history[i] = 1})

\* The totals of a payload, its deltas and the counters they are sampled from.
TelemetryInv == TypeOK /\ TelemetryDeltasAdd /\ TelemetryDefectsKeepUp
=============================================================================
