---------------------------- MODULE DataCollector ----------------------------
(***************************************************************************)
(* The engine that collects calibration frames (edge_ops/gema_vision,      *)
(* DataCollectorEngine): infer() saves frames in the pipeline's consumer   *)
(* thread while set_mode() starts and ends calibrations in another.        *)
(* The fields are atomics, each read and written on its own.  Progress     *)
(* messages are left out.                                                  *)
(***************************************************************************)
EXTENDS Naturals, FiniteSets

CONSTANTS
  Limit,       \* kCaptureLimit
  MaxFrames,   \* bound on the frames that reach infer()
  MaxSets,     \* bound on the calls of set_mode(CALIBRATION)
  MaxSeconds   \* bound on the seconds of the clock in file names

VARIABLES
  mode_, capture_count_, batch_id_,
  consumer,    \* where infer() is
  name,        \* the file name being built: second, batch and capture
  control,     \* where set_mode(CALIBRATION) is
  second,      \* the clock
  files,       \* the names of the files written
  saved,       \* history: the writes that succeeded
  began,       \* history: the changes from IDLE to CALIBRATION
  completed,   \* history: the calibration_complete messages
  straddled,   \* history: a file name may have the count of one calibration
               \* and the batch of another
  frames, sets

engine == <<mode_, capture_count_, batch_id_>>
past   == <<saved, began, completed, straddled, frames, sets>>
vars   == <<engine, consumer, name, control, second, files, past>>

Names == [second : 0 .. MaxSeconds, batch : 0 .. MaxSets, capture : 0 .. MaxFrames]

TypeOK ==
  /\ mode_ \in {"IDLE", "CALIBRATION"}
  /\ capture_count_ \in 0 .. MaxFrames /\ batch_id_ \in 0 .. MaxSets
  /\ consumer \in {"idle", "check", "name", "batch", "write", "count", "end"}
  /\ name \in Names /\ files \subseteq Names
  /\ control \in {"idle", "reset", "bump"}
  /\ second \in 0 .. MaxSeconds
  /\ {saved, frames} \subseteq 0 .. MaxFrames
  /\ {began, completed, sets} \subseteq 0 .. MaxSets
  /\ straddled \in BOOLEAN

Init ==
  /\ mode_ = "IDLE" /\ capture_count_ = 0 /\ batch_id_ = 0
  /\ consumer = "idle" /\ control = "idle" /\ second = 0 /\ files = {}
  /\ name = [second |-> 0, batch |-> 0, capture |-> 0]
  /\ saved = 0 /\ began = 0 /\ completed = 0 /\ straddled = FALSE
  /\ frames = 0 /\ sets = 0

Clock ==
  /\ second < MaxSeconds /\ second' = second + 1
  /\ UNCHANGED <<engine, consumer, name, control, files, past>>

-----------------------------------------------------------------------------
(* set_mode()                                                              *)

\* set_mode(IDLE), in either thread: reported if a calibration was running.
ToIdle ==
  /\ mode_' = "IDLE"
  /\ completed' = IF mode_ = "CALIBRATION" THEN completed + 1 ELSE completed

SetIdle ==
  /\ control = "idle" /\ ToIdle
  /\ UNCHANGED <<capture_count_, batch_id_, consumer, name, control, second,
                 files, saved, began, straddled, frames, sets>>

\* set_mode(CALIBRATION): the mode is exchanged...
SetCalibration ==
  /\ control = "idle" /\ sets < MaxSets /\ sets' = sets + 1
  /\ control' = "reset" /\ mode_' = "CALIBRATION"
  /\ began' = IF mode_ = "IDLE" THEN began + 1 ELSE began
  /\ UNCHANGED <<capture_count_, batch_id_, consumer, name, second, files,
                 saved, completed, straddled, frames>>

\* ... the count is reset...
SetReset ==
  /\ control = "reset" /\ control' = "bump" /\ capture_count_' = 0
  /\ straddled' = (straddled \/ consumer = "batch")
  /\ UNCHANGED <<mode_, batch_id_, consumer, name, second, files, saved, began,
                 completed, frames, sets>>

\* ... and the batch is advanced.
SetBump ==
  /\ control = "bump" /\ control' = "idle" /\ batch_id_' = batch_id_ + 1
  /\ UNCHANGED <<mode_, capture_count_, consumer, name, second, files, past>>

-----------------------------------------------------------------------------
(* infer() and save_frame()                                                *)

ConsumerGoes(from, to) ==
  consumer = from /\ consumer' = to /\ UNCHANGED <<batch_id_, control, second, sets>>

\* infer: a frame is saved in CALIBRATION and dropped otherwise.
Infer ==
  /\ frames < MaxFrames /\ frames' = frames + 1
  /\ ConsumerGoes("idle", IF mode_ = "CALIBRATION" THEN "check" ELSE "idle")
  /\ UNCHANGED <<mode_, capture_count_, name, files, saved, began, completed,
                 straddled>>

SaveCheck ==
  /\ ConsumerGoes("check", IF capture_count_ >= Limit THEN "end" ELSE "name")
  /\ UNCHANGED <<mode_, capture_count_, name, files, saved, began, completed,
                 straddled, frames>>

\* build_filename reads the clock and the count...
NameCapture ==
  /\ ConsumerGoes("name", "batch")
  /\ name' = [second |-> second, batch |-> 0, capture |-> capture_count_]
  /\ UNCHANGED <<mode_, capture_count_, files, saved, began, completed,
                 straddled, frames>>

\* ... then the batch.
NameBatch ==
  /\ ConsumerGoes("batch", "write")
  /\ name' = [name EXCEPT !.batch = batch_id_]
  /\ straddled' = (straddled \/ control = "bump")
  /\ UNCHANGED <<mode_, capture_count_, files, saved, began, completed, frames>>

\* imwrite replaces a file of that name; a failure ends the calibration.
Write ==
  /\ \/ ConsumerGoes("write", "count") /\ files' = files \cup {name}
        /\ saved' = saved + 1
     \/ ConsumerGoes("write", "end") /\ UNCHANGED <<files, saved>>
  /\ UNCHANGED <<mode_, capture_count_, name, began, completed, straddled, frames>>

\* Mutant: the limit is noticed by the next frame only.
CountNoStop ==
  /\ ConsumerGoes("count", "idle") /\ capture_count_' = capture_count_ + 1
  /\ UNCHANGED <<mode_, name, files, saved, began, completed, straddled, frames>>

CountFrame ==
  /\ ConsumerGoes("count", IF capture_count_ + 1 >= Limit THEN "end" ELSE "idle")
  /\ capture_count_' = capture_count_ + 1
  /\ UNCHANGED <<mode_, name, files, saved, began, completed, straddled, frames>>

\* save_frame ends with set_mode(IDLE) at the limit or after an error.
SaveEnd ==
  /\ ConsumerGoes("end", "idle") /\ ToIdle
  /\ UNCHANGED <<capture_count_, name, files, saved, began, straddled, frames>>

Next ==
  \/ Clock \/ SetIdle \/ SetCalibration \/ SetReset \/ SetBump
  \/ Infer \/ SaveCheck \/ NameCapture \/ NameBatch \/ Write \/ CountFrame \/ SaveEnd

Spec == Init /\ [][Next]_vars

-----------------------------------------------------------------------------
(* Properties                                                              *)

\* A calibration never counts more than kCaptureLimit frames, though it may be
\* seen before its count is reset.
CollectorLimit == capture_count_ <= Limit

\* A calibration that has reached its limit is about to be ended by the thread
\* that counted the last frame.
CollectorEndsAtLimit ==
  capture_count_ >= Limit /\ mode_ = "CALIBRATION" /\ control # "reset" =>
    consumer = "end"

\* Every change from IDLE to CALIBRATION is reported complete exactly once, whichever
\* of the two threads changes back (a save that is ending may do so just after a
\* calibration was restarted, and that report is then its only one).
CollectorCompletesOnce ==
  began = completed + (IF mode_ = "CALIBRATION" THEN 1 ELSE 0)

\* A file is never overwritten by a later capture, unless set_mode() got between the
\* two reads of a name, or a name between the two writes of set_mode().
CollectorKeepsFrames == straddled \/ Cardinality(files) = saved

\* A calibration counts no frame past the limit, ends at it, is reported, and keeps
\* its frames up to the names that set_mode() tears.
CollectorInv ==
  /\ TypeOK
  /\ CollectorLimit /\ CollectorEndsAtLimit /\ CollectorCompletesOnce
  /\ CollectorKeepsFrames
=============================================================================
