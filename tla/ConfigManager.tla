---------------------------- MODULE ConfigManager ----------------------------
(***************************************************************************)
(* The configuration of the vision daemon (edge_ops/gema_vision,           *)
(* ConfigManager): a snapshot in memory that an update replaces at once,   *)
(* and a thread that saves it to a file some time later.                   *)
(*                                                                         *)
(* A JSON text is a document: the values of the fields it has, a partial   *)
(* function on Fields.  serialize() writes every field, in order, so what  *)
(* is left of a text that was cut is a document on the first few fields,   *)
(* the last of them with any value (a number may have lost digits).        *)
(* color_thresholds and config_topic are never parsed and are left out.    *)
(***************************************************************************)
EXTENDS Naturals

CONSTANTS
  NumFields,   \* fields of ConfigState, in the order of serialize()
  Values,      \* values a field can have; 0 is its default
  MaxUpdates,  \* bound on the updates received
  MaxStarts,   \* bound on the starts of the daemon
  Faults       \* the faults that can happen; one at most does

VARIABLES
  config,    \* config_, the snapshot that current() returns
  pending,   \* flush_pending_
  running,   \* flush_running_
  flusher,   \* where flush_loop is
  writer,    \* where apply_json is
  main,      \* where the thread that calls start() and stop() is
  flush,     \* where flush_to_disk is, in the flusher or in stop()
  tmp,       \* the document in config.json.tmp
  file,      \* config.json: a set of at most one document
  survives,  \* what config.json may be after a loss of power
  fault,     \* the fault that has happened, if any
  updates, starts,
  recent     \* history: the snapshots since stop() was called

memory == <<config, pending, running, flusher, writer, main, flush>>
disk   == <<tmp, file, survives>>
vars   == <<memory, disk, fault, updates, starts, recent>>

Fields    == 1 .. NumFields
Configs   == [Fields -> Values]
Documents == UNION {[S -> Values] : S \in SUBSET Fields}
Files     == {{}} \cup {{d} : d \in Documents}
Defaults  == [f \in Fields |-> 0]
Empty     == [f \in {} |-> 0]

TypeOK ==
  /\ config \in Configs /\ recent \subseteq Configs
  /\ tmp \in Documents /\ file \in Files /\ survives \subseteq Files
  /\ pending \in BOOLEAN /\ running \in BOOLEAN
  /\ flusher \in {"none", "loop", "locked", "blocking", "asleep", "awake", "flushing"}
  /\ writer \in {"idle", "stored"}
  /\ main \in {"down", "up", "exchange", "notify", "join", "final", "exited"}
  /\ flush \in {"none", "open", "write", "rename", "sync"}
  /\ fault \in Faults \cup {"none"}
  /\ updates \in 0 .. MaxUpdates /\ starts \in 0 .. MaxStarts

\* What is left of a text when its end is cut off.
Cut(d) == {c \in UNION {[1 .. k -> Values] : k \in 0 .. NumFields - 1} :
             /\ DOMAIN c \subseteq DOMAIN d
             /\ \A f \in DOMAIN c : f + 1 \in DOMAIN c => c[f] = d[f]}

\* parse_json: starts from the defaults and never fails.  The inheritance in
\* apply_json looks for empty strings and a zero port, which never come out.
ParseJson(d) == [f \in Fields |-> IF f \in DOMAIN d THEN d[f] ELSE 0]

Init ==
  /\ config = Defaults /\ pending = FALSE /\ running = FALSE
  /\ flusher = "none" /\ writer = "idle" /\ main = "down" /\ flush = "none"
  /\ tmp = Empty /\ file = {} /\ survives = {{}}
  /\ fault = "none" /\ updates = 0 /\ starts = 0 /\ recent = {}

-----------------------------------------------------------------------------
(* start() and stop()                                                      *)

\* start: load_file, which schedules a save of what it has just read, then
\* the thread.
Start ==
  /\ main \in {"down", "exited"} /\ starts < MaxStarts
  /\ starts' = starts + 1
  /\ config' = IF file = {} THEN Defaults
                            ELSE ParseJson(CHOOSE d \in file : TRUE)
  /\ pending' = (file # {}) /\ running' = TRUE
  /\ main' = "up" /\ flusher' = "loop" /\ writer' = "idle" /\ flush' = "none"
  /\ recent' = {}
  /\ UNCHANGED <<disk, fault, updates>>

MutexFree == flusher \notin {"locked", "blocking", "awake"}

StopGoes(from, to) ==
  /\ main = from /\ main' = to
  /\ UNCHANGED <<config, writer, disk, fault, updates, starts>>

\* stop: flush_pending_ is cleared under the mutex...
StopClear ==
  /\ StopGoes("up", "exchange") /\ MutexFree
  /\ pending' = FALSE /\ recent' = {config}
  /\ UNCHANGED <<running, flusher, flush>>

\* ... flush_running_ without it...
StopExchange ==
  /\ StopGoes("exchange", "notify") /\ running' = FALSE
  /\ UNCHANGED <<pending, flusher, flush, recent>>

Notified == IF flusher = "asleep" THEN "locked" ELSE flusher

\* ... then notify_one()...
StopNotify ==
  /\ StopGoes("notify", "join") /\ flusher' = Notified
  /\ UNCHANGED <<pending, running, flush, recent>>

\* Mutant: the final save is left out.
StopJoinOnly ==
  /\ StopGoes("join", "final") /\ flusher = "none"
  /\ UNCHANGED <<pending, running, flusher, flush, recent>>

\* ... join(), the final save...
StopJoin ==
  /\ StopGoes("join", "final") /\ flusher = "none" /\ flush' = "open"
  /\ UNCHANGED <<pending, running, flusher, recent>>

\* ... and the end of it.
StopReturn ==
  /\ StopGoes("final", "exited") /\ flush = "none"
  /\ UNCHANGED <<pending, running, flusher, flush, recent>>

-----------------------------------------------------------------------------
(* apply_json(), in the thread that receives updates                       *)

\* The snapshot is swapped in memory...
ApplyStore(d) ==
  /\ main \notin {"down", "exited"} /\ writer = "idle" /\ updates < MaxUpdates
  /\ updates' = updates + 1
  /\ config' = ParseJson(d) /\ writer' = "stored"
  /\ recent' = IF main = "up" THEN {} ELSE recent \cup {ParseJson(d)}
  /\ UNCHANGED <<pending, running, flusher, main, flush, disk, fault, starts>>

\* ... then a save is scheduled.
ApplySchedule ==
  /\ writer = "stored" /\ MutexFree
  /\ writer' = "idle" /\ pending' = TRUE /\ flusher' = Notified
  /\ UNCHANGED <<config, running, main, flush, disk, fault, updates, starts, recent>>

-----------------------------------------------------------------------------
(* flush_loop()                                                            *)

FlusherGoes(from, to) ==
  /\ flusher = from /\ flusher' = to
  /\ UNCHANGED <<config, running, writer, main, disk, fault, updates, starts, recent>>

\* The test of the loop, then the mutex.
LoopTest ==
  /\ FlusherGoes("loop", IF running THEN "locked" ELSE "none")
  /\ UNCHANGED <<pending, flush>>

\* wait_for tests the predicate with the mutex held...
WaitTest ==
  /\ FlusherGoes("locked", IF pending \/ ~running THEN "awake" ELSE "blocking")
  /\ UNCHANGED <<pending, flush>>

\* ... and only then can be notified.
WaitBlock == FlusherGoes("blocking", "asleep") /\ UNCHANGED <<pending, flush>>

\* After 2 s, notified or not.
WaitTimeout == FlusherGoes("asleep", "awake") /\ UNCHANGED <<pending, flush>>

\* Mutant: flush_pending_ is cleared when the save ends, too.
FlushedClears ==
  /\ flush = "none"
  /\ FlusherGoes("flushing", "loop") /\ pending' = FALSE /\ UNCHANGED flush

\* The rest of the loop's body.
Awake ==
  \/ ~running /\ FlusherGoes("awake", "none") /\ UNCHANGED <<pending, flush>>
  \/ running /\ pending /\ FlusherGoes("awake", "flushing")
     /\ pending' = FALSE /\ flush' = "open"
  \/ running /\ ~pending /\ FlusherGoes("awake", "loop")
     /\ UNCHANGED <<pending, flush>>

Flushed ==
  flush = "none" /\ FlusherGoes("flushing", "loop") /\ UNCHANGED <<pending, flush>>

-----------------------------------------------------------------------------
(* flush_to_disk()                                                         *)

Suffers(f) == fault = "none" /\ f \in Faults /\ fault' = f

FlushGoes(from, to) ==
  /\ flush = from /\ flush' = to
  /\ UNCHANGED <<config, pending, running, flusher, writer, main, updates,
                 starts, recent>>

\* The temporary file is opened and emptied; if it cannot be, nothing is saved.
FlushOpen ==
  \/ FlushGoes("open", "write") /\ tmp' = Empty
     /\ UNCHANGED <<file, survives, fault>>
  \/ FlushGoes("open", "none") /\ Suffers("open")
     /\ UNCHANGED disk

\* serialize() and the write, whose errors are not looked at.
FlushWrite ==
  /\ FlushGoes("write", "rename")
  /\ \/ tmp' = config /\ UNCHANGED fault
     \/ tmp' \in Cut(config) /\ Suffers("full")
  /\ UNCHANGED <<file, survives>>

\* The rename can reach the disk before the text does; when it fails, which is not
\* looked at, the old file stays.
FlushRename ==
  /\ FlushGoes("rename", "sync")
  /\ \/ /\ file' = {tmp} /\ tmp' = Empty
        /\ survives' = survives \cup {{tmp}} \cup {{d} : d \in Cut(tmp)}
        /\ UNCHANGED fault
     \/ Suffers("rename") /\ UNCHANGED disk

\* sync()
FlushSync ==
  /\ FlushGoes("sync", "none")
  /\ survives' = {file}
  /\ UNCHANGED <<tmp, file, fault>>

-----------------------------------------------------------------------------
(* The daemon is killed, or the power is lost                              *)

Dies ==
  /\ main \notin {"down", "exited"}
  /\ main' = "down" /\ config' = Defaults /\ pending' = FALSE /\ running' = FALSE
  /\ flusher' = "none" /\ writer' = "idle" /\ flush' = "none" /\ recent' = {}
  /\ UNCHANGED <<tmp, updates, starts>>

Kill == Suffers("kill") /\ Dies /\ UNCHANGED <<file, survives>>

PowerLoss ==
  /\ Suffers("power") /\ Dies
  /\ file' \in survives /\ survives' = {file'}

-----------------------------------------------------------------------------

Stop    == StopClear \/ StopExchange \/ StopNotify \/ StopJoin \/ StopReturn
Flusher == LoopTest \/ WaitTest \/ WaitBlock \/ WaitTimeout \/ Awake \/ Flushed
Flush   == FlushOpen \/ FlushWrite \/ FlushRename \/ FlushSync

Next ==
  \/ Start \/ Stop \/ Flusher \/ Flush
  \/ (\E d \in Documents : ApplyStore(d)) \/ ApplySchedule
  \/ Kill \/ PowerLoss

Spec == Init /\ [][Next]_vars

\* The threads run, stop() once called goes on, a wait times out.
Fairness ==
  /\ WF_vars(StopExchange \/ StopNotify \/ StopJoin \/ StopReturn)
  /\ WF_vars(Flusher) /\ WF_vars(Flush)
  /\ SF_vars(ApplySchedule)

-----------------------------------------------------------------------------
(* Properties                                                              *)

\* The faults after which a save is lost without a word.
FailedSaves == {"open", "full", "rename"}

\* When stop() has returned, the file is a snapshot that was current after it
\* was called: an update that was acknowledged before is not lost, though
\* stop() cancels the save that was scheduled for it, unless a save failed.
ConfigSavedAtExit ==
  main = "exited" /\ fault \notin FailedSaves =>
    \E c \in recent : file = {c}

\* Only a full disk or a loss of power leaves a text that is cut; a kill at
\* any point of a save does not.
ConfigFileWhole ==
  fault \notin {"full", "power"} => file \subseteq Configs

\* What can be relied on after the daemon has ended, however it ended.
ConfigDurable == TypeOK /\ ConfigSavedAtExit /\ ConfigFileWhole

\* stop() returns, though its notification can fall between the test of the
\* predicate and the wait.
ConfigStopReturns ==
  main = "exchange" ~> main \in {"exited", "down"}

\* After an update the file catches up with the snapshot, which is that of this
\* update or of one that has replaced it, unless the daemon stops or a save fails.
ConfigUpdateSaved ==
  main = "up" /\ writer = "stored"
    ~> file = {config} \/ main # "up" \/ fault \in FailedSaves

\* No wake-up that is lost and no save that is under way holds up stop() or an
\* update for ever.
ConfigSettles == ConfigStopReturns /\ ConfigUpdateSaved
=============================================================================
