---------------------------- MODULE EdgeWatchdog ----------------------------
(***************************************************************************)
(* The vision_edge program: a main loop that beats, works and sleeps, and  *)
(* a monitor thread that ends the process when the beat is too old, so     *)
(* that the container is restarted.  Time passes in ticks; the monitor     *)
(* wakes when it should, the main loop may take any time.                  *)
(***************************************************************************)
EXTENDS Naturals

CONSTANTS
  Poll,       \* ticks the monitor sleeps for
  Timeout,    \* TIMEOUT_MS in ticks
  Iterations  \* of the main loop

VARIABLES
  main,     \* where main() is
  left,     \* iterations left
  watching, \* the monitor thread runs
  wake,     \* ticks left of its sleep
  running,  \* running_
  age,      \* now - last_heartbeat_
  quiet     \* history: ticks since the main loop did something

vars == <<main, left, watching, wake, running, age, quiet>>

Ages == 0 .. Timeout + Poll + 1

TypeOK ==
  /\ main \in {"new", "loop", "join", "done", "aborted"}
  /\ left \in 0 .. Iterations /\ wake \in 0 .. Poll
  /\ watching \in BOOLEAN /\ running \in BOOLEAN
  /\ age \in Ages /\ quiet \in Ages

\* last_heartbeat_ is 0 at first, which is longer ago than any timeout.
Init ==
  /\ main = "new" /\ left = Iterations
  /\ watching = FALSE /\ wake = 0 /\ running = FALSE
  /\ age = Timeout + Poll + 1 /\ quiet = 0

\* Mutant: start() does not beat.
StartNoBeat ==
  /\ main = "new" /\ main' = "loop" /\ running' = TRUE
  /\ watching' = TRUE /\ wake' = Poll
  /\ quiet' = 0 /\ UNCHANGED <<left, age>>

\* start: a first beat, then the monitor.
Start ==
  /\ main = "new" /\ main' = "loop" /\ running' = TRUE
  /\ watching' = TRUE /\ wake' = Poll
  /\ age' = 0 /\ quiet' = 0 /\ UNCHANGED left

\* An iteration: heartbeat(), then the defects are published.
Iterate ==
  /\ main = "loop" /\ left > 0 /\ left' = left - 1
  /\ age' = 0 /\ quiet' = 0
  /\ UNCHANGED <<main, watching, wake, running>>

\* stop(), with the join that waits for the monitor's sleep to end.
Stop ==
  /\ main = "loop" /\ left = 0
  /\ main' = "join" /\ running' = FALSE
  /\ UNCHANGED <<left, watching, wake, age, quiet>>

StopJoin ==
  /\ main = "join" /\ ~watching /\ main' = "done"
  /\ UNCHANGED <<left, watching, wake, running, age, quiet>>

\* Time stops for nobody but a monitor that is about to wake.
Older(t) == IF t + 1 \in Ages THEN t + 1 ELSE t

Tick ==
  /\ main \in {"loop", "join"} /\ watching /\ wake > 0
  /\ wake' = wake - 1
  /\ age' = Older(age) /\ quiet' = Older(quiet)
  /\ UNCHANGED <<main, left, watching, running>>

\* The monitor looks at the beat before it looks at running_ again.
Wake ==
  /\ watching /\ wake = 0 /\ wake' = Poll
  /\ IF age > Timeout THEN main' = "aborted" /\ watching' = FALSE
                      ELSE watching' = running /\ UNCHANGED main
  /\ UNCHANGED <<left, running, age, quiet>>

Next == Start \/ Iterate \/ Stop \/ StopJoin \/ Tick \/ Wake

Spec == Init /\ [][Next]_vars

-----------------------------------------------------------------------------
(* Properties                                                              *)

\* A main loop that hangs is not left alone for longer than the timeout and
\* one sleep of the monitor, not even in stop().
EdgeHangBounded == main \in {"loop", "join"} => quiet <= Timeout + Poll

\* The process is ended only when the main loop has done nothing for longer
\* than the timeout.
EdgeAbortJustified == main = "aborted" => quiet > Timeout

\* The monitor is neither late nor early.
EdgeInv == TypeOK /\ EdgeHangBounded /\ EdgeAbortJustified
=============================================================================
