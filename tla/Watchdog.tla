------------------------------ MODULE Watchdog ------------------------------
(***************************************************************************)
(* The keepalive of the hardware watchdog (edge_ops/gema_vision, Watchdog):*)
(* a thread that writes to /dev/watchdog at an interval, and a stop() that *)
(* disarms the device with the magic close.                                *)
(*                                                                         *)
(* Time passes in ticks longer than the 100 ms between two tests of        *)
(* running_ and shorter than the interval.  The keepalive thread runs when *)
(* it should; the thread that calls stop() may be late at every step.      *)
(***************************************************************************)
EXTENDS Naturals

CONSTANTS
  Interval,   \* ticks between two pings
  Timeout,    \* ticks after which the device resets the board
  MaxMisses   \* bound on the pings in a row that fail

VARIABLES
  running,    \* running_
  keepalive,  \* where keepalive_loop is
  left,       \* ticks left of its sleep
  misses,     \* pings in a row that have failed
  main,       \* where the thread that calls start() and stop() is
  armed,      \* the device is armed
  magic,      \* the last byte written to it was 'V'
  timer,      \* ticks since it was last written to
  board       \* "on", or "reset" by the device

vars == <<running, keepalive, left, misses, main, armed, magic, timer, board>>

TypeOK ==
  /\ running \in BOOLEAN /\ armed \in BOOLEAN /\ magic \in BOOLEAN
  /\ keepalive \in {"none", "ping", "sleep"}
  /\ left \in 0 .. Interval /\ misses \in 0 .. MaxMisses
  /\ main \in {"new", "unguarded", "up", "hung", "join", "magic", "close",
               "stopped", "killed"}
  /\ timer \in 0 .. Timeout /\ board \in {"on", "reset"}

Init ==
  /\ running = FALSE /\ keepalive = "none" /\ left = 0 /\ misses = 0
  /\ main = "new"
  /\ armed = FALSE /\ magic = FALSE /\ timer = 0 /\ board = "on"

-----------------------------------------------------------------------------
(* The device.                                                             *)

\* What closing the device does, in close() or because the process ends.
Close == armed' = (armed /\ ~magic) /\ UNCHANGED <<magic, timer>>

\* A tick passes when the keepalive thread is asleep, or not there.
Tick ==
  /\ board = "on"
  /\ \/ keepalive = "none" /\ UNCHANGED left
     \/ keepalive = "sleep" /\ running /\ left > 0 /\ left' = left - 1
  /\ timer' = IF armed THEN timer + 1 ELSE timer
  /\ board' = IF armed /\ timer + 1 = Timeout THEN "reset" ELSE "on"
  /\ UNCHANGED <<running, keepalive, misses, main, armed, magic>>

-----------------------------------------------------------------------------
(* start(), stop() and what may happen to the process                      *)

MainGoes(from, to) ==
  board = "on" /\ main = from /\ main' = to /\ UNCHANGED <<left, misses, board>>

\* start: opening the device arms it; when it cannot be opened, main goes on
\* without it.
Start ==
  \/ /\ MainGoes("new", "up")
     /\ running' = TRUE /\ keepalive' = "ping"
     /\ armed' = TRUE /\ timer' = 0 /\ UNCHANGED magic
  \/ /\ MainGoes("new", "unguarded")
     /\ UNCHANGED <<running, keepalive, armed, magic, timer>>

\* The pipeline hangs: main waits for it for ever, the keepalive does not.
Hang ==
  /\ MainGoes("up", "hung")
  /\ UNCHANGED <<running, keepalive, armed, magic, timer>>

StopExchange ==
  /\ MainGoes("up", "join") /\ running' = FALSE
  /\ UNCHANGED <<keepalive, armed, magic, timer>>

\* Mutant: the magic byte is written before the thread has ended.
StopNoJoin ==
  /\ MainGoes("join", "magic")
  /\ UNCHANGED <<running, keepalive, armed, magic, timer>>

StopJoin ==
  /\ MainGoes("join", "magic") /\ keepalive = "none"
  /\ UNCHANGED <<running, keepalive, armed, magic, timer>>

\* The magic byte is written, which also counts as a keepalive, or it fails.
StopMagic ==
  /\ MainGoes("magic", "close")
  /\ \/ magic' = TRUE /\ timer' = 0
     \/ UNCHANGED <<magic, timer>>
  /\ UNCHANGED <<running, keepalive, armed>>

StopClose ==
  /\ MainGoes("close", "stopped") /\ Close
  /\ UNCHANGED <<running, keepalive>>

\* SIGKILL, at any point.
Kill ==
  /\ board = "on" /\ main \notin {"new", "stopped", "killed"}
  /\ main' = "killed" /\ keepalive' = "none" /\ Close
  /\ UNCHANGED <<running, left, misses, board>>

-----------------------------------------------------------------------------
(* keepalive_loop()                                                        *)

\* ping: the write resets the timer, or fails, which is not looked at.
Ping ==
  /\ board = "on" /\ keepalive = "ping"
  /\ keepalive' = "sleep" /\ left' = Interval
  /\ \/ timer' = 0 /\ magic' = FALSE /\ misses' = 0
     \/ misses < MaxMisses /\ misses' = misses + 1 /\ UNCHANGED <<timer, magic>>
  /\ UNCHANGED <<running, main, armed, board>>

\* The sleep ends, or is cut short by stop().
Wake ==
  /\ board = "on" /\ keepalive = "sleep" /\ (left = 0 \/ ~running)
  /\ keepalive' = IF running THEN "ping" ELSE "none"
  /\ UNCHANGED <<running, left, misses, main, armed, magic, timer, board>>

Next ==
  \/ Tick \/ Start \/ Hang
  \/ StopExchange \/ StopJoin \/ StopMagic \/ StopClose \/ Kill
  \/ Ping \/ Wake

Spec == Init /\ [][Next]_vars

-----------------------------------------------------------------------------
(* Properties                                                              *)

\* While the daemon works the board is not reset, though pings may fail, if the
\* interval leaves room for those that fail (nothing in the code sees to that).
\* Of a pipeline that hangs nothing is claimed: the keepalive goes on all the same.
WatchdogNoSpuriousReset ==
  (MaxMisses + 1) * Interval < Timeout => (main = "up" => board = "on")

\* When the last byte written before the device is closed is the magic one
\* the device is disarmed, and only stop() writes it, after the last ping.
WatchdogDisarmedAtExit ==
  /\ main = "close" /\ magic => keepalive = "none" /\ ~running
  /\ main = "stopped" /\ magic => ~armed

\* A daemon that is killed before stop() is called leaves the device armed, so
\* that the board is reset.
WatchdogKillResets == main = "killed" /\ running => armed

\* The device is disarmed by stop() alone, and pinged in time until then.
WatchdogInv ==
  TypeOK /\ WatchdogNoSpuriousReset /\ WatchdogDisarmedAtExit /\ WatchdogKillResets
=============================================================================
