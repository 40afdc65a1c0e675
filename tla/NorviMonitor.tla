---------------------------- MODULE NorviMonitor ----------------------------
(***************************************************************************)
(* The firmware of the Norvi edge node (edge_nodes/norvi_monitor): the     *)
(* interrupt that counts production cycles, productionEventQueue, and      *)
(* vTaskNetworking with its connection states, its offline spool in flash  *)
(* and its task watchdog.                                                  *)
(*                                                                         *)
(* An event is the number of its interrupt, over all boots.  The retry and *)
(* time-out tests on millis() may come out either way.  A step of the task *)
(* is one pass of its loop up to the next call that the network, the       *)
(* interrupt or a reset can interfere with.                                *)
(***************************************************************************)
EXTENDS Naturals, Sequences

CONSTANTS
  QueueSize,     \* length of productionEventQueue (50)
  Chunk,         \* spooled events replayed per pass (10)
  WdtSeconds,    \* time-out of the task watchdog (5)
  MaxEvents,     \* bound on the interrupts past the debounce
  MaxDrops,      \* bound on the losses of Wi-Fi or of the broker
  MaxResets,     \* bound on the resets that are not the task watchdog's
  MaxFaults      \* bound on the failures of LittleFS.open

ASSUME SizesAssumption ==
  QueueSize \in Nat \ {0} /\ Chunk \in Nat \ {0} /\ WdtSeconds \in Nat \ {0}
ASSUME BoundsAssumption ==
  /\ MaxEvents \in Nat /\ MaxDrops \in Nat
  /\ MaxResets \in Nat /\ MaxFaults \in Nat

VARIABLES
  events,        \* events so far
  globalCycleCount,  \* events since the boot
  queue,         \* productionEventQueue
  spool,         \* /spool.dat; it exists when it is not empty
  currentState,  \* the connection state
  ntpSynced,
  pc,            \* where the task is in its loop
  event,         \* the event it has dequeued (0 for none)
  count,         \* spooled events replayed in this pass
  waited,        \* seconds in the NTP loop since the watchdog was fed
  wifi,          \* the station: off, joining or up
  clock,         \* SNTP: off, asked, or set (time() is past 2024)
  link,          \* the MQTT session is up
  sent,          \* events whose publish() returned true
  failed,        \* events whose publish() in a replay returned false
  announced,     \* the count an ONLINE status has shown in this pass, 0 for none
  spooled,       \* events that were ever spooled
  drops, resets, faults

netVars   == <<wifi, clock, link>>
flashVars == <<spool, spooled>>
countVars == <<events, globalCycleCount>>
shownVars == <<sent, failed, announced>>
taskVars  == <<currentState, ntpSynced, pc, event, count, waited>>
bounds    == <<drops, resets, faults>>
vars == <<countVars, queue, flashVars, taskVars, netVars, shownVars, bounds>>

Events == 1 .. MaxEvents
States == {"DISCONNECTED", "CONNECTING_WIFI", "SYNCING_TIME",
           "CONNECTING_MQTT", "CONNECTED"}
PCs == {"top", "case", "ntp_loop", "ntp_done", "status", "replay", "dequeue",
        "publish", "offline", "append"}

TypeOK ==
  /\ events \in 0 .. MaxEvents /\ globalCycleCount \in 0 .. events
  /\ queue \in Seq(Events) /\ Len(queue) <= QueueSize
  /\ spool \in Seq(Events)
  /\ currentState \in States
  /\ ntpSynced \in BOOLEAN
  /\ pc \in PCs
  /\ event \in Events \cup {0}
  /\ count \in 0 .. Chunk
  /\ waited \in 0 .. WdtSeconds
  /\ wifi \in {"off", "joining", "up"}
  /\ clock \in {"off", "asked", "set"}
  /\ link \in BOOLEAN
  /\ sent \subseteq Events /\ failed \subseteq Events /\ announced \in Events \cup {0}
  /\ spooled \subseteq Events
  /\ drops \in 0 .. MaxDrops /\ resets \in 0 .. MaxResets
  /\ faults \in 0 .. MaxFaults

Init ==
  /\ events = 0 /\ globalCycleCount = 0 /\ queue = <<>> /\ spool = <<>>
  /\ currentState = "DISCONNECTED" /\ ntpSynced = FALSE
  /\ pc = "top" /\ event = 0 /\ count = 0 /\ waited = 0
  /\ wifi = "off" /\ clock = "off" /\ link = FALSE
  /\ sent = {} /\ failed = {} /\ announced = 0 /\ spooled = {}
  /\ drops = 0 /\ resets = 0 /\ faults = 0

-----------------------------------------------------------------------------
(* The interrupt, the network and resets                                   *)

\* inputISR past its debounce: the cycle is counted, and xQueueSendFromISR drops
\* the event when the queue is full.
InputISR ==
  /\ events < MaxEvents
  /\ events' = events + 1 /\ globalCycleCount' = globalCycleCount + 1
  /\ queue' = IF Len(queue) < QueueSize THEN Append(queue, events + 1)
                                        ELSE queue
  /\ UNCHANGED <<flashVars, taskVars, netVars, shownVars, bounds>>

WifiJoins ==
  /\ wifi = "joining"
  /\ wifi' = "up"
  /\ UNCHANGED <<countVars, queue, flashVars, taskVars, clock, link, shownVars, bounds>>

NtpAnswers ==
  /\ wifi = "up" /\ clock = "asked"
  /\ clock' = "set"
  /\ UNCHANGED <<countVars, queue, flashVars, taskVars, wifi, link, shownVars, bounds>>

\* Wi-Fi is lost (the station then rejoins by itself), or only the broker.
ConnectionLost ==
  /\ drops < MaxDrops
  /\ drops' = drops + 1
  /\ \/ wifi = "up" /\ wifi' = "joining"
     \/ link /\ UNCHANGED wifi
  /\ link' = FALSE
  /\ UNCHANGED <<countVars, queue, flashVars, taskVars, clock, shownVars, resets,
                 faults>>

\* A reset loses the RAM; the flash survives, and the RTC may.
Reset ==
  /\ queue' = <<>> /\ globalCycleCount' = 0
  /\ currentState' = "DISCONNECTED" /\ ntpSynced' = FALSE
  /\ pc' = "top" /\ event' = 0 /\ count' = 0 /\ waited' = 0
  /\ announced' = 0 /\ wifi' = "off" /\ link' = FALSE
  /\ clock' \in {"off"} \cup ({clock} \cap {"set"})
  /\ UNCHANGED <<events, flashVars, sent, failed, drops, faults>>

PowerLoss == resets < MaxResets /\ resets' = resets + 1 /\ Reset

\* esp_task_wdt_init(5, true): a task that is not fed in time panics.
WatchdogPanic ==
  /\ pc = "ntp_loop" /\ waited = WdtSeconds
  /\ Reset
  /\ UNCHANGED resets

-----------------------------------------------------------------------------
(* vTaskNetworking                                                         *)

\* The task goes on at p and touches only what is not listed here.
TaskKeeps == UNCHANGED <<countVars, drops, resets>>
Go(p) == pc' = p

\* The top of the loop feeds the watchdog and notices that Wi-Fi is gone.
Top ==
  /\ pc = "top" /\ Go("case") /\ TaskKeeps
  /\ waited' = 0 /\ announced' = 0
  /\ currentState' =
       IF currentState \notin {"DISCONNECTED", "CONNECTING_WIFI"} /\ wifi # "up"
         THEN "DISCONNECTED" ELSE currentState
  /\ UNCHANGED <<queue, flashVars, ntpSynced, event, count, netVars, sent,
                 failed, faults>>

InState(s) == pc = "case" /\ currentState = s /\ TaskKeeps

\* The retry interval has not elapsed, or nothing has happened yet.
StillWaiting ==
  /\ currentState \in {"DISCONNECTED", "CONNECTING_WIFI", "CONNECTING_MQTT"}
  /\ InState(currentState)
  /\ currentState = "CONNECTING_WIFI" => wifi # "up"
  /\ Go("offline")
  /\ UNCHANGED <<queue, flashVars, currentState, ntpSynced, event, count,
                 waited, netVars, shownVars, faults>>

\* WiFi.disconnect(true); WiFi.begin(...)
BeginWifi ==
  /\ InState("DISCONNECTED") /\ Go("offline")
  /\ wifi' = "joining" /\ link' = FALSE
  /\ currentState' = "CONNECTING_WIFI"
  /\ UNCHANGED <<queue, flashVars, ntpSynced, event, count, waited, clock,
                 shownVars, faults>>

\* configTime(...)
WifiConnected ==
  /\ InState("CONNECTING_WIFI") /\ Go("offline")
  /\ wifi = "up"
  /\ clock' = IF clock = "off" THEN "asked" ELSE clock
  /\ currentState' = "SYNCING_TIME"
  /\ UNCHANGED <<queue, flashVars, ntpSynced, event, count, waited, wifi, link,
                 shownVars, faults>>

\* No connection within 15 s.
WifiTimeout ==
  /\ InState("CONNECTING_WIFI") /\ Go("offline")
  /\ wifi # "up"
  /\ wifi' = "off"
  /\ currentState' = "DISCONNECTED"
  /\ UNCHANGED <<queue, flashVars, ntpSynced, event, count, waited, clock, link,
                 shownVars, faults>>

\* STATE_SYNCING_TIME: the inner loop, which does not feed the watchdog...
NtpBegin ==
  /\ InState("SYNCING_TIME") /\ Go("ntp_loop")
  /\ UNCHANGED <<queue, flashVars, currentState, ntpSynced, event, count,
                 waited, netVars, shownVars, faults>>

NtpDelay ==
  /\ pc = "ntp_loop" /\ TaskKeeps
  /\ clock # "set" /\ wifi = "up"
  /\ waited < WdtSeconds
  /\ waited' = waited + 1
  /\ UNCHANGED <<queue, flashVars, currentState, ntpSynced, pc, event, count,
                 netVars, shownVars, faults>>

NtpBreak ==
  /\ pc = "ntp_loop" /\ Go("ntp_done") /\ TaskKeeps
  /\ clock = "set" \/ wifi # "up"
  /\ UNCHANGED <<queue, flashVars, currentState, ntpSynced, event, count,
                 waited, netVars, shownVars, faults>>

\* ... and the test of WiFi.status() after it.
NtpDone ==
  /\ pc = "ntp_done" /\ Go("offline") /\ TaskKeeps
  /\ \/ /\ wifi = "up"
        /\ ntpSynced' = TRUE
        /\ currentState' = "CONNECTING_MQTT"
     \/ /\ wifi # "up"
        /\ currentState' = "DISCONNECTED"
        /\ UNCHANGED ntpSynced
  /\ UNCHANGED <<queue, flashVars, event, count, waited, netVars, shownVars, faults>>

\* mqttClient.connect() succeeds.  (StillWaiting is also its failure.)
MqttConnects ==
  /\ InState("CONNECTING_MQTT") /\ Go("status")
  /\ wifi = "up"
  /\ link' = TRUE
  /\ UNCHANGED <<queue, flashVars, currentState, ntpSynced, event, count, waited,
                 wifi, clock, shownVars, faults>>

\* The ONLINE status is published on the topic of the events and carries the
\* count of the newest of this boot, ahead of what is queued or spooled.
PublishStatus ==
  /\ pc = "status" /\ Go("offline") /\ TaskKeeps
  /\ announced' = IF link /\ globalCycleCount > 0 THEN events ELSE announced
  /\ currentState' = "CONNECTED"
  /\ UNCHANGED <<queue, flashVars, ntpSynced, event, count, waited, netVars,
                 sent, failed, faults>>

\* STATE_CONNECTED: !mqttClient.connected()
MqttLost ==
  /\ InState("CONNECTED") /\ Go("offline")
  /\ ~link
  /\ currentState' = "CONNECTING_MQTT"
  /\ UNCHANGED <<queue, flashVars, ntpSynced, event, count, waited, netVars,
                 shownVars, faults>>

\* Mutant: live events are not held back while the spool is being replayed.
OpenSpoolUnordered ==
  /\ InState("CONNECTED")
  /\ link
  /\ count' = 0
  /\ Go("dequeue") \/ (spool # <<>> /\ Go("replay"))
  /\ UNCHANGED <<queue, flashVars, currentState, ntpSynced, event, waited,
                 netVars, shownVars, faults>>

\* LittleFS.exists and open; if open fails, live events are not held back.
OpenSpool ==
  /\ InState("CONNECTED")
  /\ link
  /\ count' = 0
  /\ \/ spool # <<>> /\ Go("replay") /\ UNCHANGED faults
     \/ spool = <<>> /\ Go("dequeue") /\ UNCHANGED faults
     \/ /\ spool # <<>> /\ Go("dequeue")
        /\ faults < MaxFaults /\ faults' = faults + 1
  /\ UNCHANGED <<queue, flashVars, currentState, ntpSynced, event, waited,
                 netVars, shownVars>>

\* mqttClient.publish(): true only while the session is up.
Publish(e) == sent' = IF link THEN sent \cup {e} ELSE sent

\* One spooled event is published; the result is not looked at.
ReplayEvent ==
  /\ pc = "replay" /\ TaskKeeps
  /\ count < Len(spool) /\ count < Chunk
  /\ Publish(spool[count + 1])
  /\ failed' = IF link THEN failed ELSE failed \cup {spool[count + 1]}
  /\ count' = count + 1
  /\ UNCHANGED <<queue, flashVars, currentState, ntpSynced, pc, event, waited,
                 netVars, announced, faults>>

\* Mutant: the file is removed after the first chunk.
ReplayDoneEarly ==
  /\ pc = "replay" /\ TaskKeeps
  /\ count = Len(spool) \/ count = Chunk
  /\ count' = 0
  /\ spool' = <<>> /\ Go("dequeue")
  /\ UNCHANGED <<queue, spooled, currentState, ntpSynced, event, waited,
                 netVars, shownVars, faults>>

\* Mutant: the file is never removed.
ReplayDoneKeeps ==
  /\ pc = "replay" /\ TaskKeeps
  /\ count = Len(spool) \/ count = Chunk
  /\ count' = 0
  /\ IF count = Len(spool) THEN Go("dequeue") ELSE Go("top")
  /\ UNCHANGED <<queue, flashVars, currentState, ntpSynced, event, waited,
                 netVars, shownVars, faults>>

\* At the end of the file it is removed; after a chunk it is closed, and the
\* next pass reads it from its start.
ReplayDone ==
  /\ pc = "replay" /\ TaskKeeps
  /\ count = Len(spool) \/ count = Chunk
  /\ count' = 0
  /\ IF count = Len(spool)
       THEN spool' = <<>> /\ Go("dequeue")
       ELSE UNCHANGED spool /\ Go("top")
  /\ UNCHANGED <<queue, spooled, currentState, ntpSynced, event, waited,
                 netVars, shownVars, faults>>

\* xQueueReceive(productionEventQueue, &event, 0)
Receive(next) ==
  IF queue = <<>>
    THEN Go("top") /\ UNCHANGED <<queue, event>>
    ELSE Go(next) /\ queue' = Tail(queue) /\ event' = Head(queue)

DequeueLive ==
  /\ pc = "dequeue" /\ TaskKeeps
  /\ Receive("publish")
  /\ UNCHANGED <<flashVars, currentState, ntpSynced, count, waited, netVars,
                 shownVars, faults>>

\* A live event whose publish() fails is not kept.
PublishLive ==
  /\ pc = "publish" /\ Go("top") /\ TaskKeeps
  /\ Publish(event)
  /\ event' = 0
  /\ UNCHANGED <<queue, flashVars, currentState, ntpSynced, count, waited,
                 netVars, failed, announced, faults>>

\* if (currentState != STATE_CONNECTED): one event is taken from the queue.
\* Without a time it is discarded.
DequeueOffline ==
  /\ pc = "offline" /\ TaskKeeps
  /\ IF currentState = "CONNECTED" THEN Go("top") /\ UNCHANGED <<queue, event>>
     ELSE IF ntpSynced THEN Receive("append")
     ELSE /\ Go("top") /\ UNCHANGED event
          /\ queue' = IF queue = <<>> THEN queue ELSE Tail(queue)
  /\ UNCHANGED <<flashVars, currentState, ntpSynced, count, waited, netVars,
                 shownVars, faults>>

\* Mutant: the newest spooled event comes first in the file.
AppendSpoolFront ==
  /\ pc = "append" /\ Go("top") /\ TaskKeeps
  /\ event' = 0
  /\ spool' = <<event>> \o spool /\ spooled' = spooled \cup {event}
  /\ UNCHANGED <<queue, currentState, ntpSynced, count, waited, netVars, shownVars,
                 faults>>

\* LittleFS.open("/spool.dat", "a"); the event is dropped if that fails.
AppendSpool ==
  /\ pc = "append" /\ Go("top") /\ TaskKeeps
  /\ event' = 0
  /\ \/ /\ spool' = Append(spool, event) /\ spooled' = spooled \cup {event}
        /\ UNCHANGED faults
     \/ /\ faults < MaxFaults /\ faults' = faults + 1
        /\ UNCHANGED flashVars
  /\ UNCHANGED <<queue, currentState, ntpSynced, count, waited, netVars, shownVars>>

Networking ==
  \/ Top \/ StillWaiting \/ BeginWifi \/ WifiConnected \/ WifiTimeout
  \/ NtpBegin \/ NtpDelay \/ NtpBreak \/ NtpDone \/ MqttConnects
  \/ PublishStatus \/ MqttLost \/ OpenSpool \/ ReplayEvent \/ ReplayDone
  \/ DequeueLive \/ PublishLive \/ DequeueOffline \/ AppendSpool

Next == InputISR \/ WifiJoins \/ NtpAnswers \/ ConnectionLost \/ PowerLoss
          \/ WatchdogPanic \/ Networking

Spec == Init /\ [][Next]_vars

\* The task is scheduled, its time-outs elapse, and a network that stays up
\* lets it join, answers NTP before the watchdog's time-out and accepts the
\* session, each at some attempt.
Fairness ==
  /\ WF_vars(Networking) /\ SF_vars(BeginWifi) /\ SF_vars(WifiConnected)
  /\ SF_vars(WifiJoins) /\ SF_vars(NtpAnswers) /\ SF_vars(NtpBreak)
  /\ SF_vars(MqttConnects) /\ WF_vars(WatchdogPanic)

FairSpec == Spec /\ Fairness

-----------------------------------------------------------------------------
(* Properties                                                              *)

\* As long as the flash works, the events of queue and spool are first published
\* in the order in which they occurred, across outages, replays and resets: an
\* older one never appears after a newer one.  The status messages, which run
\* ahead of the spool, are not among them: SpoolBeforeNew is about those.
ChronologicalOrder ==
  [][faults = 0 => \A e \in sent' \ sent : \A f \in sent : f < e]_vars

\* An event is in one place only, and what is on flash was put there in order.
\* The types are part of it.
SpoolOrdered ==
  /\ TypeOK
  /\ \A j, k \in DOMAIN spool : j < k => spool[j] < spool[k]
  /\ \A j \in DOMAIN spool, k \in DOMAIN queue : spool[j] < queue[k]
  /\ event # 0 => /\ \A j \in DOMAIN spool : spool[j] < event
                  /\ \A k \in DOMAIN queue : event < queue[k]

\* What is on flash is given up only by a replay: a spooled event is published,
\* or publish() returned false for it, or it is still in the file, whatever the
\* outages, the resets and the faults, and though the file is removed whole.
SpooledNotLost ==
  spooled \subseteq sent \cup failed \cup {spool[k] : k \in DOMAIN spool}

\* A spool that always fits in one chunk is emptied once the network is stable.
SpoolDrains ==
  [](Len(spool) <= Chunk) => (spool # <<>> ~> spool = <<>>)

\* "Offline Recovery" (norvi-deep-persistence): "Read up to 10 structs per loop
\* iteration ... Repeat until EOF": a spool of any length is replayed.
SpoolReplayed == spool # <<>> ~> spool = <<>>

\* "Offline Data Spooling" (norvi-deep-persistence): events "are ... appended to a
\* binary file (/spool.dat) to ... prevent data loss": one that was spooled is
\* there until it is published.
SpoolKept == spooled \subseteq sent \cup {spool[k] : k \in DOMAIN spool}

\* "Recovery Integrity" (norvi-deep-persistence): "Spooled events MUST ... be
\* published before any new real-time events", in a status message or otherwise.
\* The code does not keep to it, and no run checks it: see the README, section 6.
SpoolBeforeNew ==
  [][\A e \in (sent' \cup {announced'}) \ (sent \cup {announced}) :
       \A f \in spooled : f < e => f \in sent]_vars

=============================================================================
