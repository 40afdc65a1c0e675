-------------------------- MODULE NorviMonitorProofs --------------------------
(***************************************************************************)
(* Proofs about NorviMonitor for any size of queue and chunk and any number*)
(* of events, losses of connection, resets and faults of the flash.        *)
(***************************************************************************)
EXTENDS NorviMonitor, SequenceTheorems, TLAPS

USE SizesAssumption, BoundsAssumption

\* The task holds an event exactly from a dequeue to its publish or spool.
EventHeld == event # 0 <=> pc \in {"publish", "append"}

\* Nothing is older than the last interrupt, and the queue is in order.
QueueOrdered ==
  /\ \A j, k \in DOMAIN queue : j < k => queue[j] < queue[k]
  /\ \A k \in DOMAIN queue : queue[k] <= events
  /\ \A k \in DOMAIN spool : spool[k] <= events
  /\ event <= events
  /\ \A f \in sent : f <= events

\* What has been published is older than what has not, wherever that is.
SentOldest ==
  faults = 0 =>
    \A f \in sent :
      /\ \A k \in DOMAIN queue : f < queue[k]
      /\ event # 0 => f < event
      /\ \A j \in DOMAIN spool : spool[j] \in sent \/ f < spool[j]

\* Live events are published only when nothing is spooled.
LiveAlone == faults = 0 /\ pc \in {"dequeue", "publish"} => spool = <<>>

\* A replay hands what it reads to publish(), which succeeds in a session.
Replayed ==
  pc = "replay" =>
    \A k \in DOMAIN spool : k <= count =>
      /\ spool[k] \in sent \cup failed
      /\ link => spool[k] \in sent

IInv ==
  /\ SpoolOrdered /\ EventHeld /\ QueueOrdered /\ SentOldest /\ LiveAlone
  /\ Replayed /\ SpooledNotLost

\* What the invariant needs of a step that moves no event.
Ordered == <<events, queue, spool, spooled, event, sent, failed>>

-----------------------------------------------------------------------------
(* Sequences                                                               *)

\* What an append does to a sequence of events.
LEMMA AppendIndex ==
  ASSUME NEW q \in Seq(Events), NEW e \in Events
  PROVE  /\ Append(q, e) \in Seq(Events) /\ Len(Append(q, e)) = Len(q) + 1
         /\ \A k \in DOMAIN Append(q, e) :
              \/ k \in DOMAIN q /\ Append(q, e)[k] = q[k]
              \/ k = Len(q) + 1 /\ Append(q, e)[k] = e
         /\ \A k \in DOMAIN q :
              k \in DOMAIN Append(q, e) /\ k <= Len(q) /\ Append(q, e)[k] = q[k]
         /\ Len(q) + 1 \in DOMAIN Append(q, e) /\ Append(q, e)[Len(q) + 1] = e
         /\ DOMAIN q \subseteq Nat /\ Len(q) \in Nat
<1>1. /\ Append(q, e) \in Seq(Events)
      /\ Len(Append(q, e)) = Len(q) + 1
      /\ \A k \in 1 .. Len(q) : Append(q, e)[k] = q[k]
      /\ Append(q, e)[Len(q) + 1] = e
  BY AppendProperties
<1>2. /\ DOMAIN q = 1 .. Len(q) /\ Len(q) \in Nat
      /\ DOMAIN Append(q, e) = 1 .. Len(q) + 1
  BY <1>1, LenProperties
<1> QED
  BY <1>1, <1>2

\* What xQueueReceive takes and leaves.
LEMMA TailIndex ==
  ASSUME NEW q \in Seq(Events), q # <<>>
  PROVE  /\ Tail(q) \in Seq(Events) /\ Len(Tail(q)) = Len(q) - 1
         /\ Head(q) \in Events /\ 1 \in DOMAIN q /\ Head(q) = q[1]
         /\ \A k \in DOMAIN Tail(q) :
              /\ k \in Nat /\ k + 1 \in DOMAIN q /\ 1 < k + 1
              /\ Tail(q)[k] = q[k + 1]
<1>1. /\ Head(q) \in Events
      /\ Tail(q) \in Seq(Events)
      /\ Len(Tail(q)) = Len(q) - 1
      /\ \A k \in 1 .. Len(Tail(q)) : Tail(q)[k] = q[k + 1]
  BY HeadTailProperties
<1>2. /\ DOMAIN q = 1 .. Len(q) /\ Len(q) \in Nat \ {0}
      /\ DOMAIN Tail(q) = 1 .. Len(q) - 1
      /\ Head(q) = q[1]
  BY <1>1, LenProperties, EmptySeq
<1> QED
  BY <1>1, <1>2

\* The empty sequence of events.
LEMMA Empty == <<>> \in Seq(Events) /\ Len(<<>>) = 0 /\ DOMAIN <<>> = {}
BY EmptySeq

\* The events in memory and on flash are numbers.
LEMMA Numbers ==
  ASSUME TypeOK
  PROVE  /\ events \in Nat /\ event \in Nat /\ count \in Nat /\ sent \subseteq Nat
         /\ queue \in Seq(Events) /\ spool \in Seq(Events)
         /\ Len(queue) \in Nat /\ Len(spool) \in Nat
         /\ DOMAIN queue = 1 .. Len(queue) /\ DOMAIN spool = 1 .. Len(spool)
         /\ \A k \in DOMAIN queue : queue[k] \in Events
         /\ \A k \in DOMAIN spool : spool[k] \in Events
         /\ faults \in Nat
<1>1. queue \in Seq(Events) /\ spool \in Seq(Events)
  BY DEF TypeOK
<1>2. /\ Len(queue) \in Nat /\ Len(spool) \in Nat
      /\ DOMAIN queue = 1 .. Len(queue) /\ DOMAIN spool = 1 .. Len(spool)
      /\ \A k \in DOMAIN queue : queue[k] \in Events
      /\ \A k \in DOMAIN spool : spool[k] \in Events
  BY <1>1, LenProperties
<1> QED
  BY <1>1, <1>2 DEF TypeOK, Events

-----------------------------------------------------------------------------
(* The steps                                                               *)

\* A step that moves no event.
LEMMA QuietKeeps ==
  ASSUME IInv, TypeOK', UNCHANGED Ordered, EventHeld', LiveAlone', Replayed',
         faults' >= faults
  PROVE  IInv'
<1> USE DEF IInv, Ordered
<1>1. faults \in Nat /\ faults' \in Nat
  BY DEF SpoolOrdered, TypeOK
<1>2. SpoolOrdered'
  BY DEF SpoolOrdered
<1>3. QueueOrdered'
  BY DEF QueueOrdered
<1>4. SentOldest'
  BY <1>1 DEF SentOldest
<1>5. SpooledNotLost'
  BY DEF SpooledNotLost
<1> QED
  BY <1>2, <1>3, <1>4, <1>5

\* The network changes; a session may be lost.
LEMMA NetworkKeeps ==
  ASSUME IInv, WifiJoins \/ NtpAnswers \/ ConnectionLost
  PROVE  IInv'
<1> USE DEF countVars, shownVars, netVars, flashVars, taskVars, bounds
<1>1. TypeOK
  BY DEF IInv, SpoolOrdered
<1>2. TypeOK'
  <2>1. CASE WifiJoins
    BY <1>1, <2>1 DEF WifiJoins, TypeOK
  <2>2. CASE NtpAnswers
    BY <1>1, <2>2 DEF NtpAnswers, TypeOK
  <2>3. CASE ConnectionLost
    <3>1. drops' \in 0 .. MaxDrops /\ wifi' \in {"off", "joining", "up"}
      BY <1>1, <2>3 DEF ConnectionLost, TypeOK
    <3> QED
      BY <1>1, <2>3, <3>1 DEF ConnectionLost, TypeOK
  <2> QED
    BY <2>1, <2>2, <2>3
<1>3. /\ UNCHANGED Ordered /\ UNCHANGED <<pc, count, currentState, faults>>
      /\ UNCHANGED link \/ link' = FALSE
  BY <1>1 DEF WifiJoins, NtpAnswers, ConnectionLost, Ordered, TypeOK
<1>4. EventHeld' /\ LiveAlone' /\ Replayed' /\ faults' >= faults
  BY <1>1, <1>3 DEF IInv, Ordered, EventHeld, LiveAlone, Replayed, TypeOK
<1> QED
  BY <1>2, <1>3, <1>4, QuietKeeps

\* The passes of the task that only change its connection state.
Connecting ==
  \/ Top \/ StillWaiting \/ BeginWifi \/ WifiConnected \/ WifiTimeout
  \/ NtpBegin \/ NtpDelay \/ NtpBreak \/ NtpDone \/ MqttConnects
  \/ PublishStatus \/ MqttLost \/ OpenSpool

\* The connection states hold no event and end no session that is in use.
LEMMA ConnectingKeeps ==
  ASSUME IInv, Connecting
  PROVE  IInv'
<1> USE DEF Connecting, countVars, shownVars, netVars, flashVars, taskVars, bounds, TaskKeeps, Go, InState,
            Top, StillWaiting, BeginWifi, WifiConnected, WifiTimeout, NtpBegin,
            NtpDelay, NtpBreak, NtpDone, MqttConnects, PublishStatus, MqttLost
<1>1. TypeOK
  BY DEF IInv, SpoolOrdered
<1>2. UNCHANGED Ordered /\ UNCHANGED <<globalCycleCount, drops, resets>>
  BY DEF OpenSpool, Ordered
<1>3. faults' \in 0 .. MaxFaults /\ faults' >= faults
  BY <1>1 DEF OpenSpool, TypeOK
<1>4. currentState' \in States /\ pc' \in PCs
  BY <1>1 DEF OpenSpool, TypeOK, States, PCs
<1>5. /\ wifi' \in {"off", "joining", "up"}
      /\ clock' \in {"off", "asked", "set"}
  BY <1>1 DEF OpenSpool, TypeOK
<1>a. ntpSynced' = ntpSynced \/ ntpSynced' = TRUE
  BY DEF OpenSpool
<1>b. link' = link \/ link' = TRUE \/ link' = FALSE
  BY DEF OpenSpool
<1>c. count' = count \/ count' = 0
  BY DEF OpenSpool
<1>d. waited' = waited \/ waited' = 0 \/ (waited < WdtSeconds /\ waited' = waited + 1)
  BY DEF OpenSpool
<1>e. announced' \in Events \cup {0}
  <2>1. globalCycleCount > 0 => events \in Events
    BY <1>1 DEF TypeOK, Events
  <2> QED
    BY <1>1, <2>1 DEF OpenSpool, TypeOK
<1>6. TypeOK'
  <2>1. ntpSynced' \in BOOLEAN /\ link' \in BOOLEAN
    BY <1>1, <1>a, <1>b DEF TypeOK
  <2>2. count' \in 0 .. Chunk /\ waited' \in 0 .. WdtSeconds
    BY <1>1, <1>c, <1>d DEF TypeOK
  <2> QED
    BY <1>1, <1>2, <1>3, <1>4, <1>5, <1>e, <2>1, <2>2 DEF TypeOK, Ordered
<1>7. EventHeld'
  BY <1>2 DEF IInv, EventHeld, OpenSpool, Ordered
<1>8. LiveAlone'
  <2>1. CASE OpenSpool
    BY <1>1, <1>2, <2>1 DEF OpenSpool, LiveAlone, Ordered, TypeOK
  <2>2. CASE ~OpenSpool
    BY <2>2 DEF LiveAlone
  <2> QED
    BY <2>1, <2>2
<1>9. Replayed'
  <2>1. CASE OpenSpool
    <3>1. count' = 0 /\ spool' = spool
      BY <2>1 DEF OpenSpool
    <3>2. DOMAIN spool = 1 .. Len(spool) /\ Len(spool) \in Nat
      BY <1>1, Numbers
    <3> QED
      BY <3>1, <3>2 DEF Replayed
  <2>2. CASE ~OpenSpool
    BY <2>2 DEF Replayed
  <2> QED
    BY <2>1, <2>2
<1> QED
  BY <1>2, <1>3, <1>6, <1>7, <1>8, <1>9, QuietKeeps DEF IInv, SpoolOrdered, TypeOK

\* A reset loses what is in memory and leaves the flash.
LEMMA ResetKeeps ==
  ASSUME IInv, PowerLoss \/ WatchdogPanic
  PROVE  IInv'
<1> USE DEF IInv, countVars, shownVars, flashVars
<1>1. TypeOK
  BY DEF SpoolOrdered
<1>2. /\ queue' = <<>> /\ event' = 0 /\ pc' = "top" /\ link' = FALSE /\ count' = 0
      /\ currentState' = "DISCONNECTED" /\ ntpSynced' = FALSE /\ waited' = 0
      /\ wifi' = "off" /\ clock' \in {"off", "set"}
      /\ globalCycleCount' = 0 /\ announced' = 0
      /\ UNCHANGED <<events, spool, spooled, sent, failed, drops, faults>>
      /\ resets' \in 0 .. MaxResets
  BY <1>1 DEF PowerLoss, WatchdogPanic, Reset, TypeOK
<1>3. TypeOK'
  <2>1. queue' \in Seq(Events) /\ Len(queue') <= QueueSize
    BY <1>2, Empty
  <2>2. pc' \in PCs /\ currentState' \in States
    BY <1>2 DEF PCs, States
  <2>3. count' \in 0 .. Chunk /\ waited' \in 0 .. WdtSeconds
    BY <1>2
  <2>4. ntpSynced' \in BOOLEAN /\ link' \in BOOLEAN
    BY <1>2
  <2> QED
    BY <1>1, <1>2, <2>1, <2>2, <2>3, <2>4 DEF TypeOK
<1>4. SpoolOrdered'
  BY <1>2, <1>3, Empty DEF SpoolOrdered
<1>5. QueueOrdered'
  BY <1>1, <1>2, Empty, Numbers DEF QueueOrdered
<1> QED
  BY <1>2, <1>4, <1>5, Empty
  DEF EventHeld, SentOldest, LiveAlone, Replayed, SpooledNotLost

\* The interrupt queues the newest event, or drops it.
LEMMA InterruptKeeps ==
  ASSUME IInv, InputISR
  PROVE  IInv'
<1> USE DEF IInv, countVars, shownVars, flashVars, taskVars, netVars, bounds
<1>1. TypeOK
  BY DEF SpoolOrdered
<1>2. /\ events' = events + 1 /\ events + 1 \in Events
      /\ UNCHANGED <<spool, spooled, currentState, ntpSynced, pc, event, count, waited,
                     wifi, clock, link, sent, failed, announced, drops, resets, faults>>
      /\ globalCycleCount' \in 0 .. events'
  BY <1>1 DEF InputISR, TypeOK, Events
<1>3. CASE Len(queue) < QueueSize
  <2>1. queue' = Append(queue, events + 1)
    BY <1>3 DEF InputISR
  <2>2. /\ queue' \in Seq(Events) /\ Len(queue') <= QueueSize
        /\ \A k \in DOMAIN queue' :
             \/ k \in DOMAIN queue /\ queue'[k] = queue[k]
             \/ k = Len(queue) + 1 /\ queue'[k] = events + 1
    BY <1>1, <1>2, <1>3, <2>1, Numbers, AppendIndex
  <2>3. TypeOK'
    BY <1>1, <1>2, <2>2 DEF TypeOK, Events
  <2>a. /\ \A k \in DOMAIN queue : queue[k] < events + 1
        /\ \A k \in DOMAIN spool : spool[k] < events + 1
        /\ \A f \in sent : f < events + 1
        /\ event < events + 1
        /\ \A k \in DOMAIN queue : k \in Nat /\ k <= Len(queue)
    <3>1. \A n \in Events \cup {0} : n <= events => n < events + 1
      BY <1>1, Numbers DEF Events
    <3> QED
      BY <1>1, <3>1, Numbers DEF QueueOrdered, TypeOK
  <2>4. SpoolOrdered'
    BY <1>2, <2>2, <2>3, <2>a DEF SpoolOrdered
  <2>5. QueueOrdered'
    <3>1. \A j, k \in DOMAIN queue' : j < k => queue'[j] < queue'[k]
      <4>1. Len(queue) \in Nat
        BY <1>1, Numbers
      <4> QED
        BY <2>2, <2>a, <4>1 DEF QueueOrdered
    <3>2. \A n \in Events \cup {0} : n < events + 1 => n <= events'
      BY <1>1, <1>2, Numbers DEF Events
    <3>3. events + 1 <= events'
      BY <1>1, <1>2, Numbers
    <3>4. \A k \in DOMAIN queue' : queue'[k] <= events'
      BY <1>1, <2>2, <2>a, <3>2, <3>3, Numbers
    <3>5. (\A k \in DOMAIN spool' : spool'[k] <= events') /\ event' <= events'
      BY <1>1, <1>2, <2>a, <3>2, Numbers DEF TypeOK
    <3>6. \A f \in sent' : f <= events'
      BY <1>1, <1>2, <2>a, <3>2 DEF TypeOK
    <3> QED
      BY <3>1, <3>4, <3>5, <3>6 DEF QueueOrdered
  <2>6. SentOldest'
    BY <1>2, <2>2, <2>a DEF SentOldest
  <2> QED
    BY <1>2, <2>4, <2>5, <2>6
    DEF EventHeld, LiveAlone, Replayed, SpooledNotLost
<1>4. CASE ~(Len(queue) < QueueSize)
  <2>1. queue' = queue
    BY <1>4 DEF InputISR
  <2>2. TypeOK'
    BY <1>1, <1>2, <2>1 DEF TypeOK, Events
  <2>3. SpoolOrdered'
    BY <1>2, <2>1, <2>2 DEF SpoolOrdered
  <2>4. QueueOrdered'
    BY <1>1, <1>2, <2>1, Numbers DEF QueueOrdered, Events
  <2> QED
    BY <1>2, <2>1, <2>3, <2>4
    DEF SentOldest, EventHeld, LiveAlone, Replayed, SpooledNotLost
<1> QED
  BY <1>3, <1>4

\* One more spooled event is published, if the session is up.
LEMMA ReplayKeeps ==
  ASSUME IInv, ReplayEvent
  PROVE  IInv'
<1> USE DEF IInv, countVars, shownVars, netVars, flashVars, TaskKeeps
<1> DEFINE e == spool[count + 1]
<1>1. TypeOK
  BY DEF SpoolOrdered
<1>2. /\ pc = "replay" /\ count + 1 \in DOMAIN spool /\ e \in Events
      /\ count' = count + 1 /\ count' \in 0 .. Chunk
      /\ sent' = IF link THEN sent \cup {e} ELSE sent
      /\ failed' = IF link THEN failed ELSE failed \cup {e}
      /\ UNCHANGED <<events, globalCycleCount, queue, spool, spooled, currentState,
                     ntpSynced, pc, event, waited, wifi, clock, link, announced, drops,
                     resets, faults>>
  BY <1>1, Numbers DEF ReplayEvent, Publish, TypeOK
<1>3. event = 0
  BY <1>2 DEF EventHeld
<1>4. TypeOK'
  BY <1>1, <1>2 DEF TypeOK
<1>5. SpoolOrdered'
  BY <1>2, <1>4 DEF SpoolOrdered
<1>6. QueueOrdered'
  BY <1>2 DEF QueueOrdered
<1>7. SentOldest'
  <2> SUFFICES ASSUME faults = 0, link
               PROVE  SentOldest'
    BY <1>2 DEF SentOldest
  <2>1. \A k \in DOMAIN spool : k <= count => spool[k] \in sent
    BY <1>2 DEF Replayed
  <2>2. \A k \in DOMAIN spool : k > count + 1 => e < spool[k]
    BY <1>2 DEF SpoolOrdered
  <2>3. \A k \in DOMAIN spool : k <= count \/ k = count + 1 \/ k > count + 1
    BY <1>1, Numbers
  <2>4. \A k \in DOMAIN queue : e < queue[k]
    BY <1>2 DEF SpoolOrdered
  <2>5. \A k \in DOMAIN spool : spool[k] \in sent' \/ e < spool[k]
    BY <1>2, <2>1, <2>2, <2>3
  <2> HIDE DEF e
  <2> QED
    BY <1>2, <1>3, <2>4, <2>5 DEF SentOldest
<1>8. Replayed'
  <2>1. \A k \in DOMAIN spool : k <= count + 1 => k <= count \/ k = count + 1
    BY <1>1, Numbers
  <2> QED
    BY <1>2, <2>1 DEF Replayed
<1>9. SpooledNotLost'
  BY <1>2 DEF SpooledNotLost
<1> QED
  BY <1>2, <1>5, <1>6, <1>7, <1>8, <1>9 DEF EventHeld, LiveAlone

\* The spool is removed after its last event was read, or kept.
LEMMA RemoveKeeps ==
  ASSUME IInv, ReplayDone
  PROVE  IInv'
<1> USE DEF IInv, countVars, shownVars, netVars, TaskKeeps, Go
<1>1. TypeOK
  BY DEF SpoolOrdered
<1>2. /\ pc = "replay" /\ count' = 0 /\ pc' \in {"dequeue", "top"}
      /\ UNCHANGED <<countVars, queue, spooled, currentState, ntpSynced, event, waited,
                     wifi, clock, link, shownVars, drops, resets, faults>>
  BY DEF ReplayDone
<1>3. \/ count = Len(spool) /\ spool' = <<>>
      \/ spool' = spool /\ pc' = "top"
  BY DEF ReplayDone
<1>4. TypeOK'
  <2>1. spool' \in Seq(Events)
    BY <1>1, <1>3, Empty DEF TypeOK
  <2>2. pc' \in PCs /\ count' \in 0 .. Chunk
    BY <1>2 DEF PCs
  <2> QED
    BY <1>1, <1>2, <2>1, <2>2 DEF TypeOK
<1>5. SpoolOrdered' /\ QueueOrdered' /\ SentOldest'
  BY <1>2, <1>3, <1>4, Empty DEF SpoolOrdered, QueueOrdered, SentOldest
<1>6. SpooledNotLost'
  <2>1. CASE spool' = spool
    BY <1>2, <2>1 DEF SpooledNotLost
  <2>2. CASE count = Len(spool)
    <3>1. \A k \in DOMAIN spool : spool[k] \in sent \cup failed
      BY <1>1, <1>2, <2>2, Numbers DEF Replayed
    <3> QED
      BY <1>2, <3>1 DEF SpooledNotLost
  <2> QED
    BY <1>3, <2>1, <2>2
<1> QED
  BY <1>2, <1>3, <1>5, <1>6 DEF EventHeld, LiveAlone, Replayed

\* An event is taken from the queue, to be published, spooled or discarded.
LEMMA DequeueKeeps ==
  ASSUME IInv, DequeueLive \/ DequeueOffline
  PROVE  IInv'
<1> USE DEF IInv, countVars, shownVars, netVars, flashVars, TaskKeeps, Go
<1>1. TypeOK
  BY DEF SpoolOrdered
<1>2. /\ pc \in {"dequeue", "offline"} /\ event = 0
      /\ UNCHANGED <<countVars, spool, spooled, currentState, ntpSynced, count, waited,
                     wifi, clock, link, shownVars, drops, resets, faults>>
  BY DEF DequeueLive, DequeueOffline, EventHeld
<1>3. \/ queue' = queue /\ event' = 0 /\ pc' = "top"
      \/ /\ queue # <<>> /\ queue' = Tail(queue)
         /\ \/ event' = 0 /\ pc' = "top"
            \/ event' = Head(queue) /\ pc' \in {"publish", "append"}
  BY <1>2 DEF DequeueLive, DequeueOffline, Receive
<1>4. pc' = "publish" => pc = "dequeue"
  BY DEF DequeueLive, DequeueOffline, Receive
<1>5. CASE queue' = queue /\ event' = 0 /\ pc' = "top"
  <2>1. TypeOK'
    BY <1>1, <1>2, <1>5 DEF TypeOK, PCs
  <2> QED
    BY <1>2, <1>5, <2>1
    DEF SpoolOrdered, EventHeld, QueueOrdered, SentOldest, LiveAlone, Replayed,
        SpooledNotLost
<1>6. CASE /\ queue # <<>> /\ queue' = Tail(queue)
           /\ \/ event' = 0 /\ pc' = "top"
              \/ event' = Head(queue) /\ pc' \in {"publish", "append"}
  <2>1. /\ queue' \in Seq(Events) /\ Len(queue') = Len(queue) - 1
        /\ Head(queue) \in Events /\ 1 \in DOMAIN queue /\ Head(queue) = queue[1]
        /\ \A k \in DOMAIN queue' :
             /\ k \in Nat /\ k + 1 \in DOMAIN queue /\ 1 < k + 1
             /\ queue'[k] = queue[k + 1]
    BY <1>1, <1>6, TailIndex, Numbers
  <2>2. Len(queue') <= QueueSize /\ pc' \in PCs /\ event' \in Events \cup {0}
    BY <1>1, <1>6, <2>1, Numbers DEF TypeOK, PCs
  <2>3. TypeOK'
    BY <1>1, <1>2, <2>1, <2>2 DEF TypeOK
  <2>4. event' # 0 => event' = queue[1]
    BY <1>6, <2>1
  <2>5. \A k \in DOMAIN queue' : queue[1] < queue'[k]
    BY <2>1 DEF QueueOrdered
  <2>6. SpoolOrdered'
    BY <1>2, <2>1, <2>3, <2>4, <2>5 DEF SpoolOrdered
  <2>7. QueueOrdered'
    <3>1. event' <= events
      BY <1>1, <2>1, <2>4, Numbers DEF QueueOrdered
    <3>2. \A j, k \in DOMAIN queue' : j < k => queue'[j] < queue'[k]
      BY <2>1 DEF QueueOrdered
    <3> QED
      BY <1>2, <2>1, <3>1, <3>2 DEF QueueOrdered
  <2>8. SentOldest'
    BY <1>2, <2>1, <2>4 DEF SentOldest
  <2>9. EventHeld'
    BY <1>6, <2>1 DEF EventHeld, Events
  <2>10. LiveAlone' /\ Replayed' /\ SpooledNotLost'
    BY <1>2, <1>4, <1>6 DEF LiveAlone, Replayed, SpooledNotLost
  <2> QED
    BY <2>6, <2>7, <2>8, <2>9, <2>10
<1> QED
  BY <1>3, <1>5, <1>6

\* A live event is published, if the session is up, or lost.
LEMMA PublishKeeps ==
  ASSUME IInv, PublishLive
  PROVE  IInv'
<1> USE DEF IInv, countVars, shownVars, netVars, flashVars, TaskKeeps, Go
<1>1. TypeOK
  BY DEF SpoolOrdered
<1>2. /\ pc = "publish" /\ pc' = "top" /\ event' = 0 /\ event # 0
      /\ sent' = IF link THEN sent \cup {event} ELSE sent
      /\ UNCHANGED <<countVars, queue, spool, spooled, currentState, ntpSynced, count,
                     waited, wifi, clock, link, failed, announced, drops, resets, faults>>
  BY DEF PublishLive, Publish, EventHeld
<1>3. TypeOK'
  BY <1>1, <1>2 DEF TypeOK, PCs
<1>4. SpoolOrdered'
  BY <1>2, <1>3 DEF SpoolOrdered
<1>5. QueueOrdered'
  BY <1>1, <1>2, Numbers DEF QueueOrdered
<1>6. SentOldest'
  <2>1. faults = 0 => DOMAIN spool = {}
    BY <1>2, Empty DEF LiveAlone
  <2>2. \A k \in DOMAIN queue : event < queue[k]
    BY <1>2 DEF SpoolOrdered
  <2> QED
    BY <1>2, <2>1, <2>2 DEF SentOldest
<1> QED
  BY <1>2, <1>4, <1>5, <1>6
  DEF EventHeld, LiveAlone, Replayed, SpooledNotLost

\* An event is spooled, or dropped because the file cannot be opened.
LEMMA AppendKeeps ==
  ASSUME IInv, AppendSpool
  PROVE  IInv'
<1> USE DEF IInv, countVars, shownVars, netVars, flashVars, TaskKeeps, Go
<1>1. TypeOK
  BY DEF SpoolOrdered
<1>2. /\ pc = "append" /\ pc' = "top" /\ event' = 0 /\ event # 0 /\ event \in Events
      /\ UNCHANGED <<countVars, queue, currentState, ntpSynced, count, waited, wifi,
                     clock, link, shownVars, drops, resets>>
      /\ faults' \in 0 .. MaxFaults /\ (faults' = 0 => faults = 0)
  BY <1>1 DEF AppendSpool, EventHeld, TypeOK
<1>3. CASE spool' = Append(spool, event) /\ spooled' = spooled \cup {event}
  <2>1. /\ spool' \in Seq(Events)
        /\ \A k \in DOMAIN spool' :
             \/ k \in DOMAIN spool /\ spool'[k] = spool[k]
             \/ k = Len(spool) + 1 /\ spool'[k] = event
        /\ \A k \in DOMAIN spool :
             k \in DOMAIN spool' /\ k <= Len(spool) /\ spool'[k] = spool[k]
        /\ Len(spool) + 1 \in DOMAIN spool' /\ spool'[Len(spool) + 1] = event
        /\ DOMAIN spool \subseteq Nat /\ Len(spool) \in Nat
    BY <1>1, <1>2, <1>3, AppendIndex, Numbers
  <2>2. TypeOK'
    BY <1>1, <1>2, <1>3, <2>1 DEF TypeOK, PCs
  <2>3. SpoolOrdered'
    BY <1>2, <2>1, <2>2 DEF SpoolOrdered
  <2>4. QueueOrdered'
    BY <1>1, <1>2, <2>1, Numbers DEF QueueOrdered
  <2>5. SentOldest'
    BY <1>2, <2>1 DEF SentOldest
  <2>6. SpooledNotLost'
    BY <1>2, <1>3, <2>1 DEF SpooledNotLost
  <2> QED
    BY <1>2, <2>3, <2>4, <2>5, <2>6 DEF EventHeld, LiveAlone, Replayed
<1>4. CASE UNCHANGED flashVars
  <2>1. TypeOK'
    BY <1>1, <1>2, <1>4 DEF TypeOK, PCs
  <2>2. SpoolOrdered'
    BY <1>2, <1>4, <2>1 DEF SpoolOrdered
  <2>3. QueueOrdered'
    BY <1>1, <1>2, <1>4, Numbers DEF QueueOrdered
  <2> QED
    BY <1>2, <1>4, <2>2, <2>3
    DEF EventHeld, SentOldest, LiveAlone, Replayed, SpooledNotLost
<1> QED
  BY <1>3, <1>4 DEF AppendSpool

\* Every step keeps the invariant.
LEMMA StepKeeps == IInv /\ [Next]_vars => IInv'
<1> SUFFICES ASSUME IInv, [Next]_vars PROVE IInv'
  OBVIOUS
<1>1. CASE Next
  BY <1>1, NetworkKeeps, ConnectingKeeps, ResetKeeps, InterruptKeeps, ReplayKeeps,
     RemoveKeeps, DequeueKeeps, PublishKeeps, AppendKeeps
  DEF Next, Networking, Connecting
<1>2. CASE UNCHANGED vars
  <2> USE <1>2 DEF vars, countVars, shownVars, flashVars, taskVars, netVars, bounds
  <2>1. TypeOK' /\ UNCHANGED Ordered
    BY DEF IInv, SpoolOrdered, TypeOK, Ordered
  <2>2. EventHeld' /\ LiveAlone' /\ Replayed'
    BY DEF IInv, EventHeld, LiveAlone, Replayed
  <2>3. faults' >= faults
    BY DEF IInv, SpoolOrdered, TypeOK
  <2> QED
    BY <2>1, <2>2, <2>3, QuietKeeps
<1> QED
  BY <1>1, <1>2

\* The inductive invariant.
LEMMA Inductive == Spec => []IInv
<1>1. Init => IInv
  <2> SUFFICES ASSUME Init PROVE IInv
    OBVIOUS
  <2>1. TypeOK
    <3>1. queue \in Seq(Events) /\ spool \in Seq(Events) /\ Len(queue) <= QueueSize
      BY Empty DEF Init
    <3>2. /\ 0 \in 0 .. MaxEvents /\ 0 \in 0 .. Chunk /\ 0 \in 0 .. WdtSeconds
          /\ 0 \in 0 .. MaxDrops /\ 0 \in 0 .. MaxResets /\ 0 \in 0 .. MaxFaults
      OBVIOUS
    <3>3. currentState \in States /\ pc \in PCs
      BY DEF Init, States, PCs
    <3>4. ntpSynced \in BOOLEAN /\ link \in BOOLEAN
      BY DEF Init
    <3> QED
      BY <3>1, <3>2, <3>3, <3>4 DEF Init, TypeOK
  <2> QED
    BY <2>1, Empty
    DEF Init, IInv, SpoolOrdered, EventHeld, QueueOrdered, SentOldest, LiveAlone,
        Replayed, SpooledNotLost
<1> QED
  BY <1>1, StepKeeps, PTL DEF Spec

-----------------------------------------------------------------------------

\* The events in memory and on flash stay in the order of their interrupts.
THEOREM OrderCorrect == Spec => []SpoolOrdered
<1>1. IInv => SpoolOrdered
  BY DEF IInv
<1> QED
  BY <1>1, Inductive, PTL

\* A replay removes /spool.dat only when each of its events has been handed to
\* publish(): one that is gone was published or publish() failed for it.
THEOREM SpoolCorrect == Spec => []SpooledNotLost
<1>1. IInv => SpooledNotLost
  BY DEF IInv
<1> QED
  BY <1>1, Inductive, PTL

\* As long as the flash works, events are first published in their order.
THEOREM ChronologyCorrect == Spec => ChronologicalOrder
<1> DEFINE Newest == faults = 0 => \A e \in sent' \ sent : \A f \in sent : f < e
<1>1. ASSUME IInv, [Next]_vars
      PROVE  Newest \/ UNCHANGED vars
  <2> USE DEF vars, countVars, shownVars, netVars, flashVars, taskVars, bounds, TaskKeeps
  <2>1. TypeOK
    BY <1>1 DEF IInv, SpoolOrdered
  <2>2. CASE ReplayEvent
    <3>1. /\ count + 1 \in DOMAIN spool
          /\ sent' \ sent \subseteq {spool[count + 1]} \ sent
      BY <2>1, <2>2, Numbers DEF ReplayEvent, Publish
    <3> QED
      BY <1>1, <3>1 DEF IInv, SentOldest
  <2>3. CASE PublishLive
    <3>1. event # 0 /\ sent' \ sent \subseteq {event}
      BY <1>1, <2>3 DEF IInv, EventHeld, PublishLive, Publish
    <3> QED
      BY <1>1, <3>1 DEF IInv, SentOldest
  <2>4. CASE ~ReplayEvent /\ ~PublishLive
    <3>1. sent' = sent
      BY <1>1, <2>4 DEF Next, InputISR, WifiJoins, NtpAnswers, ConnectionLost, PowerLoss,
        WatchdogPanic, Reset, Networking, InState, Top, StillWaiting, BeginWifi,
        WifiConnected, WifiTimeout, NtpBegin, NtpDelay, NtpBreak, NtpDone,
        MqttConnects, PublishStatus, MqttLost, OpenSpool, ReplayDone, DequeueLive, DequeueOffline,
        AppendSpool
    <3> QED
      BY <3>1
  <2> QED
    BY <2>2, <2>3, <2>4
<1>2. IInv /\ [Next]_vars => [Newest]_vars
  BY <1>1
<1> QED
  BY <1>2, Inductive, PTL DEF Spec, ChronologicalOrder
=============================================================================
