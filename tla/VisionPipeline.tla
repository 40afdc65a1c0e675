--------------------------- MODULE VisionPipeline ---------------------------
(***************************************************************************)
(* The capture-to-publish pipeline of the gema-vision daemon               *)
(* (edge_ops/gema_vision): FramePool, ThreadSafeQueue, MockVideoProducer,  *)
(* InferenceOrchestrator and the start and stop sequences of main().       *)
(*                                                                         *)
(* Threads: the producer, the consumer, main, one thread for each other    *)
(* service (telemetry, config, watchdog) and the signal that sets          *)
(* g_shutdown.  A step is one access to shared state: one compare-exchange *)
(* of the pool, one critical section of the queue's mutex, one             *)
(* notification of its condition variable, one read of an image.           *)
(*                                                                         *)
(* An image is the number of the frame painted into a buffer; Torn is a    *)
(* buffer whose painting has begun and not ended.                          *)
(***************************************************************************)
EXTENDS Naturals, Sequences, FiniteSets

CONSTANTS
  PoolSize,    \* FramePool::kPoolSize (4 in the code)
  MaxSize,     \* ThreadSafeQueue::max_size_ (8 in main), 0 for unbounded
  MaxFrames,   \* bound on the frames the producer captures
  MaxDefects   \* bound on the class-0 primitives found in one frame

ASSUME PoolSizeAssumption   == PoolSize \in Nat \ {0}
ASSUME MaxSizeAssumption    == MaxSize \in Nat
ASSUME MaxFramesAssumption  == MaxFrames \in Nat
ASSUME MaxDefectsAssumption == MaxDefects \in Nat

VARIABLES
  available,         \* FramePool: the indices i with available_[i] true
  pixels,            \* FramePool: the image in pool_[i]
  queue,             \* ThreadSafeQueue: buffer indices, oldest first
  done,              \* ThreadSafeQueue: done_
  dropped_count,     \* ThreadSafeQueue: dropped_count_
  prod_pc,           \* MockVideoProducer: where its thread is,
  running,           \*   running_,
  scan,              \*   the index i in acquire(),
  prod_slot,         \*   the buffer it holds (None: a null shared_ptr),
  frames_produced,   \*   frames_produced_
  cons_pc,           \* InferenceOrchestrator: where its thread is,
  cons_slot,         \*   the buffer frame_ptr points to,
  seen,              \*   the image infer() read,
  crop,              \*   the image the dispatcher read,
  defects,           \*   result.defect_count,
  frames_processed,  \*   frames_processed_,
  defects_total,     \*   defects_total_
  last_defect,       \*   the frame that last set last_defect_epoch_
  published,         \* messages on novamex/vision/inference, in order
  service,           \* the lifecycle of the other threads
  main_pc,           \* where main() is
  main_at,           \*   and at which entry of StartOrder or StopOrder
  g_shutdown         \* set by signal_handler

poolVars  == <<available, pixels>>
queueVars == <<queue, done, dropped_count>>
prodVars  == <<prod_pc, running, scan, prod_slot, frames_produced>>
frameVars == <<cons_slot, seen, crop, defects>>
statVars  == <<frames_processed, defects_total, last_defect, published>>
consVars  == <<cons_pc, frameVars, statVars>>
mainVars  == <<service, main_pc, main_at, g_shutdown>>
vars == <<poolVars, queueVars, prodVars, consVars, mainVars>>

Slots    == 0 .. PoolSize - 1
None     == PoolSize   \* a null shared_ptr
Torn     == 0
Message  == [frame : Nat, crop : Nat]
Services == {"telemetry", "config", "watchdog"}

\* The order in which main() starts the threads.
StartOrder == <<"watchdog", "producer", "orchestrator", "telemetry", "config">>

\* Mutant: the order of main.cpp's header comment.
StopOrderDocumented ==
  <<"orchestrator", "producer", "telemetry", "config", "watchdog">>

\* Mutant: the watchdog, which is started first, is also stopped first.
StopOrderWatchdogFirst ==
  <<"watchdog", "producer", "orchestrator", "telemetry", "config">>

\* The order in which main() stops them.
StopOrder == <<"producer", "orchestrator", "telemetry", "config", "watchdog">>

ProdPCs == {"off", "check", "acquire", "paint", "painting", "push", "notify",
            "count", "sleep", "exited"}
ConsPCs == {"off", "pop", "waiting", "null", "infer", "dispatch", "publish",
            "account", "release", "exited"}
ServicePCs == {"off", "running", "stopping", "exited"}
MainPCs == {"starting", "running", "stopping", "notify_all", "joining",
            "exited"}
Holding == {"infer", "dispatch", "publish", "account", "release"}

TypeOK ==
  /\ available \subseteq Slots
  /\ pixels \in [Slots -> Nat]
  /\ queue \in Seq(Slots)
  /\ done \in BOOLEAN
  /\ dropped_count \in Nat
  /\ prod_pc \in ProdPCs
  /\ running \in BOOLEAN
  /\ scan \in Slots
  /\ prod_slot \in Slots \cup {None}
  /\ frames_produced \in Nat
  /\ cons_pc \in ConsPCs
  /\ cons_slot \in Slots \cup {None}
  /\ seen \in Nat
  /\ crop \in Nat
  /\ defects \in 0 .. MaxDefects
  /\ frames_processed \in Nat
  /\ defects_total \in Nat
  /\ last_defect \in Nat
  /\ published \in Seq(Message)
  /\ service \in [Services -> ServicePCs]
  /\ main_pc \in MainPCs
  /\ main_at \in 1 .. 5
  /\ g_shutdown \in BOOLEAN

Init ==
  /\ available = Slots
  /\ pixels = [s \in Slots |-> Torn]
  /\ queue = <<>>
  /\ done = FALSE
  /\ dropped_count = 0
  /\ prod_pc = "off"
  /\ running = FALSE
  /\ scan = 0
  /\ prod_slot = None
  /\ frames_produced = 0
  /\ cons_pc = "off"
  /\ cons_slot = None
  /\ seen = 0
  /\ crop = 0
  /\ defects = 0
  /\ frames_processed = 0
  /\ defects_total = 0
  /\ last_defect = 0
  /\ published = <<>>
  /\ service = [s \in Services |-> "off"]
  /\ main_pc = "starting"
  /\ main_at = 1
  /\ g_shutdown = FALSE

-----------------------------------------------------------------------------
(* MockVideoProducer::producer_loop                                        *)

\* while (running_.load()): the loop's test.  MaxFrames bounds the captures:
\* at the bound the producer stays asleep until stop() clears running_.
ProducerCheck ==
  /\ prod_pc = "check"
  /\ \/ /\ running
        /\ frames_produced < MaxFrames
        /\ prod_pc' = "acquire"
     \/ /\ ~running
        /\ prod_pc' = "exited"
  /\ scan' = 0
  /\ UNCHANGED <<poolVars, queueVars, running, prod_slot, frames_produced,
                 consVars, mainVars>>

\* FramePool::acquire: the compare-exchange on available_[i] succeeds.
AcquireSlot ==
  /\ prod_pc = "acquire"
  /\ scan \in available
  /\ available' = available \ {scan}
  /\ prod_slot' = scan
  /\ prod_pc' = "paint"
  /\ UNCHANGED <<pixels, queueVars, running, scan, frames_produced, consVars,
                 mainVars>>

\* FramePool::acquire: it fails, because the buffer is in flight or spuriously
\* (compare_exchange_weak), and the scan goes on, around the pool, for ever.
AcquireMiss ==
  /\ prod_pc = "acquire"
  /\ scan' = IF scan + 1 = PoolSize THEN 0 ELSE scan + 1
  /\ UNCHANGED <<poolVars, queueVars, prod_pc, running, prod_slot,
                 frames_produced, consVars, mainVars>>

\* paint_pattern: the buffer is being overwritten...
PaintBegin ==
  /\ prod_pc = "paint"
  /\ pixels' = [pixels EXCEPT ![prod_slot] = Torn]
  /\ prod_pc' = "painting"
  /\ UNCHANGED <<available, queueVars, running, scan, prod_slot,
                 frames_produced, consVars, mainVars>>

\* ... and holds the next frame.
PaintEnd ==
  /\ prod_pc = "painting"
  /\ pixels' = [pixels EXCEPT ![prod_slot] = frames_produced + 1]
  /\ prod_pc' = "push"
  /\ UNCHANGED <<available, queueVars, running, scan, prod_slot,
                 frames_produced, consVars, mainVars>>

\* Mutant: off by one.
QueueAlmostFull == MaxSize > 0 /\ Len(queue) + 1 >= MaxSize

QueueFull == MaxSize > 0 /\ Len(queue) >= MaxSize

\* Mutant: push() with its choices as parameters; counted is what a drop adds
\* to dropped_count_, freed the buffers it returns, kept what stays queued.
PushWith(counted, freed, kept) ==
  /\ prod_pc = "push"
  /\ IF QueueFull
       THEN /\ queue' = kept
            /\ dropped_count' = dropped_count + counted
            /\ available' = available \cup freed
       ELSE /\ queue' = Append(queue, prod_slot)
            /\ UNCHANGED <<dropped_count, available>>
  /\ prod_pc' = "notify"
  /\ prod_slot' = None
  /\ UNCHANGED <<pixels, done, running, scan, frames_produced, consVars,
                 mainVars>>
PushLeaks      == PushWith(1, {}, Append(Tail(queue), prod_slot))
PushUncounted  == PushWith(0, {Head(queue)}, Append(Tail(queue), prod_slot))
PushDropsNewest == PushWith(1, {prod_slot}, queue)

\* ThreadSafeQueue::push, under the mutex: at max_size_ the oldest entry is
\* popped, whose deleter returns its buffer to the pool.
Push ==
  /\ prod_pc = "push"
  /\ IF QueueFull
       THEN /\ queue' = Append(Tail(queue), prod_slot)
            /\ dropped_count' = dropped_count + 1
            /\ available' = available \cup {Head(queue)}
       ELSE /\ queue' = Append(queue, prod_slot)
            /\ UNCHANGED <<dropped_count, available>>
  /\ prod_pc' = "notify"
  /\ prod_slot' = None
  /\ UNCHANGED <<pixels, done, running, scan, frames_produced, consVars,
                 mainVars>>

\* A notification: the consumer, if blocked in wait(), re-evaluates the
\* predicate.
Notify == cons_pc' = IF cons_pc = "waiting" THEN "pop" ELSE cons_pc

\* cv_.notify_one(), after the mutex is released.
NotifyOne ==
  /\ prod_pc = "notify"
  /\ Notify
  /\ prod_pc' = "count"
  /\ UNCHANGED <<poolVars, queueVars, running, scan, prod_slot,
                 frames_produced, frameVars, statVars, mainVars>>

\* frames_produced_.fetch_add(1)
CountFrame ==
  /\ prod_pc = "count"
  /\ frames_produced' = frames_produced + 1
  /\ prod_pc' = "sleep"
  /\ UNCHANGED <<poolVars, queueVars, running, scan, prod_slot, consVars,
                 mainVars>>

\* sleep_interruptible ends, on time or because running_ was cleared.
ProducerWake ==
  /\ prod_pc = "sleep"
  /\ prod_pc' = "check"
  /\ UNCHANGED <<poolVars, queueVars, running, scan, prod_slot,
                 frames_produced, consVars, mainVars>>

Producer ==
  \/ ProducerCheck \/ AcquireSlot \/ AcquireMiss \/ PaintBegin \/ PaintEnd
  \/ Push \/ NotifyOne \/ CountFrame \/ ProducerWake

-----------------------------------------------------------------------------
(* InferenceOrchestrator::consumer_loop                                    *)

\* Mutant: the buffer goes back to the pool as soon as it is popped.
PopReleases ==
  /\ cons_pc = "pop"
  /\ queue # <<>>
  /\ queue' = Tail(queue)
  /\ cons_slot' = Head(queue)
  /\ available' = available \cup {Head(queue)}
  /\ cons_pc' = "infer"
  /\ UNCHANGED <<pixels, done, dropped_count, prodVars, seen, crop, defects,
                 statVars, mainVars>>

\* ThreadSafeQueue::pop with an entry to return.
PopFrame ==
  /\ cons_pc = "pop"
  /\ queue # <<>>
  /\ queue' = Tail(queue)
  /\ cons_slot' = Head(queue)
  /\ cons_pc' = "infer"
  /\ UNCHANGED <<poolVars, done, dropped_count, prodVars, seen, crop, defects,
                 statVars, mainVars>>

\* Mutant: after shutdown() pop() returns null without draining the queue.
PopNothingUndrained ==
  /\ cons_pc = "pop"
  /\ queue = <<>> \/ done
  /\ cons_pc' = IF done THEN "null" ELSE "waiting"
  /\ UNCHANGED <<poolVars, queueVars, prodVars, frameVars, statVars, mainVars>>

\* ThreadSafeQueue::pop on an empty queue: null after shutdown(), else the
\* predicate fails and wait() releases the mutex and blocks in one step.
PopNothing ==
  /\ cons_pc = "pop"
  /\ queue = <<>>
  /\ cons_pc' = IF done THEN "null" ELSE "waiting"
  /\ UNCHANGED <<poolVars, queueVars, prodVars, frameVars, statVars, mainVars>>

\* A condition variable may wake a waiter that nobody notified.
SpuriousWakeup ==
  /\ cons_pc = "waiting"
  /\ Notify
  /\ UNCHANGED <<poolVars, queueVars, prodVars, frameVars, statVars, mainVars>>

\* if (!frame_ptr && frame_queue_.is_shutdown()) break;  else continue
NullFrame ==
  /\ cons_pc = "null"
  /\ cons_pc' = IF done THEN "exited" ELSE "pop"
  /\ UNCHANGED <<poolVars, queueVars, prodVars, frameVars, statVars, mainVars>>

\* engine_.infer(*frame_ptr) reads the image and finds some defects.
Infer ==
  /\ cons_pc = "infer"
  /\ seen' = pixels[cons_slot]
  /\ defects' \in 0 .. MaxDefects
  /\ cons_pc' = "dispatch"
  /\ UNCHANGED <<poolVars, queueVars, prodVars, cons_slot, crop, statVars,
                 mainVars>>

\* dispatcher_.process(primitives, *frame_ptr) reads the image again, to crop
\* the regions that infer found.
Dispatch ==
  /\ cons_pc = "dispatch"
  /\ crop' = pixels[cons_slot]
  /\ cons_pc' = "publish"
  /\ UNCHANGED <<poolVars, queueVars, prodVars, cons_slot, seen, defects,
                 statVars, mainVars>>

\* mqtt_.publish: a failure is ignored and the frame is not sent again.
Publish ==
  /\ cons_pc = "publish"
  /\ \/ published' = Append(published, [frame |-> seen, crop |-> crop])
     \/ UNCHANGED published
  /\ cons_pc' = "account"
  /\ UNCHANGED <<poolVars, queueVars, prodVars, frameVars, frames_processed,
                 defects_total, last_defect, mainVars>>

\* The bookkeeping at the end of an iteration.
Account ==
  /\ cons_pc = "account"
  /\ frames_processed' = frames_processed + 1
  /\ defects_total' = defects_total + defects
  /\ last_defect' = IF defects > 0 THEN seen ELSE last_defect
  /\ cons_pc' = "release"
  /\ UNCHANGED <<poolVars, queueVars, prodVars, frameVars, published, mainVars>>

\* The iteration's locals go out of scope; the deleter of frame_ptr calls
\* FramePool::release.
Release ==
  /\ cons_pc = "release"
  /\ available' = available \cup {cons_slot}
  /\ cons_slot' = None
  /\ seen' = 0 /\ crop' = 0 /\ defects' = 0
  /\ cons_pc' = "pop"
  /\ UNCHANGED <<pixels, queueVars, prodVars, statVars, mainVars>>

Consumer ==
  \/ PopFrame \/ PopNothing \/ NullFrame \/ Infer \/ Dispatch \/ Publish
  \/ Account \/ Release

-----------------------------------------------------------------------------
(* main() and the signal handler                                           *)

\* The handler may run at any time, also while main() is still starting.
Signal ==
  /\ ~g_shutdown
  /\ g_shutdown' = TRUE
  /\ UNCHANGED <<poolVars, queueVars, prodVars, consVars, service, main_pc,
                 main_at>>

\* main() goes on to the next entry of an order, or to end after the last.
Advance(order, next, end) ==
  IF main_at < Len(order)
    THEN main_pc' = next /\ main_at' = main_at + 1
    ELSE main_pc' = end  /\ main_at' = 1

StartProducer ==
  /\ StartOrder[main_at] = "producer"
  /\ running' = TRUE
  /\ prod_pc' = "check"
  /\ UNCHANGED <<cons_pc, service>>

StartOrchestrator ==
  /\ StartOrder[main_at] = "orchestrator"
  /\ cons_pc' = "pop"
  /\ UNCHANGED <<running, prod_pc, service>>

\* A watchdog whose device cannot be opened is destroyed and main() goes on
\* without it.
StartService ==
  /\ StartOrder[main_at] \in Services
  /\ \/ service' = [service EXCEPT ![StartOrder[main_at]] = "running"]
     \/ StartOrder[main_at] = "watchdog" /\ UNCHANGED service
  /\ UNCHANGED <<running, prod_pc, cons_pc>>

\* start() of the thread that comes next.
Start ==
  /\ main_pc = "starting"
  /\ StartProducer \/ StartOrchestrator \/ StartService
  /\ Advance(StartOrder, "starting", "running")
  /\ UNCHANGED <<poolVars, queueVars, scan, prod_slot, frames_produced,
                 frameVars, statVars, g_shutdown>>

\* The 100 ms poll of g_shutdown sees it set.
MainLoopExit ==
  /\ main_pc = "running"
  /\ g_shutdown
  /\ main_pc' = "stopping"
  /\ UNCHANGED <<poolVars, queueVars, prodVars, consVars, service, main_at,
                 g_shutdown>>

StopProducer ==
  /\ StopOrder[main_at] = "producer"
  /\ running' = FALSE
  /\ main_pc' = "joining"
  /\ UNCHANGED <<done, service>>

\* Mutant: shutdown() sets done_ and notifies nobody.
StopOrchestratorSilently ==
  /\ StopOrder[main_at] = "orchestrator"
  /\ done' = TRUE
  /\ main_pc' = "joining"
  /\ UNCHANGED <<running, service>>

\* ThreadSafeQueue::shutdown sets done_ under the mutex, then notifies.
StopOrchestrator ==
  /\ StopOrder[main_at] = "orchestrator"
  /\ done' = TRUE
  /\ main_pc' = "notify_all"
  /\ UNCHANGED <<running, service>>

StopService ==
  /\ StopOrder[main_at] \in Services
  /\ service' = [service EXCEPT ![StopOrder[main_at]] =
                   IF @ = "running" THEN "stopping" ELSE @]
  /\ main_pc' = "joining"
  /\ UNCHANGED <<running, done>>

\* stop() of the thread that comes next, up to its join().
Stop ==
  /\ main_pc = "stopping"
  /\ StopProducer \/ StopOrchestrator \/ StopService
  /\ UNCHANGED <<poolVars, queue, dropped_count, prod_pc, scan, prod_slot,
                 frames_produced, consVars, main_at, g_shutdown>>

\* cv_.notify_all() in ThreadSafeQueue::shutdown.
NotifyAll ==
  /\ main_pc = "notify_all"
  /\ Notify
  /\ main_pc' = "joining"
  /\ UNCHANGED <<poolVars, queueVars, prodVars, frameVars, statVars, service,
                 main_at, g_shutdown>>

Exited(c) ==
  \/ c = "producer" /\ prod_pc = "exited"
  \/ c = "orchestrator" /\ cons_pc = "exited"
  \/ c \in Services /\ service[c] \in {"exited", "off"}

\* join() returns once the thread has ended (at once if it never started).
Join ==
  /\ main_pc = "joining"
  /\ Exited(StopOrder[main_at])
  /\ Advance(StopOrder, "stopping", "exited")
  /\ UNCHANGED <<poolVars, queueVars, prodVars, consVars, service, g_shutdown>>

\* A service thread sees its running flag cleared and returns.
ServiceExit(s) ==
  /\ service[s] = "stopping"
  /\ service' = [service EXCEPT ![s] = "exited"]
  /\ UNCHANGED <<poolVars, queueVars, prodVars, consVars, main_pc, main_at,
                 g_shutdown>>

Main == Start \/ MainLoopExit \/ Stop \/ NotifyAll \/ Join

\* The process has returned from main().
Terminated == main_pc = "exited" /\ UNCHANGED vars

Next ==
  \/ Producer
  \/ Consumer
  \/ SpuriousWakeup
  \/ Signal
  \/ Main
  \/ \E s \in Services : ServiceExit(s)
  \/ Terminated

\* Threads are scheduled, sleeps end, and a compare_exchange_weak on a free
\* buffer does not fail spuriously for ever.  Nothing promises a signal or a
\* spurious wakeup.
Fairness ==
  /\ WF_vars(Producer)
  /\ SF_vars(AcquireSlot)
  /\ WF_vars(Consumer)
  /\ WF_vars(Main)
  /\ \A s \in Services : WF_vars(ServiceExit(s))

Spec == Init /\ [][Next]_vars

FairSpec == Spec /\ Fairness
-----------------------------------------------------------------------------
(* Properties                                                              *)

\* A thread has a buffer exactly between acquire (or pop) and push (or the
\* deleter).
SlotHeld ==
  /\ prod_slot # None <=> prod_pc \in {"paint", "painting", "push"}
  /\ cons_slot # None <=> cons_pc \in Holding

\* A thread runs only once main() has started it.
NotYetStarted ==
  main_pc = "starting" =>
    /\ main_at <= 2 => prod_pc = "off"
    /\ main_at <= 3 => cons_pc = "off"

Occurs(e, q) == \E k \in DOMAIN q : q[k] = e
Distinct(q)  == \A j, k \in DOMAIN q : q[j] = q[k] => j = k

\* A buffer of the pool is free or belongs to exactly one of the producer, one
\* queue entry and the consumer: whatever the interleaving of acquire,
\* drop-oldest and the deleters, no buffer is handed out twice and none leaks.
SlotOwnership ==
  /\ Distinct(queue)
  /\ \A s \in Slots :
       /\ s \in available <=> ~(s = prod_slot \/ s = cons_slot \/ Occurs(s, queue))
       /\ s = prod_slot => s # cons_slot /\ ~Occurs(s, queue)
       /\ s = cons_slot => ~Occurs(s, queue)

\* Every message describes one whole image (infer and the dispatcher read the
\* same frame, never one half painted) and messages leave in capture order.
MessagesFaithful ==
  /\ \A k \in DOMAIN published :
       /\ published[k].frame # Torn
       /\ published[k].crop = published[k].frame
  /\ \A j, k \in DOMAIN published :
       j < k => published[j].frame < published[k].frame

\* What is published is faithful to what was captured; the types are part of it.
PublishedFaithful == TypeOK /\ MessagesFaithful

\* The consumer never sleeps on work: if it is blocked in pop() while there is
\* a frame or the queue is shut down, a notification is still to come.
NoLostWakeup ==
  cons_pc = "waiting" /\ (queue # <<>> \/ done) =>
    prod_pc = "notify" \/ main_pc = "notify_all"

Pushed == frames_produced + IF prod_pc \in {"notify", "count"} THEN 1 ELSE 0
InHand == IF cons_pc \in Holding \ {"release"} THEN 1 ELSE 0

\* No frame is lost or counted twice: the counters that telemetry publishes
\* add up to the frames pushed.
FrameAccounting ==
  Pushed = frames_processed + InHand + Len(queue) + dropped_count

\* With a queue at least as long as the pool (8 and 4 in main) the drop-oldest
\* branch of push() is never taken: back-pressure comes from acquire().
NoDropWhenPoolFits == PoolSize <= MaxSize => dropped_count = 0

\* stop() order: the watchdog is disarmed only when every other thread has
\* ended, so a hang anywhere in the shutdown leaves it armed.
WatchdogStoppedLast ==
  service["watchdog"] \in {"stopping", "exited"} =>
    \A k \in 1 .. 4 : Exited(StopOrder[k])

\* When main() returns, every captured frame was processed or dropped and every
\* buffer is back in the pool.
DrainedAtExit ==
  main_pc = "exited" =>
    /\ queue = <<>>
    /\ available = Slots
    /\ frames_produced = frames_processed + dropped_count

\* The shutdown, in whatever state the signal finds the threads.
ShutdownOrdered == WatchdogStoppedLast /\ DrainedAtExit

\* After SIGTERM or SIGINT main() returns: no join() waits for ever on a
\* consumer blocked in pop() or a producer spinning in acquire().
ShutdownCompletes == g_shutdown ~> main_pc = "exited"
-----------------------------------------------------------------------------
(* The channel the pipeline promises to its users                          *)

Channel == INSTANCE FrameChannel WITH
  Capacity <- MaxSize,
  captured <- Pushed,
  pending  <- [k \in DOMAIN queue |-> pixels[queue[k]]],
  hand     <- IF cons_pc \in {"infer", "dispatch", "publish"}
                THEN pixels[cons_slot] ELSE 0,
  out      <- [k \in DOMAIN published |-> published[k].frame],
  status   <- IF cons_pc = "exited" THEN "finished"
              ELSE IF prod_pc = "exited" THEN "closed" ELSE "open"

\* The threads, the pool and the queue together implement a bounded FIFO that
\* forgets only its oldest frame, that delivers every other one, and that
\* finishes only when it has been closed and drained.
ImplementsChannel == Channel!FairSpec
=============================================================================
