------------------------ MODULE VisionPipelineProofs ------------------------
(***************************************************************************)
(* Proofs about VisionPipeline for every pool size, queue bound, number of *)
(* frames and number of defects.                                           *)
(***************************************************************************)
EXTENDS VisionPipeline, SequenceTheorems, FiniteSetTheorems, TLAPS

USE PoolSizeAssumption, MaxSizeAssumption, MaxFramesAssumption,
    MaxDefectsAssumption

TypeInv == TypeOK /\ SlotHeld /\ NotYetStarted

\* A null shared_ptr is no buffer of the pool.
LEMMA NoneNotSlot == None \notin Slots
BY DEF None, Slots

\* ThreadSafeQueue at its bound has an oldest entry to drop.
LEMMA FullNotEmpty ==
  ASSUME TypeOK, QueueFull
  PROVE  queue # <<>>
BY EmptySeq DEF TypeOK, QueueFull

-----------------------------------------------------------------------------
(* Types                                                                   *)

\* The producer's steps keep the types.
LEMMA ProducerTypeOK ==
  ASSUME TypeInv, Producer
  PROVE  TypeOK'
<1> USE DEF TypeInv, poolVars, queueVars, prodVars, frameVars, statVars, consVars, mainVars
<1>1. CASE ProducerCheck
  BY <1>1 DEF ProducerCheck, TypeOK, ProdPCs, Slots
<1>2. CASE AcquireSlot
  BY <1>2 DEF AcquireSlot, TypeOK, ProdPCs
<1>3. CASE AcquireMiss
  BY <1>3 DEF AcquireMiss, TypeOK, ProdPCs, Slots
<1>4. CASE PaintBegin
  BY <1>4 DEF PaintBegin, TypeOK, ProdPCs, Torn
<1>5. CASE PaintEnd
  <2>0. frames_produced + 1 \in Nat
    BY DEF TypeOK
  <2>1. pixels' \in [Slots -> Nat]
    BY <1>5, <2>0 DEF PaintEnd, TypeOK
  <2> QED
    BY <1>5, <2>1 DEF PaintEnd, TypeOK, ProdPCs
<1>6. CASE Push
  <2>1. prod_slot \in Slots
    BY <1>6 DEF Push, SlotHeld, TypeOK
  <2>2. queue' \in Seq(Slots) /\ available' \subseteq Slots
    <3>1. CASE QueueFull
      <4>1. Tail(queue) \in Seq(Slots) /\ Head(queue) \in Slots
        BY <3>1, FullNotEmpty, HeadTailProperties DEF TypeOK
      <4>2. Append(Tail(queue), prod_slot) \in Seq(Slots)
        BY <2>1, <4>1, AppendProperties
      <4> QED
        BY <1>6, <3>1, <4>1, <4>2 DEF Push, TypeOK
    <3>2. CASE ~QueueFull
      <4>1. Append(queue, prod_slot) \in Seq(Slots)
        BY <2>1, AppendProperties DEF TypeOK
      <4> QED
        BY <1>6, <3>2, <4>1 DEF Push, TypeOK
    <3> QED
      BY <3>1, <3>2
  <2>3. dropped_count' \in Nat
    BY <1>6 DEF Push, TypeOK
  <2>4. /\ prod_pc' = "notify" /\ prod_slot' = None
        /\ UNCHANGED <<pixels, done, running, scan, frames_produced, consVars,
                       mainVars>>
    BY <1>6 DEF Push
  <2> QED
    BY <2>2, <2>3, <2>4 DEF TypeOK, ProdPCs
<1>7. CASE NotifyOne
  BY <1>7 DEF NotifyOne, Notify, TypeOK, ProdPCs, ConsPCs
<1>8. CASE CountFrame
  BY <1>8 DEF CountFrame, TypeOK, ProdPCs
<1>9. CASE ProducerWake
  BY <1>9 DEF ProducerWake, TypeOK, ProdPCs
<1> QED
  BY <1>1, <1>2, <1>3, <1>4, <1>5, <1>6, <1>7, <1>8, <1>9 DEF Producer

\* The consumer's steps keep the types.
LEMMA ConsumerTypeOK ==
  ASSUME TypeInv, Consumer \/ SpuriousWakeup
  PROVE  TypeOK'
<1> USE DEF TypeInv, poolVars, queueVars, prodVars, frameVars, statVars, consVars, mainVars
<1>1. CASE PopFrame
  <2>1. queue' \in Seq(Slots) /\ cons_slot' \in Slots
    BY <1>1, HeadTailProperties DEF PopFrame, TypeOK
  <2>2. /\ cons_pc' = "infer"
        /\ UNCHANGED <<poolVars, done, dropped_count, prodVars, seen, crop,
                       defects, statVars, mainVars>>
    BY <1>1 DEF PopFrame
  <2> QED
    BY <2>1, <2>2 DEF TypeOK, ConsPCs
<1>2. CASE PopNothing
  BY <1>2 DEF PopNothing, TypeOK, ConsPCs
<1>3. CASE NullFrame
  BY <1>3 DEF NullFrame, TypeOK, ConsPCs
<1>4. CASE Infer
  <2>1. pixels[cons_slot] \in Nat
    BY <1>4 DEF Infer, SlotHeld, Holding, TypeOK
  <2> QED
    BY <1>4, <2>1 DEF Infer, TypeOK, ConsPCs
<1>5. CASE Dispatch
  <2>1. pixels[cons_slot] \in Nat
    BY <1>5 DEF Dispatch, SlotHeld, Holding, TypeOK
  <2> QED
    BY <1>5, <2>1 DEF Dispatch, TypeOK, ConsPCs
<1>6. CASE Publish
  <2>1. [frame |-> seen, crop |-> crop] \in Message
    BY DEF Message, TypeOK
  <2>2. published' \in Seq(Message)
    <3>1. Append(published, [frame |-> seen, crop |-> crop]) \in Seq(Message)
      BY <2>1, AppendProperties DEF TypeOK
    <3> QED
      BY <1>6, <3>1 DEF Publish, TypeOK
  <2>3. /\ cons_pc' = "account"
        /\ UNCHANGED <<poolVars, queueVars, prodVars, frameVars,
                       frames_processed, defects_total, last_defect, mainVars>>
    BY <1>6 DEF Publish
  <2> QED
    BY <2>2, <2>3 DEF TypeOK, ConsPCs
<1>7. CASE Account
  BY <1>7 DEF Account, TypeOK, ConsPCs
<1>8. CASE Release
  <2>1. cons_slot \in Slots
    BY <1>8 DEF Release, SlotHeld, Holding, TypeOK
  <2> QED
    BY <1>8, <2>1 DEF Release, TypeOK, ConsPCs
<1>9. CASE SpuriousWakeup
  BY <1>9 DEF SpuriousWakeup, Notify, TypeOK, ConsPCs
<1> QED
  BY <1>1, <1>2, <1>3, <1>4, <1>5, <1>6, <1>7, <1>8, <1>9 DEF Consumer

\* So do those of main(), of the signal handler and of the services.
LEMMA MainTypeOK ==
  ASSUME TypeInv,
         Signal \/ Main \/ \E s \in Services : ServiceExit(s)
  PROVE  TypeOK'
<1> USE DEF TypeInv, poolVars, queueVars, prodVars, frameVars, statVars, consVars, mainVars
<1>1. CASE Start
  <2>1. main_pc' \in MainPCs /\ main_at' \in 1 .. 5
    BY <1>1 DEF Start, Advance, StartOrder, TypeOK, MainPCs
  <2>2. /\ prod_pc' \in ProdPCs /\ running' \in BOOLEAN
        /\ cons_pc' \in ConsPCs
        /\ service' \in [Services -> ServicePCs]
    BY <1>1 DEF Start, StartProducer, StartOrchestrator, StartService, TypeOK,
                ProdPCs, ConsPCs, ServicePCs
  <2>3. UNCHANGED <<poolVars, queueVars, scan, prod_slot, frames_produced,
                    frameVars, statVars, g_shutdown>>
    BY <1>1 DEF Start
  <2> QED
    BY <2>1, <2>2, <2>3 DEF TypeOK
<1>2. CASE MainLoopExit
  BY <1>2 DEF MainLoopExit, TypeOK, MainPCs
<1>3. CASE Stop
  <2>1. /\ running' \in BOOLEAN /\ done' \in BOOLEAN
        /\ main_pc' \in MainPCs
        /\ service' \in [Services -> ServicePCs]
    BY <1>3 DEF Stop, StopProducer, StopOrchestrator, StopService, TypeOK,
                MainPCs, ServicePCs
  <2>2. UNCHANGED <<poolVars, queue, dropped_count, prod_pc, scan, prod_slot,
                    frames_produced, consVars, main_at, g_shutdown>>
    BY <1>3 DEF Stop
  <2> QED
    BY <2>1, <2>2 DEF TypeOK
<1>4. CASE NotifyAll
  BY <1>4 DEF NotifyAll, Notify, TypeOK, MainPCs, ConsPCs
<1>5. CASE Join
  BY <1>5 DEF Join, Advance, StopOrder, TypeOK, MainPCs
<1>6. CASE Signal
  BY <1>6 DEF Signal, TypeOK
<1>7. CASE \E s \in Services : ServiceExit(s)
  BY <1>7 DEF ServiceExit, TypeOK, ServicePCs
<1> QED
  BY <1>1, <1>2, <1>3, <1>4, <1>5, <1>6, <1>7 DEF Main

\* Buffers are held exactly where the code holds them, and nothing runs early.
LEMMA HeldStep ==
  ASSUME TypeInv, Next
  PROVE  SlotHeld' /\ NotYetStarted'
<1> USE DEF TypeInv, SlotHeld, NotYetStarted, Holding, poolVars, queueVars, prodVars, frameVars, statVars, consVars,
            mainVars
<1>1. CASE ProducerCheck
  BY <1>1 DEF ProducerCheck
<1>2. CASE AcquireSlot
  BY <1>2, NoneNotSlot DEF AcquireSlot, TypeOK
<1>3. CASE AcquireMiss
  BY <1>3 DEF AcquireMiss
<1>4. CASE PaintBegin
  BY <1>4 DEF PaintBegin
<1>5. CASE PaintEnd
  BY <1>5 DEF PaintEnd
<1>6. CASE Push
  BY <1>6 DEF Push
<1>7. CASE NotifyOne
  BY <1>7 DEF NotifyOne, Notify
<1>8. CASE CountFrame
  BY <1>8 DEF CountFrame
<1>9. CASE ProducerWake
  BY <1>9 DEF ProducerWake
<1>10. CASE PopFrame
  <2>1. cons_slot' \in Slots
    BY <1>10, HeadTailProperties DEF PopFrame, TypeOK
  <2> QED
    BY <1>10, <2>1, NoneNotSlot DEF PopFrame
<1>11. CASE PopNothing
  BY <1>11 DEF PopNothing
<1>12. CASE NullFrame
  BY <1>12 DEF NullFrame
<1>13. CASE Infer
  BY <1>13 DEF Infer
<1>14. CASE Dispatch
  BY <1>14 DEF Dispatch
<1>15. CASE Publish
  BY <1>15 DEF Publish
<1>16. CASE Account
  BY <1>16 DEF Account
<1>17. CASE Release
  BY <1>17 DEF Release
<1>18. CASE SpuriousWakeup
  BY <1>18 DEF SpuriousWakeup, Notify
<1>19. CASE Start
  <2>1. CASE StartProducer
    <3>1. main_at = 2
      BY <1>19, <2>1 DEF Start, StartProducer, StartOrder, TypeOK
    <3> QED
      BY <1>19, <2>1, <3>1 DEF Start, StartProducer, Advance, StartOrder
  <2>2. CASE StartOrchestrator
    <3>1. main_at = 3
      BY <1>19, <2>2 DEF Start, StartOrchestrator, StartOrder, TypeOK
    <3> QED
      BY <1>19, <2>2, <3>1 DEF Start, StartOrchestrator, Advance, StartOrder
  <2>3. CASE StartService
    <3>1. main_at \in {1, 4, 5}
      BY <1>19, <2>3 DEF Start, StartService, StartOrder, Services, TypeOK
    <3> QED
      BY <1>19, <2>3, <3>1 DEF Start, StartService, Advance, StartOrder
  <2> QED
    BY <1>19, <2>1, <2>2, <2>3 DEF Start
<1>20. CASE MainLoopExit
  BY <1>20 DEF MainLoopExit
<1>21. CASE Stop
  BY <1>21 DEF Stop, StopProducer, StopOrchestrator, StopService
<1>22. CASE NotifyAll
  BY <1>22 DEF NotifyAll, Notify
<1>23. CASE Join
  BY <1>23 DEF Join, Advance
<1>24. CASE Signal
  BY <1>24 DEF Signal
<1>25. CASE \E s \in Services : ServiceExit(s)
  BY <1>25 DEF ServiceExit
<1>26. CASE Terminated
  BY <1>26 DEF Terminated, vars
<1> QED
  BY <1>1, <1>2, <1>3, <1>4, <1>5, <1>6, <1>7, <1>8, <1>9, <1>10, <1>11, <1>12, <1>13, <1>14, <1>15, <1>16, <1>17, <1>18, <1>19, <1>20, <1>21, <1>22, <1>23, <1>24, <1>25, <1>26 DEF Next, Producer, Consumer, Main


\* Every step of the pipeline, or a stutter, keeps the type invariant.
LEMMA TypeInvStep == TypeInv /\ [Next]_vars => TypeInv'
<1> SUFFICES ASSUME TypeInv, [Next]_vars PROVE TypeInv'
  OBVIOUS
<1>1. CASE Next
  <2>1. CASE Producer
    BY <1>1, <2>1, ProducerTypeOK, HeldStep DEF TypeInv
  <2>2. CASE Consumer \/ SpuriousWakeup
    BY <1>1, <2>2, ConsumerTypeOK, HeldStep DEF TypeInv
  <2>3. CASE Signal \/ Main \/ \E s \in Services : ServiceExit(s)
    BY <1>1, <2>3, MainTypeOK, HeldStep DEF TypeInv
  <2>4. CASE Terminated
    BY <2>4 DEF Terminated, TypeInv, TypeOK, SlotHeld, NotYetStarted, vars,
                poolVars, queueVars, prodVars, frameVars, statVars, consVars,
                mainVars
  <2> QED
    BY <1>1, <2>1, <2>2, <2>3, <2>4 DEF Next
<1>2. CASE UNCHANGED vars
  BY <1>2 DEF TypeInv, TypeOK, SlotHeld, NotYetStarted, vars, poolVars,
              queueVars, prodVars, frameVars, statVars, consVars, mainVars
<1> QED
  BY <1>1, <1>2

\* It holds initially.
LEMMA TypeInvInit == Init => TypeInv
<1> SUFFICES ASSUME Init PROVE TypeInv
  OBVIOUS
<1>1. queue \in Seq(Slots) /\ published \in Seq(Message)
  BY EmptySeq DEF Init
<1>2. /\ pixels \in [Slots -> Nat] /\ scan \in Slots
      /\ service \in [Services -> ServicePCs]
  BY DEF Init, Slots, Torn, ServicePCs
<1>3. SlotHeld /\ NotYetStarted
  BY DEF Init, SlotHeld, NotYetStarted, Holding
<1>4. /\ dropped_count \in Nat /\ frames_produced \in Nat
      /\ seen \in Nat /\ crop \in Nat /\ defects \in 0 .. MaxDefects
      /\ frames_processed \in Nat /\ defects_total \in Nat
      /\ last_defect \in Nat /\ main_at \in 1 .. 5
  BY DEF Init
<1>5. /\ available \subseteq Slots
      /\ prod_slot \in Slots \cup {None} /\ cons_slot \in Slots \cup {None}
      /\ prod_pc \in ProdPCs /\ cons_pc \in ConsPCs /\ main_pc \in MainPCs
      /\ done \in BOOLEAN /\ running \in BOOLEAN /\ g_shutdown \in BOOLEAN
  BY DEF Init, ProdPCs, ConsPCs, MainPCs
<1>6. TypeOK
  BY <1>1, <1>2, <1>4, <1>5 DEF TypeOK
<1> QED
  BY <1>3, <1>6 DEF TypeInv

\* TypeOK: every variable of the pipeline keeps its type.
THEOREM TypeCorrect == Spec => []TypeOK
<1>1. Spec => []TypeInv
  BY TypeInvInit, TypeInvStep, PTL DEF Spec
<1>2. TypeInv => TypeOK
  BY DEF TypeInv
<1> QED
  BY <1>1, <1>2, PTL

-----------------------------------------------------------------------------
(* Ownership of the pool's buffers                                         *)

\* What push() does to the contents of the queue.
LEMMA AppendOccurs ==
  ASSUME NEW S, NEW q \in Seq(S), NEW e \in S
  PROVE  /\ \A s : Occurs(s, Append(q, e)) <=> Occurs(s, q) \/ s = e
         /\ Distinct(q) /\ ~Occurs(e, q) => Distinct(Append(q, e))
<1>1. /\ Append(q, e) \in Seq(S)
      /\ Len(Append(q, e)) = Len(q) + 1
      /\ \A i \in 1 .. Len(q) : Append(q, e)[i] = q[i]
      /\ Append(q, e)[Len(q) + 1] = e
  BY AppendProperties
<1>2. /\ DOMAIN q = 1 .. Len(q) /\ Len(q) \in Nat
      /\ DOMAIN Append(q, e) = 1 .. Len(q) + 1
  BY <1>1, LenProperties
<1> QED
  BY <1>1, <1>2 DEF Occurs, Distinct

\* What pop() does to them.
LEMMA TailOccurs ==
  ASSUME NEW S, NEW q \in Seq(S), q # <<>>, Distinct(q)
  PROVE  /\ Occurs(Head(q), q)
         /\ Distinct(Tail(q))
         /\ \A s : Occurs(s, Tail(q)) <=> Occurs(s, q) /\ s # Head(q)
<1>1. /\ Tail(q) \in Seq(S)
      /\ Len(Tail(q)) = Len(q) - 1
      /\ \A i \in 1 .. Len(Tail(q)) : Tail(q)[i] = q[i + 1]
  BY HeadTailProperties
<1>2. /\ DOMAIN q = 1 .. Len(q) /\ Len(q) \in Nat \ {0}
      /\ DOMAIN Tail(q) = 1 .. Len(q) - 1
      /\ Head(q) = q[1]
  BY <1>1, LenProperties, EmptySeq
<1>3. \A i \in 1 .. Len(q) - 1 : i + 1 \in 1 .. Len(q) /\ i + 1 # 1
  BY <1>2
<1>4. \A i \in 1 .. Len(q) : i = 1 \/ (i - 1 \in 1 .. Len(q) - 1 /\ (i - 1) + 1 = i)
  BY <1>2
<1>5. Distinct(Tail(q))
  BY <1>1, <1>2, <1>3 DEF Distinct
<1>6. Occurs(Head(q), q)
  BY <1>2 DEF Occurs
<1>7. ASSUME NEW s PROVE Occurs(s, Tail(q)) <=> Occurs(s, q) /\ s # Head(q)
  <2>1. ASSUME Occurs(s, Tail(q)) PROVE Occurs(s, q) /\ s # Head(q)
    BY <1>1, <1>2, <1>3, <2>1 DEF Occurs, Distinct
  <2>2. ASSUME Occurs(s, q), s # Head(q) PROVE Occurs(s, Tail(q))
    <3>1. PICK k \in 1 .. Len(q) : q[k] = s
      BY <1>2, <2>2 DEF Occurs
    <3>2. k # 1
      BY <1>2, <2>2, <3>1
    <3>3. k - 1 \in 1 .. Len(q) - 1 /\ (k - 1) + 1 = k
      BY <1>4, <3>2
    <3>4. k - 1 \in DOMAIN Tail(q) /\ Tail(q)[k - 1] = s
      BY <1>1, <1>2, <3>1, <3>3
    <3> QED
      BY <3>4 DEF Occurs
  <2> QED
    BY <2>1, <2>2
<1> QED
  BY <1>5, <1>6, <1>7

\* A buffer changes hands only in acquire, push, pop and the deleter.
LEMMA OwnershipNext ==
  ASSUME TypeInv, SlotOwnership, Next
  PROVE  SlotOwnership'
<1> USE DEF SlotOwnership, poolVars, queueVars, prodVars, frameVars, statVars, consVars,
            mainVars
<1>1. CASE ProducerCheck
  BY <1>1 DEF ProducerCheck
<1>2. CASE AcquireSlot
  <2>1. scan \in Slots /\ prod_slot \notin Slots
    BY <1>2, NoneNotSlot DEF AcquireSlot, TypeInv, TypeOK, SlotHeld
  <2> QED
    BY <1>2, <2>1 DEF AcquireSlot
<1>3. CASE AcquireMiss
  BY <1>3 DEF AcquireMiss
<1>4. CASE PaintBegin
  BY <1>4 DEF PaintBegin
<1>5. CASE PaintEnd
  BY <1>5 DEF PaintEnd
<1>6. CASE Push
  <2>1. prod_slot \in Slots
    BY <1>6 DEF Push, TypeInv, SlotHeld, TypeOK
  <2>2. ~Occurs(prod_slot, queue) /\ prod_slot # cons_slot
    BY <2>1
  <2>3. CASE QueueFull
    <3> DEFINE h == Head(queue)
               t == Tail(queue)
    <3>1. /\ queue # <<>> /\ h \in Slots /\ t \in Seq(Slots)
          /\ Distinct(t) /\ Occurs(h, queue)
          /\ \A s : Occurs(s, t) <=> Occurs(s, queue) /\ s # h
      BY <2>3, FullNotEmpty, HeadTailProperties, TailOccurs
         DEF TypeInv, TypeOK
    <3>2. /\ queue' = Append(t, prod_slot)
          /\ available' = available \cup {h}
          /\ prod_slot' = None /\ cons_slot' = cons_slot
      BY <1>6, <2>3 DEF Push
    <3>3. /\ Distinct(queue')
          /\ \A s : Occurs(s, queue') <=> Occurs(s, t) \/ s = prod_slot
      BY <2>1, <2>2, <3>1, <3>2, AppendOccurs
    <3> HIDE DEF h, t
    <3> QED
      BY <2>1, <2>2, <3>1, <3>2, <3>3, NoneNotSlot
  <2>4. CASE ~QueueFull
    <3>1. /\ queue' = Append(queue, prod_slot)
          /\ available' = available
          /\ prod_slot' = None /\ cons_slot' = cons_slot
      BY <1>6, <2>4 DEF Push
    <3>2. /\ Distinct(queue')
          /\ \A s : Occurs(s, queue') <=> Occurs(s, queue) \/ s = prod_slot
      BY <2>1, <2>2, <3>1, AppendOccurs DEF TypeInv, TypeOK
    <3> QED
      BY <2>1, <2>2, <3>1, <3>2, NoneNotSlot
  <2> QED
    BY <2>3, <2>4
<1>7. CASE NotifyOne
  BY <1>7 DEF NotifyOne
<1>8. CASE CountFrame
  BY <1>8 DEF CountFrame
<1>9. CASE ProducerWake
  BY <1>9 DEF ProducerWake
<1>10. CASE PopFrame
  <2> DEFINE h == Head(queue)
  <2>1. /\ h \in Slots /\ Occurs(h, queue)
        /\ Distinct(Tail(queue))
        /\ \A s : Occurs(s, Tail(queue)) <=> Occurs(s, queue) /\ s # h
    BY <1>10, HeadTailProperties, TailOccurs DEF PopFrame, TypeInv, TypeOK
  <2>2. /\ queue' = Tail(queue) /\ cons_slot' = h
        /\ UNCHANGED <<available, prod_slot>>
    BY <1>10 DEF PopFrame
  <2>3. cons_slot \notin Slots
    BY <1>10, NoneNotSlot DEF PopFrame, TypeInv, SlotHeld, Holding
  <2> HIDE DEF h
  <2> QED
    BY <2>1, <2>2, <2>3
<1>11. CASE PopNothing
  BY <1>11 DEF PopNothing
<1>12. CASE NullFrame
  BY <1>12 DEF NullFrame
<1>13. CASE Infer
  BY <1>13 DEF Infer
<1>14. CASE Dispatch
  BY <1>14 DEF Dispatch
<1>15. CASE Publish
  BY <1>15 DEF Publish
<1>16. CASE Account
  BY <1>16 DEF Account
<1>17. CASE Release
  <2>1. cons_slot \in Slots
    BY <1>17 DEF Release, TypeInv, TypeOK, SlotHeld, Holding
  <2> QED
    BY <1>17, <2>1, NoneNotSlot DEF Release
<1>18. CASE SpuriousWakeup
  BY <1>18 DEF SpuriousWakeup
<1>19. CASE Start
  BY <1>19 DEF Start
<1>20. CASE MainLoopExit
  BY <1>20 DEF MainLoopExit
<1>21. CASE Stop
  BY <1>21 DEF Stop
<1>22. CASE NotifyAll
  BY <1>22 DEF NotifyAll
<1>23. CASE Join
  BY <1>23 DEF Join
<1>24. CASE Signal
  BY <1>24 DEF Signal
<1>25. CASE \E s \in Services : ServiceExit(s)
  BY <1>25 DEF ServiceExit
<1>26. CASE Terminated
  BY <1>26 DEF Terminated, vars
<1> QED
  BY <1>1, <1>2, <1>3, <1>4, <1>5, <1>6, <1>7, <1>8, <1>9, <1>10, <1>11, <1>12, <1>13, <1>14, <1>15, <1>16, <1>17, <1>18, <1>19, <1>20, <1>21, <1>22, <1>23, <1>24, <1>25, <1>26 DEF Next, Producer, Consumer, Main


\* SlotOwnership: in every reachable state, for every pool and queue size, a
\* buffer is free or has exactly one owner.
THEOREM OwnershipCorrect == Spec => []SlotOwnership
<1>1. Init => SlotOwnership
  BY NoneNotSlot DEF Init, SlotOwnership, Occurs, Distinct
<1>2. TypeInv /\ SlotOwnership /\ [Next]_vars => SlotOwnership'
  <2> SUFFICES ASSUME TypeInv, SlotOwnership, [Next]_vars PROVE SlotOwnership'
    OBVIOUS
  <2>1. CASE UNCHANGED vars
    BY <2>1 DEF SlotOwnership, vars, poolVars, queueVars, prodVars, consVars,
                frameVars
  <2> QED
    BY <2>1, OwnershipNext
<1> QED
  BY <1>1, <1>2, TypeInvInit, TypeInvStep, PTL DEF Spec

-----------------------------------------------------------------------------
(* The condition variable                                                  *)

\* main() starts a thread that does not run yet.
LEMMA StartFromOff ==
  ASSUME TypeOK, NotYetStarted, Start
  PROVE  /\ prod_pc' = prod_pc \/ (prod_pc = "off" /\ prod_pc' = "check")
         /\ cons_pc' = cons_pc \/ (cons_pc = "off" /\ cons_pc' = "pop")
<1>0. main_at \in {1, 2, 3, 4, 5}
  BY DEF TypeOK
<1>1. CASE StartProducer
  <2>1. main_at = 2
    BY <1>0, <1>1 DEF StartProducer, StartOrder
  <2> QED
    BY <1>1, <2>1 DEF Start, StartProducer, NotYetStarted
<1>2. CASE StartOrchestrator
  <2>1. main_at = 3
    BY <1>0, <1>2 DEF StartOrchestrator, StartOrder
  <2>2. main_pc = "starting"
    BY DEF Start
  <2>3. cons_pc = "off"
    BY <2>1, <2>2 DEF NotYetStarted
  <2> QED
    BY <1>2, <2>3 DEF StartOrchestrator
<1>3. CASE StartService
  BY <1>3 DEF StartService
<1> QED
  BY <1>1, <1>2, <1>3 DEF Start

\* Whoever makes the predicate of wait() true goes on to notify.
LEMMA NoLostWakeupNext ==
  ASSUME TypeInv, NoLostWakeup, Next
  PROVE  NoLostWakeup'
<1> USE DEF NoLostWakeup, poolVars, queueVars, prodVars, frameVars, statVars, consVars,
            mainVars
<1>1. CASE ProducerCheck
  BY <1>1 DEF ProducerCheck
<1>2. CASE AcquireSlot
  BY <1>2 DEF AcquireSlot
<1>3. CASE AcquireMiss
  BY <1>3 DEF AcquireMiss
<1>4. CASE PaintBegin
  BY <1>4 DEF PaintBegin
<1>5. CASE PaintEnd
  BY <1>5 DEF PaintEnd
<1>6. CASE Push
  BY <1>6 DEF Push
<1>7. CASE NotifyOne
  BY <1>7 DEF NotifyOne, Notify
<1>8. CASE CountFrame
  BY <1>8 DEF CountFrame
<1>9. CASE ProducerWake
  BY <1>9 DEF ProducerWake
<1>10. CASE PopFrame
  BY <1>10 DEF PopFrame
<1>11. CASE PopNothing
  BY <1>11 DEF PopNothing
<1>12. CASE NullFrame
  BY <1>12 DEF NullFrame
<1>13. CASE Infer
  BY <1>13 DEF Infer
<1>14. CASE Dispatch
  BY <1>14 DEF Dispatch
<1>15. CASE Publish
  BY <1>15 DEF Publish
<1>16. CASE Account
  BY <1>16 DEF Account
<1>17. CASE Release
  BY <1>17 DEF Release
<1>18. CASE SpuriousWakeup
  BY <1>18 DEF SpuriousWakeup, Notify
<1>19. CASE Start
  <2>1. /\ UNCHANGED <<queue, done>> /\ main_pc = "starting"
        /\ prod_pc' = prod_pc \/ (prod_pc = "off" /\ prod_pc' = "check")
        /\ cons_pc' = cons_pc \/ (cons_pc = "off" /\ cons_pc' = "pop")
    BY <1>19, StartFromOff DEF Start, TypeInv
  <2> QED
    BY <2>1
<1>20. CASE MainLoopExit
  BY <1>20 DEF MainLoopExit
<1>21. CASE Stop
  BY <1>21 DEF Stop, StopProducer, StopOrchestrator, StopService
<1>22. CASE NotifyAll
  BY <1>22 DEF NotifyAll, Notify
<1>23. CASE Join
  BY <1>23 DEF Join, Advance
<1>24. CASE Signal
  BY <1>24 DEF Signal
<1>25. CASE \E s \in Services : ServiceExit(s)
  BY <1>25 DEF ServiceExit
<1>26. CASE Terminated
  BY <1>26 DEF Terminated, vars
<1> QED
  BY <1>1, <1>2, <1>3, <1>4, <1>5, <1>6, <1>7, <1>8, <1>9, <1>10, <1>11, <1>12, <1>13, <1>14, <1>15, <1>16, <1>17, <1>18, <1>19, <1>20, <1>21, <1>22, <1>23, <1>24, <1>25, <1>26 DEF Next, Producer, Consumer, Main

\* NoLostWakeup: the consumer never sleeps while there is a frame or a shutdown
\* that nobody is about to tell it of.
THEOREM WakeupCorrect == Spec => []NoLostWakeup
<1>1. Init => NoLostWakeup
  BY DEF Init, NoLostWakeup
<1>2. TypeInv /\ NoLostWakeup /\ [Next]_vars => NoLostWakeup'
  <2> SUFFICES ASSUME TypeInv, NoLostWakeup, [Next]_vars PROVE NoLostWakeup'
    OBVIOUS
  <2>1. CASE UNCHANGED vars
    BY <2>1 DEF NoLostWakeup, vars, poolVars, queueVars, prodVars, consVars,
                frameVars, statVars, mainVars
  <2> QED
    BY <2>1, NoLostWakeupNext
<1> QED
  BY <1>1, <1>2, TypeInvInit, TypeInvStep, PTL DEF Spec

-----------------------------------------------------------------------------
(* Accounting and back-pressure                                            *)

\* Every step moves a frame from one term of the sum to another.
LEMMA AccountingNext ==
  ASSUME TypeInv, FrameAccounting, Next
  PROVE  FrameAccounting'
<1>0. /\ Len(queue) \in Nat /\ dropped_count \in Nat
      /\ frames_produced \in Nat /\ frames_processed \in Nat
  BY LenProperties DEF TypeInv, TypeOK
<1> USE <1>0
<1> USE DEF FrameAccounting, Pushed, InHand, Holding, poolVars, queueVars, prodVars, frameVars, statVars, consVars,
            mainVars
<1>1. CASE ProducerCheck
  BY <1>1 DEF ProducerCheck
<1>2. CASE AcquireSlot
  BY <1>2 DEF AcquireSlot
<1>3. CASE AcquireMiss
  BY <1>3 DEF AcquireMiss
<1>4. CASE PaintBegin
  BY <1>4 DEF PaintBegin
<1>5. CASE PaintEnd
  BY <1>5 DEF PaintEnd
<1>6. CASE Push
  <2>1. prod_slot \in Slots
    BY <1>6 DEF Push, TypeInv, SlotHeld, TypeOK
  <2>2. /\ prod_pc = "push" /\ prod_pc' = "notify"
        /\ UNCHANGED <<frames_produced, frames_processed, cons_pc>>
    BY <1>6 DEF Push
  <2>3. /\ Len(queue') \in Nat /\ dropped_count' \in Nat
        /\ Len(queue') + dropped_count' = Len(queue) + dropped_count + 1
    <3>1. CASE QueueFull
      <4>1. queue # <<>> /\ Tail(queue) \in Seq(Slots)
            /\ Len(Tail(queue)) = Len(queue) - 1
        BY <3>1, FullNotEmpty, HeadTailProperties DEF TypeInv, TypeOK
      <4>2. Len(Append(Tail(queue), prod_slot)) = Len(Tail(queue)) + 1
        BY <2>1, <4>1, AppendProperties
      <4>3. /\ queue' = Append(Tail(queue), prod_slot)
            /\ dropped_count' = dropped_count + 1
        BY <1>6, <3>1 DEF Push
      <4>4. Len(queue') = Len(queue)
        BY <4>1, <4>2, <4>3
      <4>5. dropped_count' = dropped_count + 1
        BY <4>3
      <4> QED
        BY <4>4, <4>5
    <3>2. CASE ~QueueFull
      <4>1. Len(Append(queue, prod_slot)) = Len(queue) + 1
        BY <2>1, AppendProperties DEF TypeInv, TypeOK
      <4>2. /\ queue' = Append(queue, prod_slot)
            /\ dropped_count' = dropped_count
        BY <1>6, <3>2 DEF Push
      <4>3. Len(queue') = Len(queue) + 1
        BY <4>1, <4>2
      <4>4. dropped_count' = dropped_count
        BY <4>2
      <4> QED
        BY <4>3, <4>4
    <3> QED
      BY <3>1, <3>2
  <2> QED
    BY <2>2, <2>3
<1>7. CASE NotifyOne
  BY <1>7 DEF NotifyOne, Notify
<1>8. CASE CountFrame
  BY <1>8 DEF CountFrame
<1>9. CASE ProducerWake
  BY <1>9 DEF ProducerWake
<1>10. CASE PopFrame
  <2>1. Len(queue') = Len(queue) - 1
    BY <1>10, HeadTailProperties DEF PopFrame, TypeInv, TypeOK
  <2> QED
    BY <1>10, <2>1 DEF PopFrame
<1>11. CASE PopNothing
  BY <1>11 DEF PopNothing
<1>12. CASE NullFrame
  BY <1>12 DEF NullFrame
<1>13. CASE Infer
  BY <1>13 DEF Infer
<1>14. CASE Dispatch
  BY <1>14 DEF Dispatch
<1>15. CASE Publish
  BY <1>15 DEF Publish
<1>16. CASE Account
  BY <1>16 DEF Account
<1>17. CASE Release
  BY <1>17 DEF Release
<1>18. CASE SpuriousWakeup
  BY <1>18 DEF SpuriousWakeup, Notify
<1>19. CASE Start
  <2>1. /\ UNCHANGED <<frames_produced, frames_processed, queue, dropped_count>>
        /\ prod_pc' = prod_pc \/ (prod_pc = "off" /\ prod_pc' = "check")
        /\ cons_pc' = cons_pc \/ (cons_pc = "off" /\ cons_pc' = "pop")
    BY <1>19, StartFromOff DEF Start, TypeInv
  <2> QED
    BY <2>1
<1>20. CASE MainLoopExit
  BY <1>20 DEF MainLoopExit
<1>21. CASE Stop
  BY <1>21 DEF Stop
<1>22. CASE NotifyAll
  BY <1>22 DEF NotifyAll, Notify
<1>23. CASE Join
  BY <1>23 DEF Join, Advance
<1>24. CASE Signal
  BY <1>24 DEF Signal
<1>25. CASE \E s \in Services : ServiceExit(s)
  BY <1>25 DEF ServiceExit
<1>26. CASE Terminated
  BY <1>26 DEF Terminated, vars
<1> QED
  BY <1>1, <1>2, <1>3, <1>4, <1>5, <1>6, <1>7, <1>8, <1>9, <1>10, <1>11, <1>12, <1>13, <1>14, <1>15, <1>16, <1>17, <1>18, <1>19, <1>20, <1>21, <1>22, <1>23, <1>24, <1>25, <1>26 DEF Next, Producer, Consumer, Main

\* FrameAccounting: frames_processed, dropped_count and the queue's depth always
\* account for every frame pushed.
THEOREM AccountingCorrect == Spec => []FrameAccounting
<1>1. Init => FrameAccounting
  BY EmptySeq DEF Init, FrameAccounting, Pushed, InHand, Holding
<1>2. TypeInv /\ FrameAccounting /\ [Next]_vars => FrameAccounting'
  <2> SUFFICES ASSUME TypeInv, FrameAccounting, [Next]_vars PROVE FrameAccounting'
    OBVIOUS
  <2>1. CASE UNCHANGED vars
    BY <2>1 DEF FrameAccounting, Pushed, InHand, vars, poolVars, queueVars, prodVars, consVars,
                frameVars, statVars, mainVars
  <2> QED
    BY <2>1, AccountingNext
<1> QED
  BY <1>1, <1>2, TypeInvInit, TypeInvStep, PTL DEF Spec

\* While the producer holds a buffer, the queue holds fewer than the pool has.
LEMMA QueueShorterThanPool ==
  ASSUME TypeInv, SlotOwnership, prod_pc = "push"
  PROVE  Len(queue) < PoolSize
<1> DEFINE Others == Slots \ {prod_slot}
<1>1. prod_slot \in Slots
  BY DEF TypeInv, SlotHeld, TypeOK
<1>2. IsFiniteSet(Others) /\ Cardinality(Others) = PoolSize - 1
  <2>1. IsFiniteSet(Slots) /\ Cardinality(Slots) = PoolSize
    BY FS_Interval DEF Slots
  <2> QED
    BY <1>1, <2>1, FS_RemoveElement
<1>3. /\ Len(queue) \in Nat
      /\ queue \in [1 .. Len(queue) -> Slots]
      /\ DOMAIN queue = 1 .. Len(queue)
  BY LenProperties DEF TypeInv, TypeOK
<1>4. ~Occurs(prod_slot, queue) /\ Distinct(queue)
  BY <1>1 DEF SlotOwnership
<1>5. queue \in [1 .. Len(queue) -> Others]
  BY <1>3, <1>4 DEF Occurs
<1>6. IsFiniteSet(1 .. Len(queue)) /\ Cardinality(1 .. Len(queue)) = Len(queue)
  BY <1>3, FS_Interval
<1>7. ASSUME Len(queue) >= PoolSize PROVE FALSE
  <2>1. Cardinality(Others) < Cardinality(1 .. Len(queue))
    BY <1>2, <1>3, <1>6, <1>7
  <2>2. \E x, y \in 1 .. Len(queue) : x # y /\ queue[x] = queue[y]
    BY <1>2, <1>5, <1>6, <2>1, FS_PigeonHole
  <2> QED
    BY <1>3, <1>4, <2>2 DEF Distinct
<1> QED
  BY <1>3, <1>7

\* Only push() counts a drop, and only at the bound.
LEMMA NoDropNext ==
  ASSUME TypeInv, SlotOwnership, NoDropWhenPoolFits, Next
  PROVE  NoDropWhenPoolFits'
<1> USE DEF NoDropWhenPoolFits, poolVars, queueVars, prodVars, frameVars, statVars, consVars,
            mainVars
<1>1. CASE ProducerCheck
  BY <1>1 DEF ProducerCheck
<1>2. CASE AcquireSlot
  BY <1>2 DEF AcquireSlot
<1>3. CASE AcquireMiss
  BY <1>3 DEF AcquireMiss
<1>4. CASE PaintBegin
  BY <1>4 DEF PaintBegin
<1>5. CASE PaintEnd
  BY <1>5 DEF PaintEnd
<1>6. CASE Push
  <2>1. PoolSize <= MaxSize => ~QueueFull
    BY <1>6, QueueShorterThanPool, LenProperties
       DEF Push, QueueFull, TypeInv, TypeOK
  <2> QED
    BY <1>6, <2>1 DEF Push
<1>7. CASE NotifyOne
  BY <1>7 DEF NotifyOne
<1>8. CASE CountFrame
  BY <1>8 DEF CountFrame
<1>9. CASE ProducerWake
  BY <1>9 DEF ProducerWake
<1>10. CASE PopFrame
  BY <1>10 DEF PopFrame
<1>11. CASE PopNothing
  BY <1>11 DEF PopNothing
<1>12. CASE NullFrame
  BY <1>12 DEF NullFrame
<1>13. CASE Infer
  BY <1>13 DEF Infer
<1>14. CASE Dispatch
  BY <1>14 DEF Dispatch
<1>15. CASE Publish
  BY <1>15 DEF Publish
<1>16. CASE Account
  BY <1>16 DEF Account
<1>17. CASE Release
  BY <1>17 DEF Release
<1>18. CASE SpuriousWakeup
  BY <1>18 DEF SpuriousWakeup
<1>19. CASE Start
  BY <1>19 DEF Start
<1>20. CASE MainLoopExit
  BY <1>20 DEF MainLoopExit
<1>21. CASE Stop
  BY <1>21 DEF Stop
<1>22. CASE NotifyAll
  BY <1>22 DEF NotifyAll
<1>23. CASE Join
  BY <1>23 DEF Join
<1>24. CASE Signal
  BY <1>24 DEF Signal
<1>25. CASE \E s \in Services : ServiceExit(s)
  BY <1>25 DEF ServiceExit
<1>26. CASE Terminated
  BY <1>26 DEF Terminated, vars
<1> QED
  BY <1>1, <1>2, <1>3, <1>4, <1>5, <1>6, <1>7, <1>8, <1>9, <1>10, <1>11, <1>12, <1>13, <1>14, <1>15, <1>16, <1>17, <1>18, <1>19, <1>20, <1>21, <1>22, <1>23, <1>24, <1>25, <1>26 DEF Next, Producer, Consumer, Main

\* NoDropWhenPoolFits: a queue at least as long as the pool drops nothing.
THEOREM NoDropCorrect == Spec => []NoDropWhenPoolFits
<1>1. Init => NoDropWhenPoolFits
  BY DEF Init, NoDropWhenPoolFits
<1>2. TypeInv /\ SlotOwnership /\ NoDropWhenPoolFits /\ [Next]_vars => NoDropWhenPoolFits'
  <2> SUFFICES ASSUME TypeInv, SlotOwnership, NoDropWhenPoolFits, [Next]_vars PROVE NoDropWhenPoolFits'
    OBVIOUS
  <2>1. CASE UNCHANGED vars
    BY <2>1 DEF NoDropWhenPoolFits, vars, poolVars, queueVars, prodVars, consVars,
                frameVars, statVars, mainVars
  <2> QED
    BY <2>1, NoDropNext
<1> QED
  BY <1>1, <1>2, TypeInvInit, TypeInvStep, OwnershipCorrect, PTL DEF Spec
-----------------------------------------------------------------------------
(* Frames and messages                                                     *)

Reading == {"infer", "dispatch", "publish"}

\* The images in the queue, in the threads' hands and in the messages are those
\* of the frames pushed, in the order of their capture.
Images ==
  /\ \A k \in DOMAIN queue : pixels[queue[k]] # Torn /\ pixels[queue[k]] <= Pushed
  /\ \A j, k \in DOMAIN queue : j < k => pixels[queue[j]] < pixels[queue[k]]
  /\ prod_pc = "push" => pixels[prod_slot] = frames_produced + 1
  /\ \A m \in DOMAIN published :
       /\ published[m].frame <= Pushed
       /\ \A k \in DOMAIN queue : published[m].frame < pixels[queue[k]]

\* The image that the consumer is reading, and what it has read of it.
ImageRead ==
  /\ cons_pc \in Reading =>
       /\ pixels[cons_slot] # Torn /\ pixels[cons_slot] <= Pushed
       /\ \A k \in DOMAIN queue : pixels[cons_slot] < pixels[queue[k]]
       /\ \A m \in DOMAIN published : published[m].frame < pixels[cons_slot]
  /\ cons_pc \in {"dispatch", "publish"} => seen = pixels[cons_slot]
  /\ cons_pc = "publish" => crop = pixels[cons_slot]

FrameInv == Images /\ ImageRead /\ MessagesFaithful

\* Images, buffers and counters are numbers.
LEMMA FrameNumbers ==
  ASSUME TypeInv
  PROVE  /\ Pushed \in Nat /\ frames_produced \in Nat /\ Torn \in Nat
         /\ queue \in Seq(Slots) /\ Len(queue) \in Nat /\ DOMAIN queue = 1 .. Len(queue)
         /\ \A k \in DOMAIN queue : queue[k] \in Slots /\ pixels[queue[k]] \in Nat
         /\ \A s \in Slots : pixels[s] \in Nat
         /\ published \in Seq(Message) /\ Len(published) \in Nat
         /\ DOMAIN published = 1 .. Len(published)
         /\ \A m \in DOMAIN published : published[m].frame \in Nat
<1>1. queue \in Seq(Slots) /\ published \in Seq(Message) /\ frames_produced \in Nat
  BY DEF TypeInv, TypeOK
<1>2. /\ Len(queue) \in Nat /\ DOMAIN queue = 1 .. Len(queue)
      /\ \A k \in DOMAIN queue : queue[k] \in Slots
  BY <1>1, LenProperties
<1>3. /\ Len(published) \in Nat /\ DOMAIN published = 1 .. Len(published)
      /\ \A m \in DOMAIN published : published[m] \in Message
  BY <1>1, LenProperties
<1>4. \A s \in Slots : pixels[s] \in Nat
  BY DEF TypeInv, TypeOK
<1> QED
  BY <1>1, <1>2, <1>3, <1>4 DEF Pushed, Torn, Message

\* Painting a buffer that only the producer holds.
LEMMA PaintFrames ==
  ASSUME TypeInv, SlotOwnership, FrameInv, PaintBegin \/ PaintEnd
  PROVE  FrameInv'
<1> USE DEF FrameInv, queueVars, consVars, frameVars, statVars, mainVars
<1>1. /\ UNCHANGED <<queue, published, cons_pc, cons_slot, seen, crop, frames_produced,
                     prod_slot>>
      /\ prod_pc \in {"paint", "painting"} /\ prod_pc' \in {"painting", "push"}
  BY DEF PaintBegin, PaintEnd
<1>2. prod_slot \in Slots /\ Pushed' = Pushed
  BY <1>1 DEF TypeInv, SlotHeld, TypeOK, Pushed
<1>3. \A s \in Slots : s # prod_slot => pixels'[s] = pixels[s]
  BY <1>2 DEF PaintBegin, PaintEnd, TypeInv, TypeOK
<1>4. \A k \in DOMAIN queue : pixels'[queue[k]] = pixels[queue[k]]
  BY <1>2, <1>3, FrameNumbers DEF SlotOwnership, Occurs
<1>5. cons_pc \in Reading => pixels'[cons_slot] = pixels[cons_slot]
  BY <1>2, <1>3 DEF SlotOwnership, TypeInv, SlotHeld, TypeOK, Holding, Reading
<1>6. prod_pc' = "push" => pixels'[prod_slot] = frames_produced + 1
  BY <1>2 DEF PaintBegin, PaintEnd, TypeInv, TypeOK
<1>7. Images'
  BY <1>1, <1>2, <1>4, <1>6 DEF Images
<1>8. ImageRead'
  <2>1. cons_pc \in {"dispatch", "publish"} => cons_pc \in Reading
    BY DEF Reading
  <2> QED
    BY <1>1, <1>2, <1>4, <1>5, <2>1 DEF ImageRead
<1>9. MessagesFaithful'
  BY <1>1 DEF MessagesFaithful
<1> QED
  BY <1>7, <1>8, <1>9

\* A push adds the newest frame and may take the oldest away.
LEMMA PushFrames ==
  ASSUME TypeInv, SlotOwnership, FrameInv, Push
  PROVE  FrameInv'
<1> USE DEF FrameInv, consVars, frameVars, statVars
<1> DEFINE kept == IF QueueFull THEN Tail(queue) ELSE queue
<1>1. /\ queue' = Append(kept, prod_slot) /\ prod_pc = "push" /\ prod_pc' = "notify"
      /\ UNCHANGED <<pixels, published, cons_pc, cons_slot, seen, crop, frames_produced>>
  BY DEF Push
<1>2. /\ kept \in Seq(Slots)
      /\ \A k \in DOMAIN kept : \E i \in DOMAIN queue : kept[k] = queue[i]
      /\ \A j, k \in DOMAIN kept : j < k => pixels[kept[j]] < pixels[kept[k]]
  <2>1. CASE QueueFull
    <3>1. queue # <<>> /\ queue \in Seq(Slots)
      BY <2>1, FullNotEmpty, FrameNumbers DEF TypeInv
    <3>2. /\ Tail(queue) \in Seq(Slots) /\ Len(Tail(queue)) = Len(queue) - 1
          /\ \A k \in 1 .. Len(Tail(queue)) : Tail(queue)[k] = queue[k + 1]
      BY <3>1, HeadTailProperties
    <3>3. DOMAIN Tail(queue) = 1 .. Len(queue) - 1
      BY <3>2, LenProperties
    <3>4. \A k \in DOMAIN Tail(queue) : k + 1 \in DOMAIN queue /\ Tail(queue)[k] = queue[k + 1]
      BY <3>2, <3>3, FrameNumbers
    <3>5. \A j, k \in DOMAIN Tail(queue) : j < k => j + 1 < k + 1
      BY <3>3, FrameNumbers
    <3> QED
      BY <2>1, <3>2, <3>4, <3>5 DEF Images
  <2>2. CASE ~QueueFull
    BY <2>2, FrameNumbers DEF Images
  <2> QED
    BY <2>1, <2>2
<1>3. prod_slot \in Slots
  BY <1>1 DEF TypeInv, SlotHeld, TypeOK
<1> HIDE DEF kept
<1>4. /\ DOMAIN kept = 1 .. Len(kept) /\ Len(kept) \in Nat
      /\ \A k \in DOMAIN kept : k < Len(kept) + 1
  BY <1>2, LenProperties
<1>5. \A k \in DOMAIN queue' : \/ k \in DOMAIN kept /\ queue'[k] = kept[k]
                               \/ k = Len(kept) + 1 /\ queue'[k] = prod_slot
  <2>1. /\ Len(queue') = Len(kept) + 1 /\ queue' \in Seq(Slots)
        /\ \A k \in 1 .. Len(kept) : queue'[k] = kept[k]
        /\ queue'[Len(kept) + 1] = prod_slot
    BY <1>1, <1>2, <1>3, AppendProperties
  <2>2. DOMAIN queue' = 1 .. Len(kept) + 1
    BY <2>1, LenProperties
  <2> QED
    BY <1>4, <2>1, <2>2
<1>6. /\ Pushed = frames_produced /\ Pushed' = frames_produced + 1
      /\ pixels[prod_slot] = Pushed' /\ Pushed \in Nat /\ Pushed' > Pushed
      /\ pixels[prod_slot] # Torn
  BY <1>1, FrameNumbers DEF Pushed, Images, Torn
<1>7. \A x \in Nat : x <= Pushed => x < pixels[prod_slot] /\ x <= Pushed'
  BY <1>6
<1>8. \A k \in DOMAIN kept : /\ pixels[kept[k]] # Torn
                             /\ pixels[kept[k]] < pixels[prod_slot]
                             /\ pixels[kept[k]] <= Pushed'
  BY <1>2, <1>7, FrameNumbers DEF Images
<1>9. Images'
  <2>1. \A k \in DOMAIN queue' : pixels[queue'[k]] # Torn /\ pixels[queue'[k]] <= Pushed'
    BY <1>5, <1>6, <1>8
  <2>2. \A j, k \in DOMAIN queue' : j < k => pixels[queue'[j]] < pixels[queue'[k]]
    BY <1>2, <1>4, <1>5, <1>8
  <2>3. \A m \in DOMAIN published :
          /\ published[m].frame <= Pushed'
          /\ \A k \in DOMAIN queue' : published[m].frame < pixels[queue'[k]]
    <3> SUFFICES ASSUME NEW m \in DOMAIN published
                 PROVE  /\ published[m].frame <= Pushed'
                        /\ \A k \in DOMAIN queue' : published[m].frame < pixels[queue'[k]]
      OBVIOUS
    <3>1. published[m].frame <= Pushed' /\ published[m].frame < pixels[prod_slot]
      BY <1>7, FrameNumbers DEF Images
    <3>2. \A k \in DOMAIN kept : published[m].frame < pixels[kept[k]]
      BY <1>2 DEF Images
    <3> QED
      BY <1>5, <3>1, <3>2
  <2> QED
    BY <1>1, <2>1, <2>2, <2>3 DEF Images
<1>10. ImageRead'
  <2> SUFFICES ASSUME cons_pc \in Reading
               PROVE  /\ pixels[cons_slot] <= Pushed'
                      /\ \A k \in DOMAIN queue' : pixels[cons_slot] < pixels[queue'[k]]
    BY <1>1 DEF ImageRead
  <2>1. cons_slot \in Slots /\ pixels[cons_slot] \in Nat
    BY FrameNumbers DEF TypeInv, SlotHeld, TypeOK, Holding, Reading
  <2>2. pixels[cons_slot] <= Pushed' /\ pixels[cons_slot] < pixels[prod_slot]
    BY <1>7, <2>1 DEF ImageRead
  <2>3. \A k \in DOMAIN kept : pixels[cons_slot] < pixels[kept[k]]
    BY <1>2 DEF ImageRead
  <2> QED
    BY <1>5, <2>2, <2>3
<1> QED
  BY <1>1, <1>9, <1>10 DEF MessagesFaithful

\* A pop takes the oldest frame, which is younger than all that was published.
LEMMA PopFrames ==
  ASSUME TypeInv, FrameInv, PopFrame
  PROVE  FrameInv'
<1> USE DEF FrameInv, poolVars, prodVars, statVars
<1>1. /\ queue # <<>> /\ queue' = Tail(queue) /\ cons_slot' = Head(queue)
      /\ cons_pc' = "infer"
      /\ UNCHANGED <<pixels, published, frames_produced, prod_pc, prod_slot>>
  BY DEF PopFrame
<1>2. queue \in Seq(Slots) /\ Len(queue) \in Nat /\ DOMAIN queue = 1 .. Len(queue)
  BY FrameNumbers
<1>3. /\ queue' \in Seq(Slots) /\ Len(queue') = Len(queue) - 1
      /\ \A k \in 1 .. Len(queue') : queue'[k] = queue[k + 1]
  BY <1>1, <1>2, HeadTailProperties
<1>4. 1 \in DOMAIN queue /\ cons_slot' = queue[1]
  BY <1>1, <1>2, EmptySeq
<1>5. DOMAIN queue' = 1 .. Len(queue) - 1
  BY <1>3, LenProperties
<1>6. \A k \in DOMAIN queue' : k + 1 \in DOMAIN queue /\ 1 < k + 1 /\ queue'[k] = queue[k + 1]
  BY <1>2, <1>3, <1>5
<1>7. \A j, k \in DOMAIN queue' : j < k => j + 1 < k + 1
  BY <1>2, <1>5
<1>8. Pushed' = Pushed
  BY <1>1 DEF Pushed
<1>9. Images'
  BY <1>1, <1>6, <1>7, <1>8 DEF Images
<1>10. ImageRead'
  BY <1>1, <1>4, <1>6, <1>8 DEF Images, ImageRead
<1> QED
  BY <1>1, <1>9, <1>10 DEF MessagesFaithful

\* A message describes the one image that the consumer has read twice.
LEMMA PublishFrames ==
  ASSUME TypeInv, FrameInv, Publish
  PROVE  FrameInv'
<1> USE DEF FrameInv, poolVars, queueVars, prodVars, frameVars
<1> DEFINE msg == [frame |-> seen, crop |-> crop]
<1>1. /\ cons_pc = "publish" /\ cons_pc' = "account"
      /\ published' = Append(published, msg) \/ UNCHANGED published
      /\ UNCHANGED <<pixels, queue, frames_produced, prod_pc, prod_slot>>
  BY DEF Publish
<1>2. /\ seen = pixels[cons_slot] /\ crop = seen /\ seen # Torn /\ seen <= Pushed
      /\ \A k \in DOMAIN queue : seen < pixels[queue[k]]
      /\ \A m \in DOMAIN published : published[m].frame < seen
  BY <1>1 DEF ImageRead, Reading
<1>3. Pushed' = Pushed /\ ImageRead'
  BY <1>1 DEF Pushed, ImageRead, Reading
<1>4. CASE UNCHANGED published
  BY <1>1, <1>3, <1>4 DEF Images, MessagesFaithful
<1>5. CASE published' = Append(published, msg)
  <2>1. msg \in Message /\ msg.frame = seen /\ msg.crop = seen
    BY <1>2 DEF Message, TypeInv, TypeOK
  <2> HIDE DEF msg
  <2>2. /\ published \in Seq(Message) /\ Len(published) \in Nat
        /\ DOMAIN published = 1 .. Len(published)
    BY FrameNumbers
  <2>3. /\ published' \in Seq(Message) /\ Len(published') = Len(published) + 1
        /\ \A m \in 1 .. Len(published) : published'[m] = published[m]
        /\ published'[Len(published) + 1] = msg
    BY <1>5, <2>1, <2>2, AppendProperties
  <2>4. DOMAIN published' = 1 .. Len(published) + 1
    BY <2>3, LenProperties
  <2>5. \A m \in DOMAIN published' :
          \/ m \in DOMAIN published /\ published'[m] = published[m]
          \/ m = Len(published) + 1 /\ published'[m] = msg
    BY <2>2, <2>3, <2>4
  <2>6. \A m \in DOMAIN published : m < Len(published) + 1
    BY <2>2
  <2>7. Images'
    BY <1>1, <1>2, <1>3, <2>1, <2>5 DEF Images
  <2>8. MessagesFaithful'
    <3>1. \A m \in DOMAIN published' :
            published'[m].frame # Torn /\ published'[m].crop = published'[m].frame
      BY <1>2, <2>1, <2>5 DEF MessagesFaithful
    <3>2. \A j, m \in DOMAIN published' :
            j < m => published'[j].frame < published'[m].frame
      BY <1>2, <2>1, <2>2, <2>5, <2>6 DEF MessagesFaithful
    <3> QED
      BY <3>1, <3>2 DEF MessagesFaithful
  <2> QED
    BY <1>3, <2>7, <2>8
<1> QED
  BY <1>1, <1>4, <1>5

\* The steps that move no frame.
LEMMA OtherFrames ==
  ASSUME FrameInv, Pushed' = Pushed,
         UNCHANGED <<pixels, queue, published, cons_slot, frames_produced>> \/
           (UNCHANGED <<pixels, queue, published>> /\ cons_pc' \notin Reading),
         prod_pc' = "push" => prod_pc = "push" /\ UNCHANGED <<prod_slot, frames_produced>>,
         cons_pc' \in Reading => cons_pc \in Reading,
         cons_pc' \in {"dispatch", "publish"} => seen' = pixels[cons_slot'],
         cons_pc' = "publish" => crop' = pixels[cons_slot']
  PROVE  FrameInv'
<1> USE DEF FrameInv
<1>1. Images'
  BY DEF Images
<1>2. ImageRead'
  BY DEF ImageRead, Reading
<1> QED
  BY <1>1, <1>2 DEF MessagesFaithful

\* Every step keeps the frames in order.
LEMMA FrameNext ==
  ASSUME TypeInv, SlotOwnership, FrameInv, Next
  PROVE  FrameInv'
<1> USE DEF poolVars, queueVars, prodVars, frameVars, statVars, consVars, mainVars
<1>1. CASE ProducerCheck \/ AcquireSlot \/ AcquireMiss \/ NotifyOne \/ CountFrame
             \/ ProducerWake
  <2>1. /\ UNCHANGED <<pixels, queue, published, cons_slot, seen, crop>>
        /\ prod_pc' # "push"
        /\ cons_pc' = cons_pc \/ (cons_pc' = "pop" /\ cons_pc = "waiting")
    BY <1>1 DEF ProducerCheck, AcquireSlot, AcquireMiss, NotifyOne, CountFrame,
      ProducerWake, Notify
  <2>2. Pushed' = Pushed
    BY <1>1 DEF ProducerCheck, AcquireSlot, AcquireMiss, NotifyOne, CountFrame,
      ProducerWake, Pushed, TypeInv, TypeOK
  <2>3. Images'
    BY <2>1, <2>2 DEF FrameInv, Images
  <2>4. ImageRead'
    BY <2>1, <2>2 DEF FrameInv, ImageRead, Reading
  <2> QED
    BY <2>1, <2>3, <2>4 DEF FrameInv, MessagesFaithful
<1>2. CASE PaintBegin \/ PaintEnd
  BY <1>2, PaintFrames
<1>3. CASE Push
  BY <1>3, PushFrames
<1>4. CASE PopFrame
  BY <1>4, PopFrames
<1>5. CASE Publish
  BY <1>5, PublishFrames
<1>6. CASE Infer \/ Dispatch
  <2>1. /\ UNCHANGED <<pixels, queue, published, cons_slot, frames_produced, prod_pc,
                       prod_slot>>
        /\ cons_pc \in Reading
        /\ \/ cons_pc' = "dispatch" /\ seen' = pixels[cons_slot]
           \/ /\ cons_pc = "dispatch" /\ cons_pc' = "publish"
              /\ seen' = seen /\ crop' = pixels[cons_slot]
    BY <1>6 DEF Infer, Dispatch, Reading
  <2>2. Pushed' = Pushed
    BY <2>1 DEF Pushed
  <2>3. cons_pc = "dispatch" => seen = pixels[cons_slot]
    BY DEF FrameInv, ImageRead
  <2> QED
    BY <2>1, <2>2, <2>3, OtherFrames
<1>7. CASE PopNothing \/ NullFrame \/ Account \/ Release \/ SpuriousWakeup
  <2>1. /\ UNCHANGED <<pixels, queue, published, frames_produced, prod_pc, prod_slot>>
        /\ cons_pc' \notin Reading
    BY <1>7 DEF PopNothing, NullFrame, Account, Release, SpuriousWakeup, Notify, Reading
  <2>2. Pushed' = Pushed
    BY <2>1 DEF Pushed
  <2> QED
    BY <2>1, <2>2, OtherFrames DEF Reading
<1>8. CASE Start
  <2>1. /\ UNCHANGED <<pixels, queue, published, cons_slot, frames_produced, prod_slot,
                       seen, crop>>
        /\ prod_pc' = prod_pc \/ (prod_pc = "off" /\ prod_pc' = "check")
        /\ cons_pc' = cons_pc \/ (cons_pc = "off" /\ cons_pc' = "pop")
    BY <1>8, StartFromOff DEF Start, TypeInv
  <2>2. Pushed' = Pushed
    BY <2>1 DEF Pushed
  <2>3. Images'
    BY <2>1, <2>2 DEF FrameInv, Images
  <2>4. ImageRead'
    BY <2>1, <2>2 DEF FrameInv, ImageRead, Reading
  <2> QED
    BY <2>1, <2>3, <2>4 DEF FrameInv, MessagesFaithful
<1>9. CASE \/ Signal \/ MainLoopExit \/ Stop \/ NotifyAll \/ Join \/ Terminated
           \/ \E s \in Services : ServiceExit(s)
  <2>1. /\ UNCHANGED <<pixels, queue, published, cons_slot, frames_produced, prod_pc,
                       prod_slot, seen, crop>>
        /\ cons_pc' = cons_pc \/ (cons_pc' = "pop" /\ cons_pc = "waiting")
    BY <1>9 DEF Signal, MainLoopExit, Stop, NotifyAll, Notify, Join, Terminated, ServiceExit,
      vars
  <2>2. Pushed' = Pushed
    BY <2>1 DEF Pushed
  <2>3. Images'
    BY <2>1, <2>2 DEF FrameInv, Images
  <2>4. ImageRead'
    BY <2>1, <2>2 DEF FrameInv, ImageRead, Reading
  <2> QED
    BY <2>1, <2>3, <2>4 DEF FrameInv, MessagesFaithful
<1> QED
  BY <1>1, <1>2, <1>3, <1>4, <1>5, <1>6, <1>7, <1>8, <1>9
  DEF Next, Producer, Consumer, Main

\* SlotOwnership as an invariant to be used with others.
LEMMA Owned == Spec => [](TypeInv /\ SlotOwnership)
<1>1. Spec => []TypeInv
  BY TypeInvInit, TypeInvStep, PTL DEF Spec
<1> QED
  BY <1>1, OwnershipCorrect, PTL

LEMMA FramesKept == Spec => []FrameInv
<1>1. Init => FrameInv
  <2> SUFFICES ASSUME Init PROVE FrameInv
    OBVIOUS
  <2>1. DOMAIN queue = {} /\ DOMAIN published = {}
    BY DEF Init
  <2> QED
    BY <2>1 DEF Init, FrameInv, Images, ImageRead, Reading, MessagesFaithful
<1>2. TypeInv /\ SlotOwnership /\ FrameInv /\ [Next]_vars => FrameInv'
  <2> SUFFICES ASSUME TypeInv, SlotOwnership, FrameInv, [Next]_vars PROVE FrameInv'
    OBVIOUS
  <2>1. CASE UNCHANGED vars
    BY <2>1, FrameNext DEF Next, FrameInv, Images, ImageRead, MessagesFaithful, Pushed, vars,
      poolVars, queueVars, prodVars, consVars, frameVars, statVars
  <2> QED
    BY <2>1, FrameNext
<1> QED
  BY <1>1, <1>2, Owned, PTL DEF Spec

\* PublishedFaithful: every message describes one whole image, and messages
\* leave in the order of capture.
THEOREM FaithfulCorrect == Spec => []PublishedFaithful
<1>1. TypeOK /\ FrameInv => PublishedFaithful
  BY DEF FrameInv, PublishedFaithful
<1> QED
  BY <1>1, TypeCorrect, FramesKept, PTL

-----------------------------------------------------------------------------
(* The shutdown                                                            *)

Ending == {"stopping", "notify_all", "joining"}

\* main() is past the join of entry k of StopOrder.
Past(k) == main_pc = "exited" \/ (main_pc \in Ending /\ main_at > k)

\* The threads that main() has joined have ended.
Joined ==
  /\ Past(1) => prod_pc = "exited"
  /\ Past(2) => cons_pc = "exited"
  /\ Past(3) => service["telemetry"] \in {"exited", "off"}
  /\ Past(4) => service["config"] \in {"exited", "off"}
  /\ main_pc = "running" => main_at = 1

\* The queue is shut down only after the producer has ended, and the consumer
\* ends only on an empty queue that is shut down.
ClosedInOrder ==
  /\ done => prod_pc = "exited" /\ main_pc \notin {"starting", "running"}
  /\ cons_pc \in {"null", "exited"} => done /\ queue = <<>>

\* The watchdog is stopped last.
WatchdogLast ==
  service["watchdog"] \in {"stopping", "exited"} =>
    main_pc = "exited" \/ (main_pc \in Ending /\ main_at = 5)

StopInv == Joined /\ ClosedInOrder /\ WatchdogLast

\* Every step keeps the order of the shutdown.
LEMMA StopNext ==
  ASSUME TypeInv, StopInv, Next
  PROVE  StopInv'
<1> USE DEF StopInv, poolVars, queueVars, prodVars, frameVars, statVars, consVars, mainVars
<1>0. main_at \in {1, 2, 3, 4, 5}
  BY DEF TypeInv, TypeOK
<1>1. CASE Producer
  <2>1. /\ UNCHANGED <<service, main_pc, main_at, done>> /\ prod_pc # "exited"
        /\ cons_pc' = cons_pc \/ (cons_pc' = "pop" /\ cons_pc = "waiting")
        /\ queue' = queue \/ prod_pc = "push"
    BY <1>1 DEF Producer, ProducerCheck, AcquireSlot, AcquireMiss, PaintBegin, PaintEnd,
      Push, NotifyOne, Notify, CountFrame, ProducerWake
  <2> QED
    BY <2>1 DEF Joined, Past, ClosedInOrder, WatchdogLast
<1>2. CASE Consumer \/ SpuriousWakeup
  <2>1. /\ UNCHANGED <<service, main_pc, main_at, done, prod_pc>> /\ cons_pc # "exited"
        /\ cons_pc' \in {"null", "exited"} =>
             \/ queue = <<>> /\ done /\ queue' = <<>>
             \/ cons_pc = "null" /\ queue' = queue
    BY <1>2 DEF Consumer, PopFrame, PopNothing, NullFrame, Infer, Dispatch, Publish, Account,
      Release, SpuriousWakeup, Notify
  <2> QED
    BY <2>1 DEF Joined, Past, ClosedInOrder, WatchdogLast
<1>3. CASE Start
  <2>1. /\ main_pc = "starting" /\ main_pc' \in {"starting", "running"}
        /\ main_pc' = "running" => main_at' = 1
        /\ UNCHANGED <<done, queue>>
        /\ service'["watchdog"] = service["watchdog"] \/ service'["watchdog"] = "running"
    BY <1>3 DEF Start, Advance, StartProducer, StartOrchestrator, StartService, TypeInv, TypeOK,
      Services
  <2>2. ~done /\ cons_pc \notin {"null", "exited"}
    BY <2>1 DEF ClosedInOrder
  <2>3. cons_pc' \notin {"null", "exited"}
    BY <1>3, <2>2 DEF Start, StartProducer, StartOrchestrator, StartService
  <2> QED
    BY <2>1, <2>2, <2>3 DEF Joined, Past, Ending, ClosedInOrder, WatchdogLast
<1>4. CASE MainLoopExit \/ Signal \/ Terminated
  <2>1. /\ UNCHANGED <<service, main_at, done, prod_pc, cons_pc, queue>>
        /\ main_pc' = main_pc \/ (main_pc = "running" /\ main_pc' = "stopping")
    BY <1>4 DEF MainLoopExit, Signal, Terminated, vars
  <2> QED
    BY <2>1 DEF Joined, Past, Ending, ClosedInOrder, WatchdogLast
<1>5. CASE Stop
  <2>1. /\ main_pc = "stopping" /\ main_pc' \in {"notify_all", "joining"}
        /\ UNCHANGED <<main_at, prod_pc, cons_pc, queue>>
    BY <1>5 DEF Stop, StopProducer, StopOrchestrator, StopService
  <2>2. done' = done \/ (done' = TRUE /\ main_at = 2)
    BY <1>0, <1>5 DEF Stop, StopProducer, StopOrchestrator, StopService, StopOrder
  <2>3. /\ service'["telemetry"] = service["telemetry"] \/ main_at = 3
        /\ service'["config"] = service["config"] \/ main_at = 4
        /\ service'["watchdog"] = service["watchdog"] \/ main_at = 5
    <3>1. service \in [Services -> ServicePCs]
      BY DEF TypeInv, TypeOK
    <3>2. UNCHANGED service \/ service' = [service EXCEPT ![StopOrder[main_at]] =
                                             IF @ = "running" THEN "stopping" ELSE @]
      BY <1>5 DEF Stop, StopProducer, StopOrchestrator, StopService
    <3>3. /\ StopOrder[main_at] = "telemetry" => main_at = 3
          /\ StopOrder[main_at] = "config" => main_at = 4
          /\ StopOrder[main_at] = "watchdog" => main_at = 5
      BY <1>0 DEF StopOrder
    <3> QED
      BY <3>1, <3>2, <3>3 DEF Services
  <2>4. Joined'
    BY <1>0, <2>1, <2>3 DEF Joined, Past, Ending
  <2>5. ClosedInOrder'
    BY <2>1, <2>2 DEF ClosedInOrder, Joined, Past, Ending
  <2>6. WatchdogLast'
    BY <2>1, <2>3 DEF WatchdogLast, Ending
  <2> QED
    BY <2>4, <2>5, <2>6
<1>6. CASE NotifyAll
  <2>1. /\ main_pc = "notify_all" /\ main_pc' = "joining"
        /\ cons_pc' = cons_pc \/ (cons_pc' = "pop" /\ cons_pc = "waiting")
        /\ UNCHANGED <<service, main_at, done, prod_pc, queue>>
    BY <1>6 DEF NotifyAll, Notify
  <2> QED
    BY <2>1 DEF Joined, Past, Ending, ClosedInOrder, WatchdogLast
<1>7. CASE Join
  <2>1. /\ main_pc = "joining"
        /\ UNCHANGED <<service, done, prod_pc, cons_pc, queue>>
        /\ \/ main_at < 5 /\ main_pc' = "stopping" /\ main_at' = main_at + 1
           \/ main_at = 5 /\ main_pc' = "exited"
    <3>1. Len(StopOrder) = 5
      BY DEF StopOrder
    <3> QED
      BY <1>0, <1>7, <3>1 DEF Join, Advance
  <2>2. /\ main_at = 1 => prod_pc = "exited"
        /\ main_at = 2 => cons_pc = "exited"
        /\ main_at = 3 => service["telemetry"] \in {"exited", "off"}
        /\ main_at = 4 => service["config"] \in {"exited", "off"}
    BY <1>7 DEF Join, Exited, StopOrder, Services
  <2>3. Joined'
    BY <1>0, <2>1, <2>2 DEF Joined, Past, Ending
  <2> QED
    BY <1>0, <2>1, <2>3 DEF ClosedInOrder, WatchdogLast, Ending
<1>8. CASE \E s \in Services : ServiceExit(s)
  <2>1. PICK s \in Services :
          /\ service[s] = "stopping" /\ service' = [service EXCEPT ![s] = "exited"]
          /\ UNCHANGED <<main_pc, main_at, done, prod_pc, cons_pc, queue>>
    BY <1>8 DEF ServiceExit
  <2>2. \A r \in Services : \/ service'[r] = service[r]
                            \/ service[r] = "stopping" /\ service'[r] = "exited"
    BY <2>1 DEF TypeInv, TypeOK
  <2>3. {"telemetry", "config", "watchdog"} \subseteq Services
    BY DEF Services
  <2> QED
    BY <2>1, <2>2, <2>3 DEF Joined, Past, ClosedInOrder, WatchdogLast
<1> QED
  BY <1>1, <1>2, <1>3, <1>4, <1>5, <1>6, <1>7, <1>8 DEF Next, Main

LEMMA StopKept == Spec => []StopInv
<1>1. Init => StopInv
  BY DEF Init, StopInv, Joined, Past, Ending, ClosedInOrder, WatchdogLast, Services
<1>2. TypeInv /\ StopInv /\ [Next]_vars => StopInv'
  <2> SUFFICES ASSUME TypeInv, StopInv, [Next]_vars PROVE StopInv'
    OBVIOUS
  <2>1. CASE UNCHANGED vars
    BY <2>1 DEF StopInv, Joined, Past, ClosedInOrder, WatchdogLast, vars, queueVars, prodVars,
      consVars, mainVars
  <2> QED
    BY <2>1, StopNext
<1> QED
  BY <1>1, <1>2, Owned, PTL DEF Spec

\* ShutdownOrdered: main() disarms the watchdog last, and when it returns every
\* frame is accounted for and every buffer is back in the pool.
THEOREM ShutdownCorrect == Spec => []ShutdownOrdered
<1>1. TypeInv /\ SlotOwnership /\ FrameAccounting /\ StopInv => ShutdownOrdered
  <2> SUFFICES ASSUME TypeInv, SlotOwnership, FrameAccounting, StopInv
               PROVE  WatchdogStoppedLast /\ DrainedAtExit
    BY DEF ShutdownOrdered
  <2>1. WatchdogStoppedLast
    <3> SUFFICES ASSUME main_pc = "exited" \/ (main_pc \in Ending /\ main_at = 5)
                 PROVE  \A k \in 1 .. 4 : Exited(StopOrder[k])
      BY DEF StopInv, WatchdogLast, WatchdogStoppedLast
    <3>1. Past(1) /\ Past(2) /\ Past(3) /\ Past(4)
      BY DEF Past
    <3>2. /\ prod_pc = "exited" /\ cons_pc = "exited"
          /\ service["telemetry"] \in {"exited", "off"}
          /\ service["config"] \in {"exited", "off"}
      BY <3>1 DEF StopInv, Joined
    <3>3. /\ Exited(StopOrder[1]) /\ Exited(StopOrder[2])
          /\ Exited(StopOrder[3]) /\ Exited(StopOrder[4])
      BY <3>2 DEF Exited, StopOrder, Services
    <3>4. \A k \in 1 .. 4 : k = 1 \/ k = 2 \/ k = 3 \/ k = 4
      OBVIOUS
    <3> QED
      BY <3>3, <3>4
  <2>2. DrainedAtExit
    <3> SUFFICES ASSUME main_pc = "exited"
                 PROVE  /\ queue = <<>> /\ available = Slots
                        /\ frames_produced = frames_processed + dropped_count
      BY DEF DrainedAtExit
    <3>1. prod_pc = "exited" /\ cons_pc = "exited" /\ queue = <<>>
      BY DEF StopInv, Joined, Past, ClosedInOrder
    <3>2. prod_slot = None /\ cons_slot = None
      BY <3>1 DEF TypeInv, SlotHeld, Holding
    <3>3. \A s \in Slots : ~Occurs(s, queue)
      BY <3>1 DEF Occurs
    <3>4. available = Slots
      <4>1. \A s \in Slots : s # prod_slot /\ s # cons_slot
        BY <3>2, NoneNotSlot
      <4>2. \A s \in Slots : s \in available
        BY <3>3, <4>1 DEF SlotOwnership
      <4> QED
        BY <4>2 DEF TypeInv, TypeOK
    <3>5. frames_produced = frames_processed + dropped_count
      <4>1. Pushed = frames_produced /\ InHand = 0
        BY <3>1 DEF Pushed, InHand, Holding, TypeInv, TypeOK
      <4>2. Len(queue) = 0
        BY <3>1
      <4>3. frames_produced = frames_processed + 0 + 0 + dropped_count
        BY <4>1, <4>2 DEF FrameAccounting
      <4> QED
        BY <4>3 DEF TypeInv, TypeOK
    <3> QED
      BY <3>1, <3>4, <3>5
  <2> QED
    BY <2>1, <2>2
<1> QED
  BY <1>1, StopKept, Owned, AccountingCorrect, PTL

-----------------------------------------------------------------------------
(* The channel                                                             *)

\* The sequence of the images of what a sequence holds.
Through(image, seq) == [k \in DOMAIN seq |-> image[seq[k]]]

LEMMA ThroughFacts ==
  ASSUME NEW S, NEW f, \A x \in S : f[x] \in Nat
  PROVE  \A q \in Seq(S) : /\ Through(f, q) \in Seq(Nat) /\ Len(Through(f, q)) = Len(q)
                           /\ \A k \in 1 .. Len(q) : Through(f, q)[k] = f[q[k]]
<1> SUFFICES ASSUME NEW q \in Seq(S)
             PROVE  /\ Through(f, q) \in Seq(Nat) /\ Len(Through(f, q)) = Len(q)
                    /\ \A k \in 1 .. Len(q) : Through(f, q)[k] = f[q[k]]
  OBVIOUS
<1>1. DOMAIN q = 1 .. Len(q) /\ Len(q) \in Nat /\ \A k \in 1 .. Len(q) : q[k] \in S
  BY LenProperties
<1>2. /\ Through(f, q) \in [1 .. Len(q) -> Nat]
      /\ \A k \in 1 .. Len(q) : Through(f, q)[k] = f[q[k]]
  BY <1>1 DEF Through
<1> QED
  BY <1>1, <1>2, LenProperties

\* Entering and leaving q, the images enter and leave their sequence.
LEMMA ThroughAppend ==
  ASSUME NEW S, NEW f, \A x \in S : f[x] \in Nat, NEW q \in Seq(S), NEW e \in S
  PROVE  Through(f, Append(q, e)) = Append(Through(f, q), f[e])
<1>0. \A r \in Seq(S) : /\ Through(f, r) \in Seq(Nat) /\ Len(Through(f, r)) = Len(r)
                        /\ \A k \in 1 .. Len(r) : Through(f, r)[k] = f[r[k]]
  BY ThroughFacts
<1> DEFINE m == Through(f, q)
           a == Through(f, Append(q, e))
<1>1. /\ Append(q, e) \in Seq(S) /\ Len(Append(q, e)) = Len(q) + 1 /\ Len(q) \in Nat
      /\ \A k \in 1 .. Len(q) : Append(q, e)[k] = q[k]
      /\ Append(q, e)[Len(q) + 1] = e
  BY AppendProperties, LenProperties
<1>2. /\ m \in Seq(Nat) /\ Len(m) = Len(q) /\ \A k \in 1 .. Len(q) : m[k] = f[q[k]]
  BY <1>0
<1>a. f[e] \in Nat
  OBVIOUS
<1>3. /\ a \in Seq(Nat) /\ Len(a) = Len(q) + 1
      /\ \A k \in 1 .. Len(q) + 1 : a[k] = f[Append(q, e)[k]]
  BY <1>0, <1>1
<1> HIDE DEF m, a
<1>4. /\ Append(m, f[e]) \in Seq(Nat) /\ Len(Append(m, f[e])) = Len(q) + 1
      /\ \A k \in 1 .. Len(q) : Append(m, f[e])[k] = m[k]
      /\ Append(m, f[e])[Len(q) + 1] = f[e]
  BY <1>2, <1>a, AppendProperties
<1>5. ASSUME NEW k \in 1 .. Len(q) + 1 PROVE a[k] = Append(m, f[e])[k]
  <2>1. k = Len(q) + 1 \/ k \in 1 .. Len(q)
    BY <1>1
  <2> QED
    BY <1>1, <1>2, <1>3, <1>4, <2>1
<1>6. a = Append(m, f[e])
  BY <1>3, <1>4, <1>5, SeqEqual
<1> QED
  BY <1>6 DEF m, a

LEMMA ThroughTail ==
  ASSUME NEW S, NEW f, \A x \in S : f[x] \in Nat, NEW q \in Seq(S), q # <<>>
  PROVE  /\ Head(Through(f, q)) = f[Head(q)]
         /\ Through(f, Tail(q)) = Tail(Through(f, q))
<1>0. \A r \in Seq(S) : /\ Through(f, r) \in Seq(Nat) /\ Len(Through(f, r)) = Len(r)
                        /\ \A k \in 1 .. Len(r) : Through(f, r)[k] = f[r[k]]
  BY ThroughFacts
<1> DEFINE m == Through(f, q)
           t == Through(f, Tail(q))
<1>1. /\ Tail(q) \in Seq(S) /\ Len(Tail(q)) = Len(q) - 1 /\ Len(q) \in Nat /\ Len(q) > 0
      /\ \A k \in 1 .. Len(Tail(q)) : Tail(q)[k] = q[k + 1]
      /\ Head(q) = q[1]
  BY HeadTailProperties, LenProperties, EmptySeq
<1>2. /\ m \in Seq(Nat) /\ Len(m) = Len(q) /\ m # <<>>
      /\ \A k \in 1 .. Len(q) : m[k] = f[q[k]]
  BY <1>0
<1>3. /\ t \in Seq(Nat) /\ Len(t) = Len(q) - 1
      /\ \A k \in 1 .. Len(q) - 1 : t[k] = f[Tail(q)[k]]
  BY <1>0, <1>1
<1> HIDE DEF m, t
<1>4. /\ Tail(m) \in Seq(Nat) /\ Len(Tail(m)) = Len(q) - 1
      /\ \A k \in 1 .. Len(q) - 1 : Tail(m)[k] = m[k + 1]
      /\ Head(m) = m[1]
  BY <1>1, <1>2, HeadTailProperties
<1>5. \A k \in 1 .. Len(q) - 1 : k + 1 \in 1 .. Len(q)
  BY <1>1
<1>6. \A k \in 1 .. Len(q) - 1 : t[k] = Tail(m)[k]
  BY <1>1, <1>2, <1>3, <1>4, <1>5
<1>7. t = Tail(m)
  BY <1>3, <1>4, <1>6, SeqEqual
<1>8. Head(m) = f[Head(q)]
  BY <1>1, <1>2, <1>4
<1> QED
  BY <1>7, <1>8 DEF m, t
\* The variables of the channel.
Pending == Through(pixels, queue)
Hand    == IF cons_pc \in Reading THEN pixels[cons_slot] ELSE 0
Out     == [k \in DOMAIN published |-> published[k].frame]
Status  == IF cons_pc = "exited" THEN "finished"
           ELSE IF prod_pc = "exited" THEN "closed" ELSE "open"

LEMMA ChannelVars ==
  UNCHANGED <<Pushed, Pending, Hand, Out, Status>> => UNCHANGED Channel!vars
BY DEF Channel!vars, Pending, Through, Hand, Reading, Out, Status

\* The invariants that the simulation needs.
ChannelInv == TypeInv /\ SlotOwnership /\ FrameInv /\ StopInv

\* push() is a capture, by the oldest frame when the queue is at its bound.
LEMMA PushCaptures ==
  ASSUME ChannelInv, Push
  PROVE  Channel!Capture
<1> USE DEF ChannelInv, TypeInv
<1>1. /\ prod_pc = "push" /\ prod_pc' = "notify"
      /\ queue' = Append(IF QueueFull THEN Tail(queue) ELSE queue, prod_slot)
      /\ UNCHANGED <<pixels, frames_produced, published, cons_pc, cons_slot>>
  BY DEF Push, consVars, frameVars, statVars
<1>2. Status = "open" /\ UNCHANGED <<Hand, Out, Status>>
  BY <1>1 DEF Status, Hand, Out, StopInv, ClosedInOrder
<1>3. Pushed' = Pushed + 1 /\ pixels[prod_slot] = Pushed + 1 /\ prod_slot \in Slots
  BY <1>1, FrameNumbers DEF Pushed, FrameInv, Images, SlotHeld, TypeOK
<1>4. /\ queue \in Seq(Slots) /\ \A x \in Slots : pixels[x] \in Nat
      /\ Len(Pending) = Len(queue)
  BY FrameNumbers, ThroughFacts DEF Pending
<1>5. QueueFull => queue # <<>> /\ Tail(queue) \in Seq(Slots)
  BY <1>4, FullNotEmpty, HeadTailProperties
<1> DEFINE kept == IF QueueFull THEN Tail(queue) ELSE queue
<1>6. Through(pixels, kept) = IF QueueFull THEN Tail(Pending) ELSE Pending
  BY <1>4, <1>5, ThroughTail DEF Pending
<1>7. kept \in Seq(Slots)
  BY <1>4, <1>5
<1> HIDE DEF kept
<1>8. Pending' = Append(Through(pixels, kept), Pushed + 1)
  <2>1. Through(pixels, Append(kept, prod_slot)) = Append(Through(pixels, kept), Pushed + 1)
    BY <1>3, <1>4, <1>7, ThroughAppend
  <2>2. Pending' = Through(pixels, Append(kept, prod_slot))
    BY <1>1 DEF kept, Pending, Through
  <2> QED
    BY <2>1, <2>2
<1> QED
  BY <1>2, <1>3, <1>4, <1>6, <1>8
  DEF Channel!Capture, QueueFull, Pending, Through, Hand, Reading, Out, Status

\* pop() takes the oldest frame.
LEMMA PopTakes ==
  ASSUME ChannelInv, PopFrame
  PROVE  Channel!Take
<1> USE DEF ChannelInv, TypeInv
<1>1. /\ cons_pc = "pop" /\ cons_pc' = "infer" /\ queue # <<>>
      /\ queue' = Tail(queue) /\ cons_slot' = Head(queue)
      /\ UNCHANGED <<pixels, frames_produced, published, prod_pc>>
  BY DEF PopFrame, poolVars, prodVars, statVars
<1>2. queue \in Seq(Slots) /\ \A x \in Slots : pixels[x] \in Nat
  BY FrameNumbers
<1>3. Hand = 0 /\ Hand' = pixels[Head(queue)] /\ UNCHANGED <<Pushed, Out, Status>>
  BY <1>1 DEF Hand, Reading, Pushed, Out, Status
<1>4. Head(Pending) = Hand' /\ Pending' = Tail(Pending)
  <2>1. /\ Head(Through(pixels, queue)) = pixels[Head(queue)]
        /\ Through(pixels, Tail(queue)) = Tail(Through(pixels, queue))
    BY <1>1, <1>2, ThroughTail
  <2>2. Pending' = Through(pixels, Tail(queue))
    BY <1>1 DEF Pending, Through
  <2> QED
    BY <1>3, <2>1, <2>2 DEF Pending
<1>5. Pending # <<>>
  <2>1. Len(Pending) = Len(queue) /\ Pending \in Seq(Nat)
    BY <1>2, ThroughFacts DEF Pending
  <2> QED
    BY <1>1, <1>2, <2>1, EmptySeq
<1> QED
  BY <1>3, <1>4, <1>5 DEF Channel!Take, Pending, Through, Hand, Reading, Out, Status

\* publish() emits the frame in hand, or gives it up.
LEMMA PublishEmits ==
  ASSUME ChannelInv, Publish
  PROVE  Channel!Emit
<1> USE DEF ChannelInv
<1>1. /\ cons_pc = "publish" /\ cons_pc' = "account"
      /\ published' = Append(published, [frame |-> seen, crop |-> crop]) \/ UNCHANGED published
      /\ UNCHANGED <<pixels, queue, frames_produced, prod_pc>>
  BY DEF Publish, poolVars, queueVars, prodVars, frameVars
<1>2. Hand = pixels[cons_slot] /\ Hand # 0 /\ seen = Hand /\ Hand' = 0
  BY <1>1 DEF Hand, Reading, FrameInv, ImageRead, Torn
<1>3. UNCHANGED <<Pushed, Pending, Status>>
  BY <1>1 DEF Pushed, Pending, Through, Status
<1>4. Out' = Append(Out, Hand) \/ Out' = Out
  <2>1. CASE UNCHANGED published
    BY <2>1 DEF Out
  <2>2. CASE published' = Append(published, [frame |-> seen, crop |-> crop])
    <3> DEFINE frame == [m \in Message |-> m.frame]
               msg   == [frame |-> seen, crop |-> crop]
    <3>1. /\ published \in Seq(Message) /\ msg \in Message /\ published' \in Seq(Message)
          /\ \A m \in Message : frame[m] \in Nat
      <4>1. published \in Seq(Message) /\ msg \in Message
        BY DEF TypeInv, TypeOK, Message
      <4> QED
        BY <2>2, <4>1, AppendProperties DEF Message
    <3>2. \A q \in Seq(Message) : Through(frame, q) = [k \in DOMAIN q |-> q[k].frame]
      <4> SUFFICES ASSUME NEW q \in Seq(Message)
                   PROVE  Through(frame, q) = [k \in DOMAIN q |-> q[k].frame]
        OBVIOUS
      <4>1. \A k \in DOMAIN q : q[k] \in Message
        BY LenProperties
      <4> QED
        BY <4>1 DEF Through
    <3>3. frame[msg] = seen
      BY <3>1
    <3> HIDE DEF frame, msg
    <3>4. Through(frame, Append(published, msg)) = Append(Through(frame, published), seen)
      BY <3>1, <3>3, ThroughAppend
    <3>5. Out = Through(frame, published) /\ Out' = Through(frame, published')
      BY <3>1, <3>2 DEF Out
    <3> QED
      BY <1>2, <2>2, <3>4, <3>5 DEF msg
  <2> QED
    BY <1>1, <2>1, <2>2
<1> QED
  BY <1>2, <1>3, <1>4 DEF Channel!Emit, Pending, Through, Hand, Reading, Out, Status

\* The producer's end closes the channel.
LEMMA ExitCloses ==
  ASSUME ChannelInv, ProducerCheck
  PROVE  Channel!Close \/ UNCHANGED Channel!vars
<1>1. /\ prod_pc = "check" /\ prod_pc' \in {"acquire", "exited"}
      /\ UNCHANGED <<pixels, queue, frames_produced, published, cons_pc, cons_slot>>
  BY DEF ProducerCheck, poolVars, queueVars, consVars, frameVars, statVars
<1>2. cons_pc # "exited"
  BY <1>1 DEF ChannelInv, StopInv, ClosedInOrder
<1>3. UNCHANGED <<Pushed, Pending, Hand, Out>>
  BY <1>1 DEF Pushed, Pending, Through, Hand, Out
<1>4. CASE prod_pc' = "acquire"
  <2>1. Status' = Status
    BY <1>1, <1>4 DEF Status
  <2> QED
    BY <1>3, <2>1, ChannelVars
<1>5. CASE prod_pc' = "exited"
  <2>1. Status = "open" /\ Status' = "closed"
    BY <1>1, <1>2, <1>5 DEF Status
  <2> QED
    BY <1>3, <2>1 DEF Channel!Close, Pending, Through, Hand, Reading, Out, Status
<1> QED
  BY <1>1, <1>4, <1>5

\* The consumer's end finishes it.
LEMMA ExitFinishes ==
  ASSUME ChannelInv, NullFrame
  PROVE  Channel!Finish \/ UNCHANGED Channel!vars
<1>1. /\ cons_pc = "null" /\ cons_pc' \in {"pop", "exited"}
      /\ UNCHANGED <<pixels, queue, frames_produced, published, prod_pc, cons_slot>>
  BY DEF NullFrame, poolVars, queueVars, prodVars, frameVars, statVars
<1>2. prod_pc = "exited" /\ queue = <<>>
  BY <1>1 DEF ChannelInv, StopInv, ClosedInOrder
<1>3. UNCHANGED <<Pushed, Pending, Hand, Out>> /\ Hand = 0
  BY <1>1 DEF Pushed, Pending, Through, Hand, Reading, Out
<1>4. CASE cons_pc' = "pop"
  <2>1. Status' = Status
    BY <1>1, <1>4 DEF Status
  <2> QED
    BY <1>3, <2>1, ChannelVars
<1>5. CASE cons_pc' = "exited"
  <2>1. Status = "closed" /\ Status' = "finished"
    BY <1>1, <1>2, <1>5 DEF Status
  <2>2. Pending = <<>>
    BY <1>2 DEF Pending, Through
  <2> QED
    BY <1>3, <2>1, <2>2 DEF Channel!Finish, Pending, Through, Hand, Reading, Out, Status
<1> QED
  BY <1>1, <1>4, <1>5

\* Painting is not seen, for nobody else has the buffer.
LEMMA PaintHidden ==
  ASSUME ChannelInv, PaintBegin \/ PaintEnd
  PROVE  UNCHANGED Channel!vars
<1> USE DEF ChannelInv
<1>1. /\ UNCHANGED <<queue, published, cons_pc, cons_slot, frames_produced, prod_slot>>
      /\ prod_pc \in {"paint", "painting"} /\ prod_pc' \in {"painting", "push"}
  BY DEF PaintBegin, PaintEnd, queueVars, consVars, frameVars, statVars
<1>2. prod_slot \in Slots
  BY <1>1 DEF TypeInv, SlotHeld, TypeOK
<1>3. \A s \in Slots : s # prod_slot => pixels'[s] = pixels[s]
  BY <1>2 DEF PaintBegin, PaintEnd, TypeInv, TypeOK
<1>4. \A k \in DOMAIN queue : pixels'[queue[k]] = pixels[queue[k]]
  BY <1>2, <1>3, FrameNumbers DEF SlotOwnership, Occurs
<1>5. cons_pc \in Reading => pixels'[cons_slot] = pixels[cons_slot]
  BY <1>2, <1>3 DEF SlotOwnership, TypeInv, SlotHeld, TypeOK, Holding, Reading
<1>6. UNCHANGED <<Pushed, Pending, Hand, Out, Status>>
  BY <1>1, <1>4, <1>5 DEF Pushed, Pending, Through, Hand, Out, Status
<1> QED
  BY <1>6, ChannelVars

\* Every other step moves no frame and ends no thread that the channel sees.
LEMMA OthersHidden ==
  ASSUME ChannelInv, Next,
         ~(Push \/ PopFrame \/ Publish \/ ProducerCheck \/ NullFrame \/ PaintBegin \/ PaintEnd)
  PROVE  UNCHANGED Channel!vars
<1> USE DEF poolVars, queueVars, prodVars, frameVars, statVars, consVars, mainVars
<1>1. SUFFICES UNCHANGED <<Pushed, Pending, Hand, Out, Status>>
  BY ChannelVars
<1>2. CASE AcquireSlot \/ AcquireMiss \/ NotifyOne \/ CountFrame \/ ProducerWake
  <2>1. /\ UNCHANGED <<pixels, queue, published, cons_slot>>
        /\ prod_pc # "exited" /\ prod_pc' # "exited"
        /\ cons_pc' = cons_pc \/ (cons_pc' = "pop" /\ cons_pc = "waiting")
    BY <1>2 DEF AcquireSlot, AcquireMiss, NotifyOne, CountFrame, ProducerWake, Notify
  <2>2. Pushed' = Pushed
    BY <1>2 DEF AcquireSlot, AcquireMiss, NotifyOne, CountFrame, ProducerWake, Pushed,
      ChannelInv, TypeInv, TypeOK
  <2> QED
    BY <2>1, <2>2 DEF Pending, Through, Hand, Reading, Out, Status
<1>3. CASE PopNothing \/ Infer \/ Dispatch \/ Account \/ Release \/ SpuriousWakeup
  <2>1. /\ UNCHANGED <<pixels, queue, published, frames_produced, prod_pc>>
        /\ cons_pc # "exited" /\ cons_pc' # "exited"
        /\ \/ cons_pc \in Reading /\ cons_pc' \in Reading /\ UNCHANGED cons_slot
           \/ cons_pc \notin Reading /\ cons_pc' \notin Reading
    BY <1>3 DEF PopNothing, Infer, Dispatch, Account, Release, SpuriousWakeup, Notify, Reading
  <2> QED
    BY <2>1 DEF Pushed, Pending, Through, Hand, Out, Status
<1>4. CASE Start
  <2>1. /\ UNCHANGED <<pixels, queue, published, cons_slot, frames_produced>>
        /\ prod_pc' = prod_pc \/ (prod_pc = "off" /\ prod_pc' = "check")
        /\ cons_pc' = cons_pc \/ (cons_pc = "off" /\ cons_pc' = "pop")
    BY <1>4, StartFromOff DEF Start, ChannelInv, TypeInv
  <2> QED
    BY <2>1 DEF Pushed, Pending, Through, Hand, Reading, Out, Status
<1>5. CASE \/ Signal \/ MainLoopExit \/ Stop \/ NotifyAll \/ Join \/ Terminated
           \/ \E s \in Services : ServiceExit(s)
  <2>1. /\ UNCHANGED <<pixels, queue, published, cons_slot, frames_produced, prod_pc>>
        /\ cons_pc' = cons_pc \/ (cons_pc' = "pop" /\ cons_pc = "waiting")
    BY <1>5 DEF Signal, MainLoopExit, Stop, NotifyAll, Notify, Join, Terminated, ServiceExit,
      vars
  <2> QED
    BY <2>1 DEF Pushed, Pending, Through, Hand, Reading, Out, Status
<1> QED
  BY <1>2, <1>3, <1>4, <1>5 DEF Next, Producer, Consumer, Main

\* The threads, the pool and the queue implement the bounded FIFO of FrameChannel,
\* for every size of the pool and bound of the queue: the safety that
\* ImplementsChannel asks for.
THEOREM ChannelCorrect == Spec => Channel!Spec
<1>1. Init => Channel!Init
  <2> SUFFICES ASSUME Init PROVE Channel!Init
    OBVIOUS
  <2>1. DOMAIN queue = {} /\ DOMAIN published = {}
    BY DEF Init
  <2>2. Pending = <<>> /\ Out = <<>>
    BY <2>1 DEF Pending, Through, Out
  <2>3. Pushed = 0 /\ Hand = 0 /\ Status = "open"
    BY DEF Init, Pushed, Hand, Reading, Status
  <2> QED
    BY <2>2, <2>3 DEF Channel!Init, Pending, Through, Hand, Reading, Out, Status
<1>2. ChannelInv /\ [Next]_vars => [Channel!Next]_(Channel!vars)
  <2> SUFFICES ASSUME ChannelInv, Next PROVE Channel!Next \/ UNCHANGED Channel!vars
    <3>1. UNCHANGED vars => UNCHANGED <<Pushed, Pending, Hand, Out, Status>>
      BY DEF vars, poolVars, queueVars, prodVars, consVars, frameVars, statVars, Pushed,
        Pending, Through, Hand, Out, Status
    <3> QED
      BY <3>1, ChannelVars
  <2>1. CASE Push \/ PopFrame \/ Publish
    BY <2>1, PushCaptures, PopTakes, PublishEmits DEF Channel!Next
  <2>2. CASE ProducerCheck \/ NullFrame
    BY <2>2, ExitCloses, ExitFinishes DEF Channel!Next
  <2>3. CASE PaintBegin \/ PaintEnd
    BY <2>3, PaintHidden
  <2> QED
    BY <2>1, <2>2, <2>3, OthersHidden
<1>3. Spec => []ChannelInv
  BY Owned, FramesKept, StopKept, PTL DEF ChannelInv
<1> QED
  BY <1>1, <1>2, <1>3, PTL DEF Spec, Channel!Spec
=============================================================================
