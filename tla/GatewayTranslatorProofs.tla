------------------------ MODULE GatewayTranslatorProofs ------------------------
(***************************************************************************)
(* Proofs about GatewayTranslator for any bound of the buffer, number of   *)
(* attempts, of entries and of refused entries.                            *)
(***************************************************************************)
EXTENDS GatewayTranslator, SequenceTheorems, FiniteSetTheorems, TLAPS

USE MaxBufferAssumption, AttemptsAssumption, MaxEntriesAssumption, BadAssumption

\* main() has a batch in hand exactly from a drain to its outcome.
BatchInHand ==
  batch # <<>> <=> main_pc \in {"post", "final_post", "requeue"}

\* What is buffered, in hand or dropped has arrived.
Arrived == Elems(buffer) \cup Elems(batch) \cup evicted \subseteq 1 .. arrived

\* Whatever arrived is buffered, in hand or settled.
NothingVanishes ==
  1 .. arrived \subseteq
    Elems(buffer) \cup Elems(batch) \cup stored \cup evicted \cup lost

\* After the drain of the final flush the buffer holds later entries only.
LateOnly ==
  /\ drained <= arrived
  /\ main_pc \in {"final_post", "stop", "stopped"} =>
       Elems(buffer) \subseteq drained + 1 .. arrived

IInv ==
  /\ EntriesOnce /\ BatchInHand /\ Arrived
  /\ NothingVanishes /\ LateOnly /\ NoEvictionWithoutPressure

-----------------------------------------------------------------------------
(* Sequences                                                               *)

\* The empty sequence.
LEMMA EmptyElems == Elems(<<>>) = {} /\ Injective(<<>>)
BY DEF Elems, Injective

\* What an append does to the entries of a sequence.
LEMMA AppendElems ==
  ASSUME NEW S, NEW q \in Seq(S), NEW e \in S
  PROVE  /\ Append(q, e) \in Seq(S)
         /\ Elems(Append(q, e)) = Elems(q) \cup {e}
         /\ Injective(q) /\ e \notin Elems(q) => Injective(Append(q, e))
<1>1. /\ Append(q, e) \in Seq(S)
      /\ Len(Append(q, e)) = Len(q) + 1
      /\ \A k \in 1 .. Len(q) : Append(q, e)[k] = q[k]
      /\ Append(q, e)[Len(q) + 1] = e
  BY AppendProperties
<1>2. /\ DOMAIN q = 1 .. Len(q) /\ Len(q) \in Nat
      /\ DOMAIN Append(q, e) = 1 .. Len(q) + 1
  BY <1>1, LenProperties
<1>3. \A x : x \in Elems(Append(q, e)) <=> x \in Elems(q) \/ x = e
  BY <1>1, <1>2 DEF Elems
<1>4. Injective(q) /\ e \notin Elems(q) => Injective(Append(q, e))
  BY <1>1, <1>2 DEF Elems, Injective
<1> QED
  BY <1>1, <1>3, <1>4

\* What pop(0) does to them.
LEMMA TailElems ==
  ASSUME NEW S, NEW q \in Seq(S), q # <<>>, Injective(q)
  PROVE  /\ Head(q) \in S /\ Tail(q) \in Seq(S)
         /\ Head(q) \in Elems(q)
         /\ Elems(Tail(q)) = Elems(q) \ {Head(q)}
         /\ Injective(Tail(q))
         /\ Tail(q) = <<>> <=> Len(q) = 1
<1>1. /\ Head(q) \in S
      /\ Tail(q) \in Seq(S)
      /\ Len(Tail(q)) = Len(q) - 1
      /\ \A k \in 1 .. Len(Tail(q)) : Tail(q)[k] = q[k + 1]
  BY HeadTailProperties
<1>2. /\ DOMAIN q = 1 .. Len(q) /\ Len(q) \in Nat \ {0}
      /\ DOMAIN Tail(q) = 1 .. Len(q) - 1
      /\ Head(q) = q[1]
  BY <1>1, LenProperties, EmptySeq
<1>3. \A k \in 1 .. Len(q) - 1 : k + 1 \in 1 .. Len(q) /\ k + 1 # 1
  BY <1>2
<1>4. Injective(Tail(q))
  BY <1>1, <1>2, <1>3 DEF Injective
<1>5. Head(q) \in Elems(q)
  BY <1>2 DEF Elems
<1>6. ASSUME NEW x \in Elems(Tail(q)) PROVE x \in Elems(q) \ {Head(q)}
  BY <1>1, <1>2, <1>3 DEF Elems, Injective
<1>7. ASSUME NEW x \in Elems(q), x # Head(q) PROVE x \in Elems(Tail(q))
  <2>1. PICK k \in 1 .. Len(q) : q[k] = x
    BY <1>2 DEF Elems
  <2>2. k - 1 \in 1 .. Len(q) - 1 /\ (k - 1) + 1 = k
    BY <1>2, <1>7, <2>1
  <2>3. k - 1 \in DOMAIN Tail(q) /\ Tail(q)[k - 1] = x
    BY <1>1, <1>2, <2>1, <2>2
  <2> QED
    BY <2>3 DEF Elems
<1>8. Tail(q) = <<>> <=> Len(q) = 1
  <2>1. Tail(q) = <<>> <=> Len(Tail(q)) = 0
    BY <1>1, EmptySeq
  <2> QED
    BY <1>1, <1>2, <2>1
<1> QED
  BY <1>1, <1>4, <1>5, <1>6, <1>7, <1>8

\* A buffer of different entries is no longer than the number it takes them from.
LEMMA Pigeons ==
  ASSUME NEW S, NEW q \in Seq(S), Injective(q), NEW n \in Nat, Elems(q) \subseteq 1 .. n
  PROVE  Len(q) <= n
<1>1. Len(q) \in Nat /\ DOMAIN q = 1 .. Len(q) /\ q \in [1 .. Len(q) -> S]
  BY LenProperties
<1>2. q \in [1 .. Len(q) -> 1 .. n]
  BY <1>1 DEF Elems
<1>3. /\ IsFiniteSet(1 .. n) /\ Cardinality(1 .. n) = n
      /\ IsFiniteSet(1 .. Len(q)) /\ Cardinality(1 .. Len(q)) = Len(q)
  <2>1. \A m \in Nat : m \in Int /\ 1 \in Int /\ IF 1 > m THEN m = 0 ELSE m - 1 + 1 = m
    OBVIOUS
  <2>2. \A m \in Nat : IsFiniteSet(1 .. m) /\ Cardinality(1 .. m) = m
    BY <2>1, FS_Interval
  <2> QED
    BY <1>1, <2>2
<1>4. ASSUME Len(q) > n PROVE FALSE
  <2>1. \E x, y \in 1 .. Len(q) : x # y /\ q[x] = q[y]
    BY <1>1, <1>2, <1>3, <1>4, FS_PigeonHole
  <2> QED
    BY <1>1, <2>1 DEF Injective
<1> QED
  BY <1>1, <1>4

-----------------------------------------------------------------------------
(* The buffer                                                              *)

\* enqueue_telemetry with an entry that is nowhere else: it is added, and
\* nothing leaves the buffer but the oldest entry, which is counted.
LEMMA EnqueueKeeps ==
  ASSUME TypeOK, Injective(buffer), evicted \cap Elems(buffer) = {},
         dropped_count = Cardinality(evicted),
         NEW e \in Entries, e \notin Elems(buffer) \cup evicted, Enqueue(e)
  PROVE  /\ buffer' \in Seq(Entries) /\ Injective(buffer')
         /\ evicted' \subseteq Entries /\ evicted' \cap Elems(buffer') = {}
         /\ evicted \subseteq evicted'
         /\ dropped_count' \in Nat /\ dropped_count' = Cardinality(evicted')
         /\ Elems(buffer') \cup evicted' = Elems(buffer) \cup evicted \cup {e}
         /\ evicted' # evicted => MaxBuffer > 0 /\ Len(buffer) >= MaxBuffer
<1>1. buffer \in Seq(Entries) /\ evicted \subseteq Entries /\ dropped_count \in Nat
  BY DEF TypeOK
<1>2. IsFiniteSet(evicted)
  <2>1. IsFiniteSet(Entries)
    BY FS_Interval DEF Entries
  <2> QED
    BY <1>1, <2>1, FS_Subset
<1>3. CASE MaxBuffer > 0 /\ Len(buffer) >= MaxBuffer
  <2>1. buffer # <<>>
    BY <1>1, <1>3, EmptySeq
  <2>2. /\ buffer' = Append(Tail(buffer), e)
        /\ dropped_count' = dropped_count + 1
        /\ evicted' = evicted \cup {Head(buffer)}
    BY <1>3 DEF Enqueue
  <2>3. /\ Head(buffer) \in Entries /\ Tail(buffer) \in Seq(Entries)
        /\ Head(buffer) \in Elems(buffer)
        /\ Elems(Tail(buffer)) = Elems(buffer) \ {Head(buffer)}
        /\ Injective(Tail(buffer))
    BY <1>1, <2>1, TailElems
  <2>4. /\ buffer' \in Seq(Entries) /\ Injective(buffer')
        /\ Elems(buffer') = Elems(Tail(buffer)) \cup {e}
    BY <2>2, <2>3, AppendElems
  <2>5. Head(buffer) \notin evicted
    BY <2>3
  <2>6. Cardinality(evicted') = Cardinality(evicted) + 1
    BY <1>2, <2>2, <2>5, FS_AddElement
  <2> QED
    BY <1>1, <1>3, <2>2, <2>3, <2>4, <2>6
<1>4. CASE ~(MaxBuffer > 0 /\ Len(buffer) >= MaxBuffer)
  <2>1. buffer' = Append(buffer, e) /\ UNCHANGED <<dropped_count, evicted>>
    BY <1>4 DEF Enqueue
  <2>2. /\ buffer' \in Seq(Entries) /\ Injective(buffer')
        /\ Elems(buffer') = Elems(buffer) \cup {e}
    BY <1>1, <2>1, AppendElems
  <2> QED
    BY <1>1, <2>1, <2>2
<1> QED
  BY <1>3, <1>4

-----------------------------------------------------------------------------
(* The steps                                                               *)

\* The network thread enqueues a new entry.
LEMMA OnMessageKeeps ==
  ASSUME IInv, OnMessage
  PROVE  IInv'
<1> USE DEF IInv, EntriesOnce
<1> DEFINE e == arrived + 1
<1>1. /\ arrived \in Nat /\ e \in Entries /\ arrived' = e
      /\ buffer \in Seq(Entries) /\ 1 .. e = (1 .. arrived) \cup {e}
      /\ e \notin 1 .. arrived
  BY DEF OnMessage, TypeOK, Entries
<1>2. Enqueue(e) /\ UNCHANGED <<drained, mainVars, stored, shutdown_requested>>
  BY DEF OnMessage
<1>3. e \notin Elems(buffer) \cup Elems(batch) \cup evicted
  BY <1>1 DEF Arrived
<1> HIDE DEF e
<1>4. /\ buffer' \in Seq(Entries) /\ Injective(buffer')
      /\ evicted' \subseteq Entries /\ evicted' \cap Elems(buffer') = {}
      /\ evicted \subseteq evicted'
      /\ dropped_count' \in Nat /\ dropped_count' = Cardinality(evicted')
      /\ Elems(buffer') \cup evicted' = Elems(buffer) \cup evicted \cup {e}
      /\ evicted' # evicted => MaxBuffer > 0 /\ Len(buffer) >= MaxBuffer
  BY <1>1, <1>2, <1>3, EnqueueKeeps
<1>5. TypeOK'
  BY <1>1, <1>2, <1>4 DEF TypeOK, mainVars, Entries
<1>6. EntriesOnce'
  BY <1>2, <1>3, <1>4, <1>5 DEF mainVars
<1>7. BatchInHand' /\ Arrived' /\ NothingVanishes'
  BY <1>1, <1>2, <1>4 DEF mainVars, BatchInHand, Arrived, NothingVanishes
<1>8. NoEvictionWithoutPressure'
  <2>1. Len(buffer) <= arrived
    BY <1>1, Pigeons DEF Arrived
  <2>2. Len(buffer) \in Nat
    BY <1>1, LenProperties
  <2> QED
    BY <1>1, <1>4, <2>1, <2>2 DEF NoEvictionWithoutPressure, e
<1>9. LateOnly'
  <2>1. drained \in Nat
    BY DEF TypeOK
  <2>2. /\ arrived <= e /\ \A n \in drained + 1 .. arrived : n \in drained + 1 .. e
        /\ drained <= arrived => e \in drained + 1 .. e
    BY <1>1, <2>1 DEF e
  <2>3. Elems(buffer') \subseteq Elems(buffer) \cup {e}
    BY <1>4
  <2>4. drained <= arrived /\ drained <= e
    BY <1>1, <2>1, <2>2 DEF LateOnly
  <2>5. drained' <= arrived'
    BY <1>1, <1>2, <2>4
  <2> QED
    BY <1>1, <1>2, <2>2, <2>3, <2>4, <2>5 DEF mainVars, LateOnly
<1> QED
  BY <1>6, <1>7, <1>8, <1>9

\* main() puts back the first of the entries it has in hand.
LEMMA RequeueKeeps ==
  ASSUME IInv, Requeue
  PROVE  IInv'
<1> USE DEF IInv, EntriesOnce
<1> DEFINE e == Head(batch)
<1>1. /\ buffer \in Seq(Entries) /\ batch \in Seq(Entries) /\ batch # <<>>
      /\ arrived \in Nat /\ Len(buffer) \in Nat
  BY LenProperties DEF Requeue, BatchInHand, TypeOK
<1>2. /\ Enqueue(e) /\ batch' = Tail(batch)
      /\ main_pc' = IF Len(batch) = 1 THEN "check" ELSE "requeue"
      /\ UNCHANGED <<arrived, drained, attempt, lost, refused, stored,
                     shutdown_requested>>
  BY DEF Requeue, arrivals
<1>3. /\ e \in Entries /\ e \in Elems(batch) /\ batch' \in Seq(Entries)
      /\ Elems(batch') = Elems(batch) \ {e} /\ Injective(batch')
      /\ batch' = <<>> <=> Len(batch) = 1
  BY <1>1, <1>2, TailElems
<1>4. e \notin Elems(buffer) \cup evicted
  BY <1>3
<1> HIDE DEF e
<1>5. /\ buffer' \in Seq(Entries) /\ Injective(buffer')
      /\ evicted' \subseteq Entries /\ evicted' \cap Elems(buffer') = {}
      /\ evicted \subseteq evicted'
      /\ dropped_count' \in Nat /\ dropped_count' = Cardinality(evicted')
      /\ Elems(buffer') \cup evicted' = Elems(buffer) \cup evicted \cup {e}
      /\ evicted' # evicted => MaxBuffer > 0 /\ Len(buffer) >= MaxBuffer
  BY <1>2, <1>3, <1>4, EnqueueKeeps
<1>6. TypeOK'
  BY <1>2, <1>3, <1>5 DEF TypeOK, MainPCs
<1>7. EntriesOnce'
  BY <1>2, <1>3, <1>5, <1>6
<1>8. BatchInHand' /\ Arrived' /\ NothingVanishes'
  <2>1. BatchInHand'
    BY <1>2, <1>3 DEF BatchInHand
  <2>2. Arrived'
    BY <1>2, <1>3, <1>5 DEF Arrived
  <2>3. NothingVanishes'
    BY <1>2, <1>3, <1>5 DEF NothingVanishes
  <2> QED
    BY <2>1, <2>2, <2>3
<1>9. NoEvictionWithoutPressure'
  \* The buffer and the entry in hand are different entries that have arrived.
  <2>1. /\ Append(buffer, e) \in Seq(Entries) /\ Injective(Append(buffer, e))
        /\ Elems(Append(buffer, e)) \subseteq 1 .. arrived
        /\ Len(Append(buffer, e)) = Len(buffer) + 1
    BY <1>1, <1>3, <1>4, AppendElems, AppendProperties DEF Arrived
  <2>2. Len(buffer) + 1 <= arrived
    BY <1>1, <2>1, Pigeons
  <2> QED
    BY <1>1, <1>2, <1>5, <2>2 DEF NoEvictionWithoutPressure
<1>10. LateOnly'
  BY <1>2 DEF LateOnly
<1> QED
  BY <1>7, <1>8, <1>9, <1>10

\* main() swaps the buffer for an empty one.
LEMMA DrainKeeps ==
  ASSUME IInv, Poll \/ FinalDrain
  PROVE  IInv'
<1> USE DEF IInv, EntriesOnce
<1>1. /\ batch' = buffer /\ buffer' = <<>> /\ batch = <<>>
      /\ main_pc' \in MainPCs
      /\ buffer # <<>> <=> main_pc' \in {"post", "final_post", "requeue"}
      /\ drained' \in {drained, arrived}
      /\ main_pc' \in {"final_post", "stop", "stopped"} => drained' = arrived
      /\ UNCHANGED <<arrived, dropped_count, evicted, attempt, lost, refused, stored,
                     shutdown_requested>>
  BY DEF arrivals, Poll, FinalDrain, Drain, BatchInHand, MainPCs
<1>2. <<>> \in Seq(Entries) /\ Elems(<<>>) = {} /\ Injective(<<>>)
  BY EmptyElems
<1>3. TypeOK'
  BY <1>1, <1>2 DEF TypeOK
<1>4. EntriesOnce'
  BY <1>1, <1>2, <1>3
<1>5. LateOnly'
  <2>1. arrived \in Nat /\ drained' <= arrived'
    BY <1>1 DEF LateOnly, TypeOK
  <2> QED
    BY <1>1, <1>2, <2>1 DEF LateOnly
<1> QED
  BY <1>1, <1>2, <1>4, <1>5 DEF BatchInHand, Arrived, NothingVanishes,
                                NoEvictionWithoutPressure

\* A POST and what main() does with its outcome.
LEMMA PostKeeps ==
  ASSUME IInv, PostOk \/ PostRefused \/ PostFailed
  PROVE  IInv'
<1> USE DEF IInv, EntriesOnce
<1>1. <<>> \in Seq(Entries) /\ Elems(<<>>) = {} /\ Injective(<<>>)
  BY EmptyElems
<1>2. main_pc \in {"post", "final_post"} /\ batch # <<>>
  BY DEF PostOk, PostRefused, PostFailed, Posting, BatchInHand
<1>3. UNCHANGED <<arrived, drained, buffer, dropped_count, evicted, shutdown_requested>>
  BY DEF PostOk, PostRefused, PostFailed, arrivals, workerVars
<1>4. Elems(batch) \subseteq Entries
  BY <1>2, LenProperties DEF TypeOK, Elems
<1>5. /\ stored \subseteq stored' /\ stored' \subseteq Entries
      /\ lost \subseteq lost' /\ lost' \subseteq Entries
      /\ refused' \subseteq Entries
      /\ attempt' \in 1 .. Attempts
      /\ main_pc' \in MainPCs
  BY <1>2, <1>4 DEF PostOk, PostRefused, PostFailed, Inserted, NotInserted, TypeOK,
                    MainPCs
<1>6. \/ batch' = batch /\ main_pc' \in {"post", "final_post", "requeue"}
      \/ /\ batch' = <<>> /\ main_pc' \in {"check", "stop"}
         /\ Elems(batch) \subseteq stored' \cup lost'
  BY <1>2 DEF PostOk, PostRefused, PostFailed, Inserted, NotInserted
<1>7. TypeOK'
  BY <1>1, <1>3, <1>5, <1>6 DEF TypeOK
<1>8. EntriesOnce'
  BY <1>1, <1>3, <1>6, <1>7
<1>9. BatchInHand' /\ Arrived' /\ NoEvictionWithoutPressure'
  BY <1>1, <1>2, <1>3, <1>6 DEF BatchInHand, Arrived, NoEvictionWithoutPressure
<1>10. NothingVanishes'
  BY <1>1, <1>3, <1>5, <1>6 DEF NothingVanishes
<1>11. LateOnly'
  <2>1. main_pc' \in {"final_post", "stop", "stopped"} => main_pc = "final_post"
    BY <1>2 DEF PostOk, PostRefused, PostFailed, Inserted, NotInserted
  <2> QED
    BY <1>3, <2>1 DEF LateOnly
<1> QED
  BY <1>8, <1>9, <1>10, <1>11

\* The steps that touch neither the buffer nor a batch.
LEMMA ControlKeeps ==
  ASSUME IInv, Check \/ Stop \/ HandleSignal \/ UNCHANGED vars
  PROVE  IInv'
<1> USE DEF IInv, EntriesOnce
<1>1. /\ UNCHANGED <<arrived, drained, buffer, dropped_count, evicted, batch, attempt,
                     lost, refused, stored>>
      /\ main_pc' \in MainPCs /\ shutdown_requested' \in BOOLEAN
      /\ main_pc' \in {"post", "final_post", "requeue"} <=>
           main_pc \in {"post", "final_post", "requeue"}
  BY DEF Check, Stop, HandleSignal, vars, arrivals, workerVars, mainVars, TypeOK, MainPCs
<1>2. TypeOK'
  BY <1>1 DEF TypeOK
<1>3. main_pc' \in {"final_post", "stop", "stopped"} =>
        main_pc \in {"final_post", "stop", "stopped"}
  BY DEF Check, Stop, HandleSignal, vars, mainVars
<1> QED
  BY <1>1, <1>2, <1>3 DEF BatchInHand, Arrived, NothingVanishes, LateOnly,
                          NoEvictionWithoutPressure

\* The inductive invariant.
LEMMA Inductive == Spec => []IInv
<1>1. Init => IInv
  <2> SUFFICES ASSUME Init PROVE IInv
    OBVIOUS
  <2>1. Cardinality({}) = 0 /\ <<>> \in Seq(Entries)
    BY FS_EmptySet
  <2>2. 0 \in 0 .. MaxEntries /\ 1 \in 1 .. Attempts
    OBVIOUS
  <2>3. TypeOK
    BY <2>1, <2>2 DEF Init, TypeOK, MainPCs
  <2> QED
    BY <2>1, <2>3, EmptyElems
    DEF Init, IInv, EntriesOnce, BatchInHand, Arrived, NothingVanishes, LateOnly,
        NoEvictionWithoutPressure
<1>2. IInv /\ [Next]_vars => IInv'
  BY OnMessageKeeps, RequeueKeeps, DrainKeeps, PostKeeps, ControlKeeps
  DEF Next, Main, Stopped
<1> QED
  BY <1>1, <1>2, PTL DEF Spec

-----------------------------------------------------------------------------

\* GatewayWorker's lock keeps each entry in one place: re-queueing and enqueueing
\* neither duplicate an entry nor miscount the dropped ones.
THEOREM OnceCorrect == Spec => []EntriesOnce
<1>1. IInv => EntriesOnce
  BY DEF IInv
<1> QED
  BY <1>1, Inductive, PTL

\* After the shutdown of main() no entry that arrived before the final drain is
\* unaccounted for; only later ones die in the buffer.
THEOREM ShutdownCorrect == Spec => []ShutdownAccounts
<1>1. IInv => ShutdownAccounts
  <2> SUFFICES ASSUME IInv, main_pc = "stopped" PROVE ShutdownAccounts
    BY DEF ShutdownAccounts
  <2>1. batch = <<>> /\ Elems(batch) = {}
    BY EmptyElems DEF IInv, BatchInHand
  <2>2. drained \in Nat /\ arrived \in Nat /\ drained <= arrived
    BY DEF IInv, EntriesOnce, TypeOK, LateOnly
  <2>3. Elems(buffer) \subseteq drained + 1 .. arrived
    BY DEF IInv, LateOnly
  <2>4. \A n \in 1 .. drained : n \in 1 .. arrived /\ n \notin drained + 1 .. arrived
    BY <2>2
  <2> QED
    BY <2>1, <2>3, <2>4 DEF IInv, NothingVanishes, ShutdownAccounts
<1> QED
  BY <1>1, Inductive, PTL

\* enqueue_telemetry drops nothing while the buffer could hold all that arrived.
THEOREM PressureCorrect == Spec => []NoEvictionWithoutPressure
<1>1. IInv => NoEvictionWithoutPressure
  BY DEF IInv
<1> QED
  BY <1>1, Inductive, PTL
-----------------------------------------------------------------------------
(* The outbox                                                              *)

Held     == Elems(buffer) \cup Elems(batch)
Reported == evicted \cup lost

\* Entries are reported lost only by the final flush, which is the last batch.
LostLast == lost # {} => main_pc \in {"stop", "stopped"}

LEMMA LostLastKept == Spec => []LostLast
<1>1. Init => LostLast
  BY DEF Init, LostLast
<1>2. LostLast /\ [Next]_vars => LostLast'
  BY DEF LostLast, Next, Main, OnMessage, Check, Poll, FinalDrain, PostOk, PostRefused,
         PostFailed, Posting, Inserted, NotInserted, Requeue, Stop, HandleSignal, Stopped,
         mainVars, vars
<1> QED
  BY <1>1, <1>2, PTL DEF Spec

\* enqueue_telemetry adds an entry and may take the oldest one out.
LEMMA EnqueueMoves ==
  ASSUME TypeOK, Injective(buffer), NEW e \in Entries, e \notin Elems(buffer), Enqueue(e)
  PROVE  \E old \in SUBSET Elems(buffer) :
           /\ Elems(buffer') = (Elems(buffer) \ old) \cup {e}
           /\ evicted' = evicted \cup old
<1>1. buffer \in Seq(Entries)
  BY DEF TypeOK
<1>2. CASE MaxBuffer > 0 /\ Len(buffer) >= MaxBuffer
  <2>1. buffer # <<>>
    BY <1>1, <1>2, EmptySeq
  <2>2. /\ Tail(buffer) \in Seq(Entries) /\ Head(buffer) \in Elems(buffer)
        /\ Elems(Tail(buffer)) = Elems(buffer) \ {Head(buffer)}
    BY <1>1, <2>1, TailElems
  <2>3. buffer' = Append(Tail(buffer), e) /\ evicted' = evicted \cup {Head(buffer)}
    BY <1>2 DEF Enqueue
  <2>4. Elems(buffer') = Elems(Tail(buffer)) \cup {e}
    <3> DEFINE t == Tail(buffer)
    <3>1. t \in Seq(Entries) /\ buffer' = Append(t, e)
      BY <2>2, <2>3
    <3> HIDE DEF t
    <3>2. Elems(buffer') = Elems(t) \cup {e}
      BY <3>1, AppendElems
    <3> QED
      BY <3>2 DEF t
  <2> QED
    BY <2>2, <2>3, <2>4
<1>3. CASE ~(MaxBuffer > 0 /\ Len(buffer) >= MaxBuffer)
  <2>1. buffer' = Append(buffer, e) /\ evicted' = evicted
    BY <1>3 DEF Enqueue
  <2>2. Elems(buffer') = Elems(buffer) \cup {e}
    BY <1>1, <2>1, AppendElems
  <2> WITNESS {} \in SUBSET Elems(buffer)
  <2> QED
    BY <2>1, <2>2
<1> QED
  BY <1>2, <1>3

\* A new entry is taken over, perhaps for an old one.
LEMMA OnMessageTakes ==
  ASSUME IInv, OnMessage
  PROVE  Promise!Next
<1> DEFINE e == arrived + 1
<1>1. /\ arrived \in Nat /\ e \in Entries /\ arrived' = e
      /\ 1 .. e = (1 .. arrived) \cup {e} /\ e \notin 1 .. arrived
  BY DEF IInv, EntriesOnce, OnMessage, TypeOK, Entries
<1>2. Enqueue(e) /\ UNCHANGED <<batch, lost, stored>>
  BY DEF OnMessage, mainVars
<1>3. e \notin Elems(buffer) \cup Elems(batch)
  BY <1>1 DEF IInv, Arrived
<1>4. TypeOK /\ Injective(buffer) /\ Elems(buffer) \cap Elems(batch) = {}
  BY DEF IInv, EntriesOnce
<1> HIDE DEF e
<1>5. PICK old \in SUBSET Elems(buffer) :
        /\ Elems(buffer') = (Elems(buffer) \ old) \cup {e}
        /\ evicted' = evicted \cup old
  BY <1>1, <1>2, <1>3, <1>4, EnqueueMoves
<1>6. Held' = (Held \ old) \cup {e} /\ Reported' = Reported \cup old
  BY <1>2, <1>4, <1>5 DEF Held, Reported
<1>7. Promise!Take(e, old)
  BY <1>1, <1>2, <1>6 DEF Promise!Take, Held, Reported
<1>8. e \in Entries /\ old \in SUBSET (Elems(buffer) \cup Elems(batch))
  BY <1>1, <1>5
<1> QED
  BY <1>7, <1>8 DEF Promise!Next

\* Re-queueing moves an entry from the batch to the buffer and may give one up.
LEMMA RequeueGivesUp ==
  ASSUME IInv, Requeue
  PROVE  Promise!Next
<1> DEFINE e == Head(batch)
<1>1. /\ Enqueue(e) /\ batch' = Tail(batch)
      /\ UNCHANGED <<arrived, stored, lost>>
      /\ batch \in Seq(Entries) /\ batch # <<>> /\ Injective(batch)
  BY DEF IInv, EntriesOnce, Requeue, arrivals, BatchInHand, TypeOK
<1>2. /\ e \in Entries /\ e \in Elems(batch) /\ Elems(batch') = Elems(batch) \ {e}
  BY <1>1, TailElems
<1>3. TypeOK /\ Injective(buffer) /\ Elems(buffer) \cap Elems(batch) = {}
      /\ Elems(buffer) \subseteq 1 .. arrived
  BY DEF IInv, EntriesOnce, Arrived
<1> HIDE DEF e
<1>4. e \notin Elems(buffer)
  BY <1>2, <1>3
<1>5. PICK old \in SUBSET Elems(buffer) :
        /\ Elems(buffer') = (Elems(buffer) \ old) \cup {e}
        /\ evicted' = evicted \cup old
  BY <1>1, <1>2, <1>3, <1>4, EnqueueMoves
<1>6. Held' = Held \ old /\ Reported' = Reported \cup old
  BY <1>1, <1>2, <1>3, <1>5 DEF Held, Reported
<1>7. Promise!GiveUp(old, {})
  BY <1>1, <1>3, <1>5, <1>6 DEF Promise!GiveUp, Held, Reported
<1>8. old \in SUBSET (1 .. arrived)
  BY <1>3, <1>5
<1> QED
  BY <1>7, <1>8 DEF Promise!Next

\* A drain moves the entries from the buffer to the batch.
LEMMA DrainHidden ==
  ASSUME IInv, Poll \/ FinalDrain
  PROVE  UNCHANGED Promise!vars
<1>1. /\ batch' = buffer /\ buffer' = <<>> /\ batch = <<>>
      /\ UNCHANGED <<arrived, evicted, lost, stored>>
  BY DEF IInv, Poll, FinalDrain, Drain, BatchInHand, arrivals
<1>2. Held' = Held /\ Reported' = Reported
  BY <1>1, EmptyElems DEF Held, Reported
<1> QED
  BY <1>1, <1>2 DEF Promise!vars, Held, Reported

\* A POST delivers the batch or not, and main() lets go of it if it was answered,
\* or gives it up in the final flush.
LEMMA PostSettles ==
  ASSUME IInv, LostLast, PostOk \/ PostRefused \/ PostFailed
  PROVE  Promise!Next \/ UNCHANGED Promise!vars
<1> DEFINE all == Elems(batch)
<1>1. /\ UNCHANGED <<arrived, buffer, evicted>>
      /\ main_pc \in {"post", "final_post"} /\ lost = {}
  BY DEF PostOk, PostRefused, PostFailed, Posting, arrivals, workerVars, LostLast
<1>2. /\ all \subseteq 1 .. arrived /\ all \cap Elems(buffer) = {} /\ all \cap evicted = {}
  BY DEF IInv, EntriesOnce, Arrived
<1>3. \/ /\ batch' = <<>> /\ lost' = lost /\ stored' = stored \cup all
      \/ /\ batch' = batch /\ lost' = lost
         /\ stored' = stored \/ stored' = stored \cup all
      \/ /\ batch' = <<>> /\ lost' = lost \cup all
         /\ stored' = stored \/ stored' = stored \cup all
  BY DEF PostOk, PostRefused, PostFailed, Inserted, NotInserted
<1> HIDE DEF all
<1>4. ASSUME NEW s \in SUBSET all, NEW r \in SUBSET s,
             Promise!Deliver(s, r) \/ Promise!GiveUp(s, r)
      PROVE  Promise!Next
  <2>1. s \in SUBSET (1 .. arrived)
    BY <1>2
  <2> QED
    BY <1>4, <2>1 DEF Promise!Next
<1>5. Elems(<<>>) = {}
  BY EmptyElems
<1>6. CASE batch' = <<>> /\ lost' = lost /\ stored' = stored \cup all
  <2>1. Held' = Held \ all /\ Reported' = Reported \ all
    BY <1>1, <1>2, <1>5, <1>6 DEF Held, Reported, all
  <2>2. Promise!Deliver(all, all)
    BY <1>1, <1>2, <1>6, <2>1 DEF Promise!Deliver, Held, Reported
  <2> QED
    BY <1>4, <2>2
<1>7. CASE batch' = batch /\ lost' = lost /\ (stored' = stored \/ stored' = stored \cup all)
  <2>1. Held' = Held \ {} /\ Reported' = Reported \ {}
    BY <1>1, <1>7 DEF Held, Reported
  <2>2. CASE stored' = stored
    BY <1>1, <1>7, <2>2 DEF Promise!vars
  <2>3. CASE stored' = stored \cup all
    <3>1. Promise!Deliver(all, {})
      BY <1>1, <1>2, <2>1, <2>3 DEF Promise!Deliver, Held, Reported
    <3> QED
      BY <1>4, <3>1
  <2> QED
    BY <1>7, <2>2, <2>3
<1>8. CASE batch' = <<>> /\ lost' = lost \cup all
           /\ (stored' = stored \/ stored' = stored \cup all)
  <2>1. Held' = Held \ all /\ Reported' = Reported \cup all
    BY <1>1, <1>2, <1>5, <1>8 DEF Held, Reported, all
  <2>2. PICK unknown \in {{}, all} : stored' = stored \cup unknown
    BY <1>8
  <2>3. Promise!GiveUp(all, unknown)
    BY <1>1, <1>2, <2>1, <2>2 DEF Promise!GiveUp, Held, Reported
  <2> QED
    BY <1>4, <2>2, <2>3
<1> QED
  BY <1>3, <1>6, <1>7, <1>8

\* gateway_translator implements an outbox: an entry leaves its hands only when it
\* is stored, counted as dropped or reported lost, and does not come back.
THEOREM OutboxCorrect == Spec => ImplementsOutbox
<1>1. Init => Promise!Init
  <2> SUFFICES ASSUME Init PROVE Promise!Init
    OBVIOUS
  <2>1. 1 .. arrived = {}
    BY DEF Init
  <2> QED
    BY <2>1, EmptyElems DEF Init, Promise!Init
<1>2. IInv /\ LostLast /\ [Next]_vars => [Promise!Next]_(Promise!vars)
  <2> SUFFICES ASSUME IInv, LostLast, [Next]_vars
               PROVE  Promise!Next \/ UNCHANGED Promise!vars
    OBVIOUS
  <2>1. CASE Check \/ Stop \/ HandleSignal \/ Stopped \/ UNCHANGED vars
    BY <2>1 DEF Check, Stop, HandleSignal, Stopped, vars, arrivals, workerVars, mainVars,
                Promise!vars
  <2> QED
    BY <2>1, OnMessageTakes, RequeueGivesUp, DrainHidden, PostSettles DEF Next, Main
<1> QED
  BY <1>1, <1>2, Inductive, LostLastKept, PTL DEF Spec, ImplementsOutbox, Promise!Spec
=============================================================================
