-------------------------- MODULE ModbusBridgeProofs --------------------------
(***************************************************************************)
(* Proofs about ModbusBridge for any number of slaves, rounds, late answers*)
(* and stray bytes.                                                        *)
(***************************************************************************)
EXTENDS ModbusBridge, SequenceTheorems, TLAPS

USE NumSlavesAssumption, BoundsAssumption

\* A round has begun, and each slave before the present one is reported.
Progress ==
  /\ pc # "idle" => round # 0
  /\ pc \in {"send", "read"} => Len(nodes) = slave - 1
  /\ pc = "send" => \A k \in healthy : k < slave
  /\ pc = "read" => \A k \in healthy : k <= slave

\* What is left over, and the answer that is awaited.
Backlog == Len(wire) + Len(line) <= 7 * late + noise + IF pc = "read" THEN 7 ELSE 0

\* What may be on the line if nothing was left over.
Mine == {Own(slave), [from |-> slave, kind |-> "exception", round |-> round], Stray}

\* While an answer is awaited and nothing was left over, what is on the line is
\* this answer, undisturbed if the slave is healthy.
OwnBytes ==
  ~behind /\ pc = "read" =>
    /\ \A k \in DOMAIN line : line[k].of \in Mine
    /\ \A k \in DOMAIN wire : wire[k].of \in Mine
    /\ slave \in healthy => line \o wire = Bytes(Own(slave))

IInv ==
  /\ TypeOK /\ Progress /\ Backlog /\ OwnBytes
  /\ FaultsIsolated

-----------------------------------------------------------------------------
(* Bytes and node states                                                   *)

\* Answers, stray bytes and errors have their types.
LEMMA ByteTypes ==
  /\ [of |-> Stray, at |-> 1] \in Byte
  /\ Error \in NodeState /\ Error.status = "NODE_ERROR"
  /\ \A a \in Answers :
       /\ Bytes(a) \in Seq(Byte) /\ Len(Bytes(a)) \in {5, 7}
       /\ DOMAIN Bytes(a) = 1 .. Len(Bytes(a))
       /\ a.kind = "data" => Len(Bytes(a)) = 7
       /\ \A k \in 1 .. Len(Bytes(a)) : Bytes(a)[k] = [of |-> a, at |-> k]
<1>1. [of |-> Stray, at |-> 1] \in Byte
  BY DEF Byte
<1>2. Error \in NodeState /\ Error.status = "NODE_ERROR"
  BY <1>1 DEF Error, NodeState
<1>3. ASSUME NEW a \in Answers
      PROVE  /\ Bytes(a) \in Seq(Byte) /\ Len(Bytes(a)) \in {5, 7}
             /\ DOMAIN Bytes(a) = 1 .. Len(Bytes(a))
             /\ a.kind = "data" => Len(Bytes(a)) = 7
             /\ \A k \in 1 .. Len(Bytes(a)) : Bytes(a)[k] = [of |-> a, at |-> k]
  <2>1. Size(a) \in {5, 7} /\ (a.kind = "data" => Size(a) = 7)
    BY DEF Size
  <2>2. \A k \in 1 .. Size(a) : [of |-> a, at |-> k] \in Byte
    BY <2>1 DEF Byte
  <2>3. Bytes(a) \in [1 .. Size(a) -> Byte]
    BY <2>2 DEF Bytes
  <2>4. Bytes(a) \in Seq(Byte) /\ Len(Bytes(a)) = Size(a)
    BY <2>1, <2>3
  <2> QED
    BY <2>1, <2>4 DEF Bytes
<1> QED
  BY <1>1, <1>2, <1>3

\* A node state is online only for a whole answer with data.
LEMMA StateOf ==
  ASSUME NEW bytes \in Seq(Byte), NEW state, state = NodeStateOf(bytes)
  PROVE  /\ state \in NodeState
         /\ state.status = "NODE_ONLINE" =>
              /\ 1 \in DOMAIN bytes
              /\ state.hi.of = bytes[1].of
              /\ state.hi.of.kind = "data"
<1>1. DOMAIN bytes = 1 .. Len(bytes) /\ \A k \in 1 .. Len(bytes) : bytes[k] \in Byte
  BY LenProperties
<1>2. CASE /\ Len(bytes) = Expected
           /\ bytes = Bytes(bytes[1].of)
           /\ bytes[1].of.kind = "data"
  <2>1. state = [status |-> "NODE_ONLINE", hi |-> bytes[4], lo |-> bytes[5]]
    BY <1>2 DEF NodeStateOf
  <2>2. {1, 4, 5} \subseteq DOMAIN bytes
    BY <1>1, <1>2 DEF Expected
  <2>3. bytes[4] \in Byte /\ bytes[5] \in Byte
    BY <1>1, <2>2
  <2>4. /\ bytes[4] = [of |-> bytes[1].of, at |-> 4]
        /\ bytes[5] = [of |-> bytes[1].of, at |-> 5]
    <3>1. ASSUME NEW a, bytes = Bytes(a), a.kind = "data"
          PROVE  bytes[4] = [of |-> a, at |-> 4] /\ bytes[5] = [of |-> a, at |-> 5]
      BY <3>1 DEF Bytes, Size
    <3> QED
      BY <1>2, <3>1
  <2> QED
    BY <1>2, <2>1, <2>2, <2>3, <2>4 DEF NodeState
<1>3. CASE ~ /\ Len(bytes) = Expected
             /\ bytes = Bytes(bytes[1].of)
             /\ bytes[1].of.kind = "data"
  BY <1>3, ByteTypes DEF NodeStateOf
<1> QED
  BY <1>2, <1>3

\* A slave's whole answer makes it online.
LEMMA WholeAnswer ==
  ASSUME NEW a \in Answers, a.kind = "data"
  PROVE  NodeStateOf(Bytes(a)).status = "NODE_ONLINE"
<1>1. Len(Bytes(a)) = 7 /\ Bytes(a)[1] = [of |-> a, at |-> 1]
  BY ByteTypes
<1> QED
  BY <1>1 DEF NodeStateOf, Expected

\* The first bytes of a sequence and the rest of it.
LEMMA Split ==
  ASSUME NEW q \in Seq(Byte), NEW n \in 0 .. Len(q)
  PROVE  /\ SubSeq(q, 1, n) \in Seq(Byte) /\ Len(SubSeq(q, 1, n)) = n
         /\ SubSeq(q, n + 1, Len(q)) \in Seq(Byte)
         /\ Len(SubSeq(q, n + 1, Len(q))) = Len(q) - n
         /\ \A k \in 1 .. n : SubSeq(q, 1, n)[k] = q[k]
         /\ \A k \in 1 .. Len(q) - n :
              k + n \in 1 .. Len(q) /\ SubSeq(q, n + 1, Len(q))[k] = q[k + n]
<1>1. Len(q) \in Nat /\ \A k \in 1 .. Len(q) : q[k] \in Byte
  BY LenProperties
<1>2. \A k \in 1 .. n : k \in 1 .. Len(q)
  BY <1>1
<1>3. \A k \in (n + 1) .. Len(q) : k \in 1 .. Len(q)
  BY <1>1
<1> QED
  BY <1>1, <1>2, <1>3

-----------------------------------------------------------------------------
(* The steps                                                               *)

\* The parts of the invariant that speak of the reported slaves, when the next
\* one is reported in a state that the rest of the step justifies.
LEMMA ReportKeeps ==
  ASSUME IInv, pc \in {"send", "read"}, NEW state \in NodeState, Report(state),
         UNCHANGED <<round, behind, published, noise>>,
         healthy' \subseteq healthy,
         slave \in healthy' /\ ~behind => state.status = "NODE_ONLINE",
         state.status = "NODE_ONLINE" /\ ~behind => state.hi.of = Own(slave)
  PROVE  /\ nodes' \in Seq(NodeState) /\ Len(nodes') <= NumSlaves
         /\ slave' \in Slaves /\ pc' \in {"send", "publish"}
         /\ Progress' /\ FaultsIsolated'
<1>1. /\ slave \in 1 .. NumSlaves /\ Len(nodes) = slave - 1
      /\ nodes \in Seq(NodeState) /\ healthy \subseteq 1 .. NumSlaves
  BY DEF IInv, TypeOK, Progress, Slaves
<1>2. /\ nodes' = Append(nodes, state)
      /\ IF slave < NumSlaves THEN pc' = "send" /\ slave' = slave + 1
                              ELSE pc' = "publish" /\ UNCHANGED slave
  BY DEF Report
<1>3. /\ nodes' \in Seq(NodeState) /\ Len(nodes') = slave
      /\ \A k \in 1 .. slave - 1 : nodes'[k] = nodes[k]
      /\ nodes'[slave] = state
  BY <1>1, <1>2, AppendProperties
<1>4. /\ DOMAIN nodes = 1 .. slave - 1 /\ DOMAIN nodes' = 1 .. slave
      /\ \A k \in 1 .. slave : k \in 1 .. slave - 1 \/ k = slave
  BY <1>1, <1>3, LenProperties
<1>5. slave' \in Slaves /\ pc' \in {"send", "publish"} /\ Len(nodes') <= NumSlaves
  BY <1>1, <1>2, <1>3 DEF Slaves
<1>6. Progress'
  <2>1. \A k \in healthy' : k <= slave
    BY <1>1 DEF IInv, Progress
  <2> QED
    BY <1>1, <1>2, <1>3, <2>1 DEF IInv, Progress
<1>7. FaultsIsolated'
  BY <1>3, <1>4 DEF IInv, FaultsIsolated, Online, Own
<1> QED
  BY <1>3, <1>5, <1>6, <1>7

\* Bytes arrive in the receive buffer.
LEMMA ArriveKeeps ==
  ASSUME IInv, Arrive
  PROVE  IInv'
<1>1. PICK n \in 1 .. Len(wire) :
        /\ line' = line \o SubSeq(wire, 1, n)
        /\ wire' = SubSeq(wire, n + 1, Len(wire))
        /\ UNCHANGED <<pc, round, slave, nodes, published, healthy, pastVars>>
  BY DEF Arrive
<1>2. /\ wire \in Seq(Byte) /\ line \in Seq(Byte)
      /\ Len(wire) \in Nat /\ Len(line) \in Nat /\ n \in 0 .. Len(wire)
  BY LenProperties DEF IInv, TypeOK
<1> DEFINE first == SubSeq(wire, 1, n)
<1>3. /\ first \in Seq(Byte) /\ Len(first) = n
      /\ wire' \in Seq(Byte) /\ Len(wire') = Len(wire) - n
      /\ \A k \in 1 .. n : first[k] = wire[k]
      /\ \A k \in 1 .. Len(wire) - n : k + n \in 1 .. Len(wire) /\ wire'[k] = wire[k + n]
  BY <1>1, <1>2, Split
<1>4. line' = line \o first
  BY <1>1
<1> HIDE DEF first
<1>5. /\ line' \in Seq(Byte) /\ Len(line') = Len(line) + n
      /\ \A k \in 1 .. Len(line) + n :
           line'[k] = IF k <= Len(line) THEN line[k] ELSE first[k - Len(line)]
  BY <1>2, <1>3, <1>4, ConcatProperties
<1>6. TypeOK'
  BY <1>1, <1>3, <1>5 DEF IInv, TypeOK, pastVars
<1>7. Progress' /\ FaultsIsolated'
  BY <1>1 DEF IInv, Progress, FaultsIsolated, Online, Own, pastVars
<1>8. Backlog'
  BY <1>1, <1>2, <1>3, <1>5 DEF IInv, Backlog, pastVars
<1>9. OwnBytes'
  <2>1. line' \o wire' = line \o wire
    <3>1. /\ line \o wire \in Seq(Byte) /\ line' \o wire' \in Seq(Byte)
          /\ Len(line \o wire) = Len(line) + Len(wire)
          /\ Len(line' \o wire') = Len(line) + Len(wire)
      <4>1. line \o wire \in Seq(Byte) /\ Len(line \o wire) = Len(line) + Len(wire)
        BY <1>2, ConcatProperties
      <4>2. /\ line' \o wire' \in Seq(Byte)
            /\ Len(line' \o wire') = Len(line') + Len(wire')
        BY <1>3, <1>5, ConcatProperties
      <4> QED
        BY <1>2, <1>3, <1>5, <4>1, <4>2
    <3>2. ASSUME NEW k \in 1 .. Len(line) + Len(wire)
          PROVE  (line' \o wire')[k] = (line \o wire)[k]
      <4>1. (line \o wire)[k] = IF k <= Len(line) THEN line[k] ELSE wire[k - Len(line)]
        BY <1>2, ConcatProperties
      <4>2. (line' \o wire')[k] = IF k <= Len(line) + n THEN line'[k]
                                  ELSE wire'[k - (Len(line) + n)]
        BY <1>2, <1>3, <1>5, ConcatProperties
      <4>3. CASE k <= Len(line)
        BY <1>2, <1>5, <4>1, <4>2, <4>3
      <4>4. CASE k > Len(line) /\ k <= Len(line) + n
        BY <1>2, <1>3, <1>5, <4>1, <4>2, <4>4
      <4>5. CASE k > Len(line) + n
        <5> DEFINE j == k - (Len(line) + n)
        <5>1. j \in 1 .. Len(wire) - n /\ j + n = k - Len(line)
          BY <1>2, <4>5
        <5>2. ~(k <= Len(line)) /\ ~(k <= Len(line) + n)
          BY <1>2, <4>5
        <5>3. (line' \o wire')[k] = wire'[j]
          BY <4>2, <5>2
        <5> HIDE DEF j
        <5>4. wire'[j] = wire[k - Len(line)]
          BY <1>3, <5>1
        <5> QED
          BY <4>1, <5>2, <5>3, <5>4
      <4>6. k \in Nat /\ n \in Nat /\ Len(line) \in Nat
        BY <1>2
      <4>7. k <= Len(line) \/ (k > Len(line) /\ k <= Len(line) + n) \/ k > Len(line) + n
        BY <4>6
      <4> QED
        BY <4>3, <4>4, <4>5, <4>7
    <3> QED
      BY <3>1, <3>2, SeqEqual
  <2>2. /\ DOMAIN line = 1 .. Len(line) /\ DOMAIN wire = 1 .. Len(wire)
        /\ DOMAIN line' = 1 .. Len(line') /\ DOMAIN wire' = 1 .. Len(wire')
    BY <1>2, <1>3, <1>5, LenProperties
  <2>3. \A k \in DOMAIN line' : \/ k \in DOMAIN line /\ line'[k] = line[k]
                                \/ \E j \in DOMAIN wire : line'[k] = wire[j]
    <3> SUFFICES ASSUME NEW k \in DOMAIN line', k > Len(line)
                 PROVE  \E j \in DOMAIN wire : line'[k] = wire[j]
      BY <1>2, <1>5, <2>2
    <3>1. k - Len(line) \in 1 .. n /\ k - Len(line) \in DOMAIN wire
      BY <1>2, <1>5, <2>2
    <3>2. line'[k] = wire[k - Len(line)]
      BY <1>2, <1>3, <1>5, <2>2, <3>1
    <3> QED
      BY <3>1, <3>2
  <2>4. \A k \in DOMAIN wire' : \E j \in DOMAIN wire : wire'[k] = wire[j]
    BY <1>2, <1>3, <2>2
  <2> QED
    BY <1>1, <2>1, <2>3, <2>4 DEF IInv, OwnBytes, Mine, Own, pastVars
<1> QED
  BY <1>6, <1>7, <1>8, <1>9 DEF IInv

\* A stray byte.
LEMMA NoiseKeeps ==
  ASSUME IInv, Noise
  PROVE  IInv'
<1> DEFINE stray == [of |-> Stray, at |-> 1]
<1>1. /\ noise' = noise + 1 /\ noise < MaxNoise
      /\ wire' = Append(wire, stray)
      /\ healthy' = IF pc = "read" THEN healthy \ {slave} ELSE healthy
      /\ UNCHANGED <<pc, round, slave, nodes, line, published, late, behind>>
  BY DEF Noise
<1>2. stray \in Byte /\ stray.of \in Mine
  BY ByteTypes DEF Mine
<1>3. wire \in Seq(Byte) /\ line \in Seq(Byte) /\ Len(wire) \in Nat /\ Len(line) \in Nat
  BY LenProperties DEF IInv, TypeOK
<1> HIDE DEF stray
<1>4. /\ wire' \in Seq(Byte) /\ Len(wire') = Len(wire) + 1
      /\ \A k \in 1 .. Len(wire) : wire'[k] = wire[k]
      /\ wire'[Len(wire) + 1] = stray
      /\ DOMAIN wire = 1 .. Len(wire) /\ DOMAIN wire' = 1 .. Len(wire) + 1
  BY <1>1, <1>2, <1>3, AppendProperties, LenProperties
<1>5. TypeOK'
  BY <1>1, <1>4 DEF IInv, TypeOK
<1>6. Progress' /\ FaultsIsolated'
  BY <1>1 DEF IInv, Progress, FaultsIsolated, Online, Own
<1>7. Backlog'
  <2>1. Backlog /\ late \in Nat /\ noise \in Nat
    BY DEF IInv, TypeOK
  <2>2. /\ Len(wire') = Len(wire) + 1 /\ line' = line
        /\ late' = late /\ noise' = noise + 1 /\ pc' = pc
    BY <1>1, <1>4
  <2>3. Len(wire) + 1 + Len(line)
          <= 7 * late + (noise + 1) + IF pc = "read" THEN 7 ELSE 0
    BY <1>3, <2>1 DEF Backlog
  <2> QED
    BY <2>2, <2>3 DEF Backlog
<1>8. OwnBytes'
  <2>1. \A k \in DOMAIN wire' : \/ k \in DOMAIN wire /\ wire'[k] = wire[k]
                                \/ wire'[k] = stray
    BY <1>3, <1>4
  <2>2. Mine' = Mine
    BY <1>1 DEF Mine, Own
  <2> QED
    BY <1>1, <1>2, <2>1, <2>2 DEF IInv, OwnBytes
<1> QED
  BY <1>5, <1>6, <1>7, <1>8 DEF IInv

\* A request is sent: if nothing was left over, its answer is alone on the line.
LEMMA SendKeeps ==
  ASSUME IInv, SendRequest
  PROVE  IInv'
<1> USE DEF IInv
<1>1. /\ pc = "send" /\ pc' = "read"
      /\ behind' = (behind \/ wire # <<>> \/ line # <<>>)
      /\ UNCHANGED <<round, slave, nodes, line, published, late, noise>>
  BY DEF SendRequest
<1>2. /\ round \in 1 .. MaxRounds /\ slave \in Slaves
      /\ wire \in Seq(Byte) /\ line \in Seq(Byte) /\ Len(wire) \in Nat /\ Len(line) \in Nat
  BY <1>1, LenProperties DEF TypeOK, Progress
<1>3. /\ slave \notin healthy /\ healthy' \subseteq healthy \cup {slave}
      /\ healthy \subseteq Slaves /\ \A k \in Slaves : k \in Nat
  BY <1>1 DEF SendRequest, TypeOK, Progress, Slaves
<1>4. PICK answer :
        /\ wire' = wire \o answer /\ answer \in Seq(Byte) /\ Len(answer) <= 7
        /\ Len(answer) \in Nat
        /\ \A k \in DOMAIN answer : answer[k].of \in Mine
        /\ slave \in healthy' => answer = Bytes(Own(slave))
  <2>1. ASSUME NEW a \in Answers, a \in Mine
        PROVE  /\ Bytes(a) \in Seq(Byte) /\ Len(Bytes(a)) <= 7 /\ Len(Bytes(a)) \in Nat
               /\ \A k \in DOMAIN Bytes(a) : Bytes(a)[k].of \in Mine
    <3>1. /\ Bytes(a) \in Seq(Byte) /\ Len(Bytes(a)) \in {5, 7}
          /\ DOMAIN Bytes(a) = 1 .. Len(Bytes(a))
          /\ \A k \in 1 .. Len(Bytes(a)) : Bytes(a)[k] = [of |-> a, at |-> k]
      BY ByteTypes
    <3> QED
      BY <2>1, <3>1
  <2>2. CASE /\ wire' = wire \o Bytes(Own(slave))
             /\ healthy' = healthy \cup {slave}
    <3>1. Own(slave) \in Answers /\ Own(slave) \in Mine
      BY <1>2 DEF Own, Answers, Mine
    <3> QED
      BY <2>1, <2>2, <3>1
  <2>3. CASE /\ wire' = wire \o Bytes([from |-> slave, kind |-> "exception",
                                       round |-> round])
             /\ UNCHANGED healthy
    <3>1. /\ [from |-> slave, kind |-> "exception", round |-> round] \in Answers
          /\ [from |-> slave, kind |-> "exception", round |-> round] \in Mine
      BY <1>2 DEF Answers, Mine
    <3> QED
      BY <1>3, <2>1, <2>3, <3>1
  <2>4. CASE UNCHANGED <<wire, healthy>>
    <3>1. wire' = wire \o <<>> /\ <<>> \in Seq(Byte) /\ Len(<<>>) = 0
      BY <1>2, <2>4, EmptySeq, ConcatEmptySeq
    <3>2. DOMAIN <<>> = {} /\ slave \notin healthy'
      BY <1>3, <2>4
    <3>3. Len(<<>>) <= 7 /\ Len(<<>>) \in Nat
      BY <3>1
    <3> QED
      BY <3>1, <3>2, <3>3
  <2> QED
    BY <2>2, <2>3, <2>4 DEF SendRequest, Own
<1>5. wire' \in Seq(Byte) /\ Len(wire') = Len(wire) + Len(answer)
  BY <1>2, <1>4, ConcatProperties
<1>6. TypeOK'
  <2>1. behind' \in BOOLEAN
    BY <1>1
  <2>2. healthy' \subseteq Slaves /\ pc' \in {"idle", "send", "read", "publish"}
    BY <1>1, <1>2, <1>3
  <2> QED
    BY <1>1, <1>5, <2>1, <2>2 DEF TypeOK
<1>7. Progress'
  BY <1>1, <1>2, <1>3 DEF Progress
<1>8. FaultsIsolated'
  <2>1. slave \notin DOMAIN nodes
    BY <1>1, <1>2, LenProperties DEF Progress, TypeOK, Slaves
  <2> QED
    BY <1>1, <1>3, <2>1 DEF FaultsIsolated, Online, Own
<1>9. Backlog'
  BY <1>1, <1>2, <1>4, <1>5 DEF Backlog, TypeOK
<1>10. OwnBytes'
  <2> SUFFICES ASSUME wire = <<>>, line = <<>>
               PROVE  OwnBytes'
    BY <1>1 DEF OwnBytes
  <2>1. wire' = answer /\ line' = <<>> /\ line' \o wire' = answer
    BY <1>1, <1>4, ConcatEmptySeq
  <2>2. Mine' = Mine /\ Own(slave)' = Own(slave)
    BY <1>1 DEF Mine, Own
  <2>3. DOMAIN line' = {}
    BY <2>1
  <2> QED
    BY <1>1, <1>4, <2>1, <2>2, <2>3 DEF OwnBytes
<1> QED
  BY <1>6, <1>7, <1>8, <1>9, <1>10

\* A short write: the slave is reported as an error and nothing was sent.
LEMMA ShortKeeps ==
  ASSUME IInv, SendShort
  PROVE  IInv'
<1>1. /\ pc = "send" /\ Report(Error)
      /\ UNCHANGED <<round, wire, line, published, healthy, late, noise, behind>>
  BY DEF SendShort, busVars, pastVars
<1>2. Error \in NodeState /\ Error.status # "NODE_ONLINE"
  BY ByteTypes
<1>3. slave \notin healthy
  BY <1>1 DEF IInv, Progress, TypeOK, Slaves
<1>4. /\ nodes' \in Seq(NodeState) /\ Len(nodes') <= NumSlaves
      /\ slave' \in Slaves /\ pc' \in {"send", "publish"}
      /\ Progress' /\ FaultsIsolated'
  BY <1>1, <1>2, <1>3, ReportKeeps
<1>5. TypeOK'
  BY <1>1, <1>4 DEF IInv, TypeOK
<1>6. Backlog' /\ OwnBytes'
  BY <1>1, <1>4 DEF IInv, Backlog, OwnBytes
<1> QED
  BY <1>4, <1>5, <1>6 DEF IInv

\* An exchange ends: what read() returned is judged, the rest is left over.
LEMMA ReadKeeps ==
  ASSUME IInv, ReadResponse
  PROVE  IInv'
<1> USE DEF IInv
<1> DEFINE n     == IF Len(line) < Expected THEN Len(line) ELSE Expected
           bytes == SubSeq(line, 1, n)
           state == NodeStateOf(bytes)
<1>1. /\ pc = "read" /\ Report(state)
      /\ line' = SubSeq(line, n + 1, Len(line))
      /\ \/ wire = <<>> /\ UNCHANGED <<late, healthy>>
         \/ /\ wire # <<>> /\ late' = late + 1 /\ healthy' = healthy \ {slave}
      /\ UNCHANGED <<round, wire, published, noise, behind>>
  BY DEF ReadResponse
<1>2. /\ wire \in Seq(Byte) /\ line \in Seq(Byte) /\ Len(wire) \in Nat /\ Len(line) \in Nat
      /\ DOMAIN line = 1 .. Len(line)
      /\ slave \in Slaves /\ round \in 1 .. MaxRounds
  BY <1>1, LenProperties DEF TypeOK, Progress
<1>3. n \in 0 .. Len(line) /\ (n < 7 => n = Len(line)) /\ n <= 7
  BY <1>2 DEF Expected
<1>a. n \in Nat /\ n <= Len(line) /\ Len(line) \in Nat
  BY <1>2 DEF Expected
<1> HIDE DEF n
<1>4. /\ bytes \in Seq(Byte) /\ Len(bytes) = n
      /\ line' \in Seq(Byte) /\ Len(line') = Len(line) - n
      /\ \A k \in 1 .. n : bytes[k] = line[k]
  BY <1>1, <1>2, <1>3, Split
<1>5. DOMAIN bytes = 1 .. n
  BY <1>4, LenProperties
<1> HIDE DEF bytes
<1>6. /\ state \in NodeState
      /\ state.status = "NODE_ONLINE" =>
           /\ 1 \in DOMAIN bytes
           /\ state.hi.of = bytes[1].of
           /\ state.hi.of.kind = "data"
  BY <1>4, StateOf
<1>7. healthy' \subseteq healthy
  BY <1>1
<1>8. state.status = "NODE_ONLINE" /\ ~behind => state.hi.of = Own(slave)
  <2> SUFFICES ASSUME state.status = "NODE_ONLINE", ~behind
               PROVE  state.hi.of = Own(slave)
    OBVIOUS
  <2>1. bytes[1] = line[1] /\ 1 \in DOMAIN line
    <3>1. 1 \in DOMAIN bytes
      BY <1>6
    <3>2. 1 \in 1 .. n
      BY <1>5, <3>1
    <3>3. 1 \in 1 .. Len(line)
      BY <1>a, <3>2
    <3> QED
      BY <1>2, <1>4, <3>2, <3>3
  <2>2. line[1].of \in Mine
    BY <1>1, <2>1 DEF OwnBytes
  <2> QED
    BY <1>6, <2>1, <2>2 DEF Mine, Own, Stray
<1>9. slave \in healthy' /\ ~behind => state.status = "NODE_ONLINE"
  <2> SUFFICES ASSUME slave \in healthy', ~behind
               PROVE  state.status = "NODE_ONLINE"
    OBVIOUS
  <2>1. wire = <<>> /\ slave \in healthy
    BY <1>1
  <2>2. line = Bytes(Own(slave))
    BY <1>1, <1>2, <2>1, ConcatEmptySeq DEF OwnBytes
  <2>3. Own(slave) \in Answers /\ Own(slave).kind = "data"
    BY <1>2 DEF Own, Answers
  <2>4. Len(line) = 7
    BY <2>2, <2>3, ByteTypes
  <2>5. n = 7
    BY <1>3, <2>4
  <2>6. bytes = line
    BY <1>2, <1>4, <2>4, <2>5, SeqEqual
  <2> QED
    BY <2>2, <2>3, <2>6, WholeAnswer
<1> HIDE DEF state
<1>10. /\ nodes' \in Seq(NodeState) /\ Len(nodes') <= NumSlaves
       /\ slave' \in Slaves /\ pc' \in {"send", "publish"}
       /\ Progress' /\ FaultsIsolated'
  BY <1>1, <1>6, <1>7, <1>8, <1>9, ReportKeeps
<1>11. TypeOK'
  <2>1. late' \in Nat /\ healthy' \subseteq Slaves
    BY <1>1 DEF TypeOK
  <2> QED
    BY <1>1, <1>4, <1>10, <2>1 DEF TypeOK
<1>12. Backlog'
  <2>1. /\ Len(wire) + Len(line) <= 7 * late + noise + 7
        /\ late \in Nat /\ noise \in Nat
    BY <1>1 DEF Backlog, TypeOK
  <2>2. Len(wire') = Len(wire) /\ noise' = noise /\ pc' # "read"
    BY <1>1, <1>10
  <2>a. /\ n \in Nat /\ Len(line) \in Nat /\ Len(wire) \in Nat
        /\ n <= 7 /\ (n < 7 => n = Len(line)) /\ n <= Len(line)
        /\ Len(line') = Len(line) - n
    BY <1>2, <1>3, <1>4, <1>a
  <2>3. Len(wire') + Len(line') <= 7 * late' + noise'
    <3>1. CASE wire = <<>> /\ late' = late
      <4>1. Len(wire) = 0
        BY <3>1, EmptySeq
      <4> QED
        BY <2>1, <2>2, <2>a, <3>1, <4>1
    <3>2. CASE late' = late + 1
      BY <2>1, <2>2, <2>a, <3>2
    <3> QED
      BY <1>1, <3>1, <3>2
  <2>4. late' \in Nat /\ noise' \in Nat
    BY <1>1, <2>1
  <2> QED
    BY <2>2, <2>3, <2>4 DEF Backlog
<1>13. OwnBytes'
  BY <1>10 DEF OwnBytes
<1> QED
  BY <1>10, <1>11, <1>12, <1>13

\* The steps that leave the line alone.
LEMMA ControlKeeps ==
  ASSUME IInv, Begin \/ PublishPayload \/ SerializeFails \/ PortFails \/ UNCHANGED vars
  PROVE  IInv'
<1> USE DEF IInv, busVars, pastVars
<1>1. CASE Begin
  <2>1. <<>> \in Seq(NodeState) /\ Len(<<>>) = 0 /\ DOMAIN <<>> = {}
    BY EmptySeq
  <2>2. /\ pc' = "send" /\ round' = round + 1 /\ round < MaxRounds /\ slave' = 1
        /\ nodes' = <<>> /\ healthy' = {} /\ pc = "idle"
        /\ UNCHANGED <<wire, line, published, late, noise, behind>>
    BY <1>1 DEF Begin
  <2>3. round' \in 1 .. MaxRounds /\ slave' \in Slaves
    BY <2>2 DEF TypeOK, Slaves
  <2>4. nodes' \in Seq(NodeState) /\ Len(nodes') <= NumSlaves
    BY <2>1, <2>2
  <2>5. TypeOK'
    BY <2>2, <2>3, <2>4 DEF TypeOK
  <2> QED
    BY <2>1, <2>2, <2>3, <2>5 DEF Progress, Backlog, OwnBytes, FaultsIsolated
<1>2. CASE PublishPayload \/ SerializeFails
  <2>1. TypeOK'
    BY <1>2 DEF PublishPayload, SerializeFails, TypeOK, Payload
  <2> QED
    BY <1>2, <2>1 DEF PublishPayload, SerializeFails, Progress, Backlog, OwnBytes,
      FaultsIsolated, Online, Own
<1>3. CASE PortFails
  <2>1. TypeOK'
    BY <1>3 DEF PortFails, TypeOK
  <2>2. Backlog'
    BY <1>3, LenProperties DEF PortFails, TypeOK, Backlog
  <2> QED
    BY <1>3, <2>1, <2>2 DEF PortFails, Progress, OwnBytes, FaultsIsolated,
      Online, Own
<1>4. CASE UNCHANGED vars
  BY <1>4 DEF vars, TypeOK, Progress, Backlog, OwnBytes, Mine,
    FaultsIsolated, Online, Own
<1> QED
  BY <1>1, <1>2, <1>3, <1>4

\* The inductive invariant.
LEMMA Inductive == Spec => []IInv
<1>1. Init => IInv
  <2> SUFFICES ASSUME Init PROVE IInv
    OBVIOUS
  <2>1. /\ <<>> \in Seq(Byte) /\ <<>> \in Seq(NodeState) /\ Len(<<>>) = 0
        /\ DOMAIN <<>> = {}
    BY EmptySeq
  <2>2. published \in Payload
    BY <2>1 DEF Init, Payload
  <2>3. slave \in Slaves /\ Len(nodes) <= NumSlaves
    BY <2>1 DEF Init, Slaves
  <2>4. TypeOK
    <3>1. /\ nodes \in Seq(NodeState) /\ wire \in Seq(Byte) /\ line \in Seq(Byte)
          /\ healthy \subseteq Slaves /\ behind \in BOOLEAN
      BY <2>1 DEF Init
    <3>2. round \in 0 .. MaxRounds /\ late \in Nat /\ noise \in 0 .. MaxNoise
      BY DEF Init
    <3>3. pc \in {"idle", "send", "read", "publish"}
      BY DEF Init
    <3> QED
      BY <2>2, <2>3, <3>1, <3>2, <3>3 DEF TypeOK
  <2> QED
    BY <2>1, <2>4 DEF Init, IInv, Progress, Backlog, OwnBytes, FaultsIsolated
<1>2. IInv /\ [Next]_vars => IInv'
  BY ArriveKeeps, NoiseKeeps, SendKeeps, ShortKeeps, ReadKeeps, ControlKeeps
  DEF Next, Done
<1> QED
  BY <1>1, <1>2, PTL DEF Spec

-----------------------------------------------------------------------------

\* The fault of one slave does not show in what read_input_registers reports of
\* another, as long as nothing is left over on the line.
THEOREM FaultsCorrect == Spec => []FaultsIsolated
<1>1. IInv => FaultsIsolated
  BY DEF IInv
<1> QED
  BY <1>1, Inductive, PTL

\* The line holds no more than late answers and stray bytes account for.
THEOREM BacklogCorrect == Spec => []BacklogBounded
<1>1. IInv => BacklogBounded
  <2> SUFFICES ASSUME IInv, pc = "send"
               PROVE  Len(wire) + Len(line) <= 7 * late + noise
    BY DEF IInv, BacklogBounded
  <2>1. Len(wire) + Len(line) <= 7 * late + noise + 0
    BY DEF IInv, Backlog
  <2> QED
    BY <2>1 DEF IInv, TypeOK
<1> QED
  BY <1>1, Inductive, PTL
=============================================================================
