---------------------------- MODULE ModbusBridge ----------------------------
(***************************************************************************)
(* modbus_bridge (edge_ops/modbus_bridge): TelemetryOrchestrator polls the *)
(* cycle counter of every slave through ModbusRTUMaster, one request after *)
(* the other on one serial line, and publishes the payload.                *)
(*                                                                         *)
(* The serial port and the slaves are external: a byte that a slave sends  *)
(* is on the wire until it arrives in the port's receive buffer, where it  *)
(* stays until it is read (ISerialPort has no flush).  A byte is the       *)
(* answer it belongs to and its place in it; the value of a counter is the *)
(* answer that carries it.  The CRC is taken to tell every other sequence  *)
(* of bytes from a whole answer.                                           *)
(***************************************************************************)
EXTENDS Naturals, Sequences

CONSTANTS
  NumSlaves,     \* slaves 1 .. NumSlaves are polled (5)
  MaxRounds,     \* bound on the calls of periodic_poll_and_publish
  MaxLate,       \* bound on the reads that end before the answer is there
  MaxNoise       \* bound on the stray bytes on the line

ASSUME NumSlavesAssumption == NumSlaves \in Nat \ {0}
ASSUME BoundsAssumption == MaxRounds \in Nat /\ MaxLate \in Nat /\ MaxNoise \in Nat

VARIABLES
  pc,        \* idle, or at the send, the read or the publish of a round
  round,     \* calls of periodic_poll_and_publish so far
  slave,     \* the slave whose turn it is
  nodes,     \* the payload's node states so far
  wire,      \* bytes that have been sent and have not arrived
  line,      \* the port's receive buffer
  published, \* the last payload and its round
  healthy,   \* slaves that answered this round's request well and in time
  late,      \* exchanges that ended before their answer had arrived
  noise,     \* stray bytes so far
  behind     \* a request was sent while bytes from before were unread

busVars  == <<wire, line>>
pastVars == <<late, noise, behind>>
vars == <<pc, round, slave, nodes, busVars, published, healthy, pastVars>>

Slaves == 1 .. NumSlaves

\* FC 0x04 with one register: slave, function, byte count, register, CRC; or an
\* exception: slave, function, code, CRC.
Answers == [from : Slaves, kind : {"data", "exception"}, round : 1 .. MaxRounds]
Stray   == [from |-> 0, kind |-> "stray", round |-> 0]
Size(a) == IF a.kind = "data" THEN 7 ELSE 5
Bytes(a) == [k \in 1 .. Size(a) |-> [of |-> a, at |-> k]]
Byte == [of : Answers, at : 1 .. 7] \cup {[of |-> Stray, at |-> 1]}

Error == [status |-> "NODE_ERROR", hi |-> [of |-> Stray, at |-> 1],
          lo |-> [of |-> Stray, at |-> 1]]
NodeState == [status : {"NODE_ONLINE", "NODE_ERROR"}, hi : Byte, lo : Byte]
Payload   == [round : 0 .. MaxRounds, nodes : Seq(NodeState)]

TypeOK ==
  /\ pc \in {"idle", "send", "read", "publish"}
  /\ round \in 0 .. MaxRounds
  /\ slave \in Slaves
  /\ nodes \in Seq(NodeState) /\ Len(nodes) <= NumSlaves
  /\ wire \in Seq(Byte) /\ line \in Seq(Byte)
  /\ published \in Payload
  /\ healthy \subseteq Slaves
  /\ late \in Nat /\ noise \in 0 .. MaxNoise
  /\ behind \in BOOLEAN

Init ==
  /\ pc = "idle" /\ round = 0 /\ slave = 1 /\ nodes = <<>>
  /\ wire = <<>> /\ line = <<>>
  /\ published = [round |-> 0, nodes |-> <<>>]
  /\ healthy = {} /\ late = 0 /\ noise = 0 /\ behind = FALSE

-----------------------------------------------------------------------------
(* The serial line                                                         *)

\* Some of the bytes on the wire arrive.
Arrive ==
  \E n \in 1 .. Len(wire) :
    /\ line' = line \o SubSeq(wire, 1, n)
    /\ wire' = SubSeq(wire, n + 1, Len(wire))
    /\ UNCHANGED <<pc, round, slave, nodes, published, healthy, pastVars>>

\* A stray byte is received; it spoils the exchange that is going on.
Noise ==
  /\ noise < MaxNoise
  /\ noise' = noise + 1
  /\ wire' = Append(wire, [of |-> Stray, at |-> 1])
  /\ healthy' = IF pc = "read" THEN healthy \ {slave} ELSE healthy
  /\ UNCHANGED <<pc, round, slave, nodes, line, published, late, behind>>

-----------------------------------------------------------------------------
(* periodic_poll_and_publish                                               *)

\* It is called again.
Begin ==
  /\ pc = "idle" /\ round < MaxRounds
  /\ pc' = "send" /\ round' = round + 1 /\ slave' = 1
  /\ nodes' = <<>> /\ healthy' = {}
  /\ UNCHANGED <<busVars, published, pastVars>>

\* The slave's node state is known: go on to the next slave.
Report(state) ==
  /\ nodes' = Append(nodes, state)
  /\ IF slave < NumSlaves THEN pc' = "send" /\ slave' = slave + 1
                          ELSE pc' = "publish" /\ UNCHANGED slave

\* send_request; the slave answers with its counter, with an exception or not
\* at all.
SendRequest ==
  /\ pc = "send"
  /\ pc' = "read"
  /\ behind' = (behind \/ wire # <<>> \/ line # <<>>)
  /\ \/ /\ wire' = wire \o Bytes([from |-> slave, kind |-> "data", round |-> round])
        /\ healthy' = healthy \cup {slave}
     \/ /\ wire' = wire \o Bytes([from |-> slave, kind |-> "exception",
                                  round |-> round])
        /\ UNCHANGED healthy
     \/ UNCHANGED <<wire, healthy>>
  /\ UNCHANGED <<round, slave, nodes, line, published, late, noise>>

\* A short write throws ModbusFrameError before anything is read.
SendShort ==
  /\ pc = "send"
  /\ Report(Error)
  /\ UNCHANGED <<round, busVars, published, healthy, pastVars>>

\* Mutant: the expected length forgets the CRC.
ExpectedNoCrc == 3 + 1 * 2

\* expected_response in read_input_registers.
Expected == 3 + 1 * 2 + 2

\* What receive_response, read_input_registers and the catch clause make of the
\* bytes that read() returned: fewer than 4, a wrong CRC and an exception are
\* errors; the slave address is not looked at.
NodeStateOf(bytes) ==
  IF /\ Len(bytes) = Expected
     /\ bytes = Bytes(bytes[1].of)
     /\ bytes[1].of.kind = "data"
    THEN [status |-> "NODE_ONLINE", hi |-> bytes[4], lo |-> bytes[5]]
    ELSE Error


\* read() returns when the expected bytes are there or at its time-out.
ReadResponse ==
  LET n == IF Len(line) < Expected THEN Len(line) ELSE Expected IN
    /\ pc = "read"
    /\ Report(NodeStateOf(SubSeq(line, 1, n)))
    /\ line' = SubSeq(line, n + 1, Len(line))
    /\ IF wire = <<>>
         THEN UNCHANGED <<late, healthy>>
         ELSE /\ late < MaxLate /\ late' = late + 1
              /\ healthy' = healthy \ {slave}
    /\ UNCHANGED <<round, wire, published, noise, behind>>

\* mqtt_.publish; the result is not looked at.
PublishPayload ==
  /\ pc = "publish"
  /\ pc' = "idle"
  /\ published' = [round |-> round, nodes |-> nodes]
  /\ UNCHANGED <<round, slave, nodes, busVars, healthy, pastVars>>

\* The payload cannot be serialised: nothing is published.
SerializeFails ==
  /\ pc = "publish"
  /\ pc' = "idle"
  /\ UNCHANGED <<round, slave, nodes, busVars, published, healthy, pastVars>>

\* The port throws SerialPortError, which is no ModbusException: the call ends
\* without a payload, and an answer may still be under way.
PortFails ==
  /\ pc \in {"send", "read"}
  /\ late < MaxLate /\ late' = late + 1
  /\ pc' = "idle"
  /\ UNCHANGED <<round, slave, nodes, busVars, published, healthy, noise, behind>>

\* The bound on the rounds.
Done == pc = "idle" /\ round = MaxRounds /\ wire = <<>> /\ UNCHANGED vars

Next ==
  \/ Arrive \/ Noise \/ Begin \/ SendRequest \/ SendShort \/ ReadResponse
  \/ PublishPayload \/ SerializeFails \/ PortFails \/ Done

Spec == Init /\ [][Next]_vars

-----------------------------------------------------------------------------
(* Properties                                                              *)

Online(k) == nodes[k].status = "NODE_ONLINE"

\* The answer of slave k to this round's request.
Own(k) == [from |-> k, kind |-> "data", round |-> round]

\* While no byte is left over from an earlier exchange, faults are isolated: a
\* slave that answers in time is reported with its own fresh counter, whatever
\* the slaves before it did, and nobody else's counter is ever reported for it.
FaultsIsolated ==
  ~behind =>
    \A k \in DOMAIN nodes :
      /\ k \in healthy => Online(k)
      /\ Online(k) => nodes[k].hi.of = Own(k)

\* The answer to a request that was sent earlier.
Before(a, b) == a.round < b.round \/ (a.round = b.round /\ a.from < b.from)

\* The last payload and what has been reported since.
Reports == IF published.round < round THEN published.nodes \o nodes ELSE nodes


\* A disturbance is not amplified: at a request, no more is left over than the
\* late answers and the stray bytes there were.  The types are part of it.
BacklogBounded ==
  /\ TypeOK
  /\ pc = "send" => Len(wire) + Len(line) <= 7 * late + noise

\* TelemetryOrchestrator.hpp: "the healthy nodes carry their real register
\* values": a node that is published as online carries its own counter.
NodesCarryTheirOwn ==
  \A k \in DOMAIN published.nodes :
    published.nodes[k].status = "NODE_ONLINE" => published.nodes[k].hi.of.from = k
=============================================================================
