-------------------------- MODULE ReceiveBufferSpec --------------------------
(***************************************************************************)
(* The receive buffer driven by its environment: the peer's packets 1..N   *)
(* arrive in any order, any number of times, and the connection reads the  *)
(* buffer at any moment.  Packet k carries sequence number InitSeqNum + k  *)
(* and PayloadLen[k] bytes; a FIN carries none.                            *)
(***************************************************************************)
EXTENDS ReceiveBuffer

CONSTANTS InitSeqNum,   \* the number of the peer's SYN (or of its SYN's answer)
          Packets,      \* how many packets the peer sends
          PayloadLen,   \* their lengths
          ReadSizes     \* the len(buf) that Read is called with

ASSUME InitSeqNumAssumption == InitSeqNum \in SeqNums
\* uint16 numbers tell the packets apart only below one turn of the circle.
ASSUME PacketsAssumption == Packets \in Nat /\ Packets < SeqSpace
ASSUME PayloadLenAssumption == PayloadLen \in [1..Packets -> Nat]
ASSUME ReadSizesAssumption == ReadSizes \subseteq Nat \ {0}

VARIABLES rb,    \* the receiveBuffer
          read   \* history: every byte Read has returned, in order

vars == <<rb, read>>

Payload(k) == [i \in 1..PayloadLen[k] |-> <<k, i>>]

TypeOK ==
  /\ DOMAIN rb = {"buf", "offset", "pending", "initSeqNum", "consumed"}
  /\ rb.offset \in Nat
  /\ rb.consumed \in SeqNums
  /\ rb.initSeqNum = InitSeqNum
  /\ DOMAIN rb.pending \subseteq SeqNums
  /\ \A s \in DOMAIN rb.pending : Len(rb.pending[s]) \in Nat

Init == rb = newReceiveBuffer(InitSeqNum) /\ read = << >>

\* onData / onFin hand the payload of packet k to the buffer.
Receive(k) ==
  /\ rb' = Write(rb, Payload(k), Add(InitSeqNum, k))
  /\ UNCHANGED read

\* processReads takes the next bytes out.
ReadNext(n) ==
  /\ ~IsEmpty(rb)
  /\ rb' = Read(rb, n)
  /\ read' = read \o ReadBytes(rb, n)

Next == (\E k \in 1..Packets : Receive(k)) \/ (\E n \in ReadSizes : ReadNext(n))

Spec == Init /\ [][Next]_vars

-----------------------------------------------------------------------------
(* What the buffer promises.                                               *)

\* The bytes in order and the out-of-order bytes together fit in the buffer,
\* whatever arrives: Available() is never negative, so the uint32 window that
\* statePacket advertises never wraps to a huge one.
CapacityRespected == rb.offset + Held(rb.pending) <= BufferSize

\* After every Write the drain loop has gone as far as it can: the packet that
\* AckNum waits for is not sitting in pending (which would stall the stream,
\* since a duplicate of it is refused by WasWritten).
DrainComplete == Add(AckNum(rb), 1) \notin DOMAIN rb.pending

\* What was read and what is ready to be read is exactly the payloads of the
\* packets AckNum acknowledges, each once, in the order they were sent.
InOrderExactlyOnce ==
  read \o rb.buf = Joined([k \in 1..rb.consumed |-> Payload(k)])

\* The bits SelectiveAck sets (position 0 is AckNum + 2) name exactly the
\* packets held in pending: the sender is never told of one that is missing.
SelectiveAckExact ==
  SelectiveAck(rb) # Nil =>
    {Add(Add(AckNum(rb), 2), i) : i \in SelectiveAck(rb)} = DOMAIN rb.pending

\* A packet once accepted is never forgotten: neither a drain nor a read makes
\* WasWritten false again, so a late duplicate cannot be delivered twice.
AcceptedForever ==
  [][\A s \in SeqNums : WasWritten(rb, s) => WasWritten(rb', s)]_vars
=============================================================================
