--------------------------- MODULE SentPacketsSpec ---------------------------
(***************************************************************************)
(* sentPackets between the connection that calls it and a peer that        *)
(* receives the packets in any order.  The peer acknowledges what it holds *)
(* at some moment; its acks may be lost, reordered and handled repeatedly. *)
(***************************************************************************)
EXTENDS SentPackets

CONSTANTS InitSeqNum, MaxPackets, MaxAcks,
          DataLens,      \* payload lengths of st_data packets
          Adjustments,   \* what one ack does to the window, in bytes
          Estimates      \* rtt + 4 * variance after an ack

ASSUME InitSeqNumAssumption == InitSeqNum \in SeqNums
\* Beyond one turn of the circle a number no longer names one packet.
ASSUME BoundAssumption == MaxPackets \in Nat /\ MaxPackets < SeqSpace - 2 /\ MaxAcks \in Nat
ASSUME InputAssumption ==
  DataLens \subseteq Nat \ {0} /\ Adjustments \subseteq Int /\ Estimates \subseteq Nat

VARIABLES sp,        \* the sentPackets
          panicked,  \* OnTransmit panicked: the process is gone
          recvd,     \* the places the peer has received
          acks,      \* the peer's acks in the network
          heard      \* history: places named by acks that were handled

vars == <<sp, panicked, recvd, acks, heard>>

Places == DOMAIN sp.packets
Ackeds == {i \in Places : sp.packets[i].acked}

Init ==
  /\ sp = newSentPackets(InitSeqNum)
  /\ panicked = FALSE
  /\ recvd = {} /\ acks = {} /\ heard = {}

FinSent == \E i \in Places : sp.packets[i].packetType = "st_fin"
Zeros(n) == [i \in 1..n |-> 0]

\* transmit of the next packet: of data within the window (processWrites), or
\* of the FIN (shutdown), for which nobody looks at the window.
SendNext(packetType, data) ==
  /\ ~panicked /\ ~FinSent
  /\ Len(sp.packets) < MaxPackets
  /\ panicked' = TransmitPanics(sp, NextSeqNum(sp), data)
  /\ sp' = OnTransmit(sp, NextSeqNum(sp), packetType, data)
  /\ UNCHANGED <<recvd, acks, heard>>
SendData(len) == len <= Window(sp) /\ SendNext("st_data", Zeros(len))
SendFin == SendNext("st_fin", << >>)

\* retransmitLostPackets: the OnTransmit calls for the lost packets.  Of a number
\* it knows, OnTransmit only has the controller count the transmission.
RetransmitLost(s) ==
  [s EXCEPT !.congestionCtrl.transmissions =
     [n \in DOMAIN @ |-> IF n \in s.lostPackets THEN [@[n] EXCEPT !.NumTransmissions = 2]
                                                ELSE @[n]]]

\* onTimeout for packet i: timers are not always stopped by an ack, so i may be
\* acknowledged.  backoff: the previous timeout is long enough ago.
Expire(i, backoff) ==
  LET s == IF backoff THEN OnTimeout(sp) ELSE sp
      p == sp.packets[i]
  IN  /\ ~panicked
      /\ panicked' = TransmitPanics(s, SeqNumOf(s, i), p.data)
      /\ sp' = OnTransmit(s, SeqNumOf(s, i), p.packetType, p.data)
      /\ UNCHANGED <<recvd, acks, heard>>

\* The peer: it receives packet i, and acknowledges all it holds.
Receive(i) ==
  /\ ~panicked
  /\ recvd' = recvd \cup {i}
  /\ UNCHANGED <<sp, panicked, acks, heard>>
InOrder == Cardinality({i \in recvd : 1..i \subseteq recvd})
SendAck ==
  LET beyond == {i \in recvd : i > InOrder}
      ack    == [ackNum |-> Add(InitSeqNum, InOrder),
                 sack   |-> IF beyond = {} THEN Nil ELSE {i - InOrder - 2 : i \in beyond}]
  IN  /\ ~panicked
      /\ Cardinality(acks) < MaxAcks
      /\ acks' = acks \cup {ack}
      /\ UNCHANGED <<sp, panicked, recvd, heard>>
LoseAck(a) ==
  /\ ~panicked
  /\ acks' = acks \ {a}
  /\ UNCHANGED <<sp, panicked, recvd, heard>>

\* processAck and retransmitLostPackets of onPacket.
Named(a) ==
  IF a.ackNum = InitSeqNum THEN {}
  ELSE 1..Index(sp, a.ackNum) \cup
       IF a.sack = Nil THEN {} ELSE {Index(sp, a.ackNum) + 2 + i : i \in a.sack}
HandleAck(a, adj, estimate) ==
  LET s == OnAck(sp, a.ackNum, a.sack, adj, estimate)
  IN  /\ ~panicked
      /\ panicked' = \E n \in s.lostPackets :
                        TransmitPanics(s, n, s.packets[Index(s, n)].data)
      /\ sp' = RetransmitLost(s)
      /\ heard' = heard \cup Named(a)
      /\ UNCHANGED <<recvd, acks>>

Next ==
  \/ \E len \in DataLens : SendData(len)
  \/ SendFin
  \/ \E i \in Places, backoff \in BOOLEAN : Expire(i, backoff)
  \/ \E i \in Places : Receive(i)
  \/ SendAck
  \/ \E a \in acks : LoseAck(a)
  \/ \E a \in acks, adj \in Adjustments, estimate \in Estimates : HandleAck(a, adj, estimate)

Spec == Init /\ [][Next]_vars

-----------------------------------------------------------------------------

\* sentPackets and its controller keep the same books: the same numbers, the
\* same packets acknowledged, the same lengths, and windowSizeBytes is what
\* is unacknowledged.
BooksAgree ==
  LET cc == sp.congestionCtrl
      tx == cc.transmissions
  IN  /\ DOMAIN tx = {SeqNumOf(sp, i) : i \in Places}
      /\ \A i \in Places :
           /\ tx[SeqNumOf(sp, i)].Acked = sp.packets[i].acked
           /\ tx[SeqNumOf(sp, i)].SizeBytes = Len(sp.packets[i].data)
      /\ ~panicked => cc.windowSizeBytes = Ctrl!InFlight(tx, DOMAIN tx)

\* A packet is presumed lost only while it is unacknowledged and LossThreshold
\* packets sent after it were acknowledged: a late ack takes it off the list,
\* so retransmitLostPackets does not resend what has arrived.
LostJustified ==
  \A n \in sp.lostPackets :
    /\ Index(sp, n) \in Places \ Ackeds
    /\ Cardinality({i \in Ackeds : i > Index(sp, n)}) >= LossThreshold

\* Whatever the order in which acks and selective acks are handled, and however
\* old they are, a packet is taken for delivered only if the peer has it.
AckedWereReceived == Ackeds \subseteq recvd

\* Nothing an ack said is lost: every packet it covers, by its number or by a
\* bit, is acknowledged from then on, although OnAckNum leaves early when
\* FirstUnackedSeqNum reports that nothing is left.  (An ack of initSeqNum is
\* the exception onAck makes.)
HeardIsAcked == heard \subseteq Ackeds

\* No ack the peer really sent, however stale, is outside the range that onAck
\* accepts: such an ack makes processAck reset the connection.
StaleAckNeverResets ==
  \A a \in acks : OnAckError(sp, a.ackNum, a.sack) # "InvalidAckNum"

\* A packet, once sent, keeps its data and type and stays acknowledged once it
\* is: retransmissions and losses rewrite nothing.
SentForever ==
  [][\A i \in Places : /\ i \in Places'
                       /\ sp'.packets[i].data = sp.packets[i].data
                       /\ sp'.packets[i].packetType = sp.packets[i].packetType
                       /\ sp.packets[i].acked => sp'.packets[i].acked]_vars

\* sentPackets.OnTransmit checks the length against the window "for new
\* transmissions" and panics on any error of the controller: the connection,
\* which sizes its packets by Window(), never gets there.
TransmitNeverPanics == ~panicked
=============================================================================
