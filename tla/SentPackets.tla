----------------------------- MODULE SentPackets -----------------------------
(***************************************************************************)
(* sent_packet.go: every packet one side has sent, which of them were      *)
(* acknowledged and which are presumed lost.  Every operator maps the      *)
(* record of a sentPackets to a value or to the next record.               *)
(*   packets         one record per sequence number from initSeqNum + 1 on *)
(*   lostPackets     the numbers presumed lost                             *)
(*   congestionCtrl  the controller (module Congestion)                    *)
(* acked stands for len(acks) > 0; the times are left out.                 *)
(***************************************************************************)
EXTENDS SeqNum, Sequences, FiniteSets

CONSTANTS MaxPacketSizeBytes, MaxWindowSizeIncBytes, TargetDelayMicros,
          InitialTimeout, MinTimeout, MaxTimeout, Uint32Space,
          LossThreshold,   \* LossThreshold
          Nil              \* a nil pointer, or "none"

ASSUME LossThresholdAssumption == LossThreshold \in Nat

Ctrl == INSTANCE Congestion

newSentPackets(initSeqNum) ==
  [packets |-> << >>, initSeqNum |-> initSeqNum, lostPackets |-> {},
   congestionCtrl |-> Ctrl!newDefaultController]

\* The number of packets[i], and the place of a number in packets.
SeqNumOf(sp, i) == (sp.initSeqNum + i) % SeqSpace
Index(sp, seqNum) == SeqNumIndex(sp.initSeqNum, seqNum) + 1

NextSeqNum(sp) == SeqNumOf(sp, Len(sp.packets) + 1)
Window(sp) == Ctrl!BytesAvailableInWindow(sp.congestionCtrl)
Timeout(sp) == sp.congestionCtrl.timeout
HasLostPackets(sp) == sp.lostPackets # {}
\* Mutant: the range starts at the first packet.
RangeFromFirst(sp, seqNum) ==
  RangeContains(SeqNumOf(sp, 1), SeqNumOf(sp, Len(sp.packets)), seqNum)
SeqNumRangeContains(sp, seqNum) ==
  RangeContains(sp.initSeqNum, SeqNumOf(sp, Len(sp.packets)), seqNum)

\* The packets of the acknowledged prefix, counted: LastAckNum is the number of
\* the last of them, FirstUnackedSeqNum that of the next one, if there is one.
AckedPrefix(sp) ==
  Cardinality({i \in DOMAIN sp.packets : \A j \in 1..i : sp.packets[j].acked})
LastAckNum(sp) == IF AckedPrefix(sp) = 0 THEN Nil ELSE SeqNumOf(sp, AckedPrefix(sp))
HasUnackedPackets(sp) == AckedPrefix(sp) < Len(sp.packets)

\* OnTransmit.  A number below NextSeqNum is a retransmission, and keeps the
\* type and the data of the first time.
IsRetransmission(sp, seqNum) == Index(sp, seqNum) <= Len(sp.packets)
TransmitPanics(sp, seqNum, data) ==
  LET again == IsRetransmission(sp, seqNum)
  IN  \/ Index(sp, seqNum) > Len(sp.packets) + 1
      \/ ~again /\ Len(data) > Window(sp)
      \/ Ctrl!TransmitError(sp.congestionCtrl, seqNum, ~again, Len(data)) # "none"
\* Mutant: a retransmission replaces the record of the packet.
OnTransmitReplaces(sp, seqNum, packetType, data) ==
  LET again == IsRetransmission(sp, seqNum)
      new   == [packetType |-> packetType, data |-> data, acked |-> FALSE]
  IN  [sp EXCEPT
         !.packets = IF again THEN [@ EXCEPT ![Index(sp, seqNum)] = new] ELSE Append(@, new),
         !.congestionCtrl = Ctrl!OnTransmit(@, seqNum, ~again, Len(data))]
OnTransmit(sp, seqNum, packetType, data) ==
  LET again == IsRetransmission(sp, seqNum)
      new   == [packetType |-> packetType, data |-> data, acked |-> FALSE]
  IN  [sp EXCEPT
         !.packets = IF again THEN @ ELSE Append(@, new),
         !.congestionCtrl = Ctrl!OnTransmit(@, seqNum, ~again, Len(data))]

\* Mutant: the controller does not hear of a packet that was lost.
AckSkipsLost(sp, S, adj, estimate) ==
  LET nums == {SeqNumOf(sp, i) : i \in S}
  IN  [sp EXCEPT
         !.packets = [i \in DOMAIN @ |-> IF i \in S THEN [@[i] EXCEPT !.acked = TRUE] ELSE @[i]],
         !.lostPackets = @ \ nums,
         !.congestionCtrl = Ctrl!OnAck(@, nums \ sp.lostPackets, adj, estimate)]
\* Mutant: a late ack leaves the packet on the list of lost ones.
AckKeepsLost(sp, S, adj, estimate) ==
  [sp EXCEPT
     !.packets = [i \in DOMAIN @ |-> IF i \in S THEN [@[i] EXCEPT !.acked = TRUE] ELSE @[i]],
     !.congestionCtrl = Ctrl!OnAck(@, {SeqNumOf(sp, i) : i \in S}, adj, estimate)]

\* The Ack calls for the packets at the places S.  adj and estimate are what
\* they do to the window and to the timeout (see Congestion).
Ack(sp, S, adj, estimate) ==
  LET nums == {SeqNumOf(sp, i) : i \in S}
  IN  [sp EXCEPT
         !.packets = [i \in DOMAIN @ |-> IF i \in S THEN [@[i] EXCEPT !.acked = TRUE] ELSE @[i]],
         !.lostPackets = @ \ nums,
         !.congestionCtrl = Ctrl!OnAck(@, nums, adj, estimate)]

\* Mutant: the first bit is taken for ackNum + 1.
SelectedFromNext(sp, ackNum, sack) ==
  {Index(sp, ackNum)} \cup
  IF sack = Nil THEN {}
  ELSE {Index(sp, Add(ackNum, 1 + i)) : i \in {b \in sack :
          \A c \in 0..b : SeqNumRangeContains(sp, Add(ackNum, 1 + c))}}

\* The places OnSelectiveAck marks: ackNum, and the set bits of sack up to the
\* first position that was never sent.
SelectedPlaces(sp, ackNum, sack) ==
  {Index(sp, ackNum)} \cup
  IF sack = Nil THEN {}
  ELSE {Index(sp, Add(ackNum, 2 + i)) : i \in {b \in sack :
          \A c \in 0..b : SeqNumRangeContains(sp, Add(ackNum, 2 + c))}}

\* Unacknowledged packets with LossThreshold acknowledged ones after them.
DetectLostPackets(sp) ==
  {i \in DOMAIN sp.packets :
     /\ ~sp.packets[i].acked
     /\ Cardinality({j \in DOMAIN sp.packets : j > i /\ sp.packets[j].acked})
          >= LossThreshold}

\* The loop of OnAckNum over the packets newly (or still) lost: each one halves
\* the window, OnLostPacket being told that it will be retransmitted.
OnLost(sp, S) ==
  LET window[n \in 0..Cardinality(S)] ==
        IF n = 0 THEN sp.congestionCtrl.maxWindowSizeBytes ELSE Ctrl!lostWindow(window[n - 1])
  IN  [sp EXCEPT !.lostPackets = @ \cup {SeqNumOf(sp, i) : i \in S},
                 !.congestionCtrl.maxWindowSizeBytes = window[Cardinality(S)]]

\* Mutant: what precedes ackNum is left to its own acks.
OnAckNumNoPrior(sp, ackNum, sack, adj, estimate) ==
  LET sp1 == Ack(sp, SelectedPlaces(sp, ackNum, sack), adj, estimate)
  IN  IF ~HasUnackedPackets(sp1) THEN sp1 ELSE OnLost(sp1, DetectLostPackets(sp1))

\* OnAckNum: the selected packets first, then what precedes ackNum, then the
\* losses.  With nothing unacknowledged left it stops at FirstUnackedSeqNum's
\* error, which onAck returns.
OnAckNum(sp, ackNum, sack, adj, estimate) ==
  LET selected == SelectedPlaces(sp, ackNum, sack)
      sp1      == Ack(sp, selected, adj, estimate)
      prior    == (AckedPrefix(sp1) + 1)..(Index(sp, ackNum) - 1)
      sp2      == Ack(sp, selected \cup prior, adj, estimate)
  IN  IF ~HasUnackedPackets(sp1) THEN sp1 ELSE OnLost(sp2, DetectLostPackets(sp2))

\* onAck's error.  A full turn of the circle (start = end) accepts any number.
OnAckError(sp, ackNum, sack) ==
  LET fullTurn == sp.packets # << >> /\ Len(sp.packets) % SeqSpace = 0
      allAcked == \A i \in DOMAIN sp.packets :
                    sp.packets[i].acked \/ i \in SelectedPlaces(sp, ackNum, sack)
  IN  CASE ~SeqNumRangeContains(sp, ackNum) /\ ~fullTurn -> "InvalidAckNum"
        [] ackNum # sp.initSeqNum /\ allAcked -> "NoneAckNum"
        [] OTHER -> "none"

\* onAck.  An ack of initSeqNum acknowledges nothing, its selective ack included.
OnAck(sp, ackNum, sack, adj, estimate) ==
  IF OnAckError(sp, ackNum, sack) = "InvalidAckNum" \/ ackNum = sp.initSeqNum
  THEN sp ELSE OnAckNum(sp, ackNum, sack, adj, estimate)

\* The numbers whose timers processAck may stop when onAck returns no error:
\* up to ackNum, and every set bit of sack, sent or not.
FullAckedContains(sp, ackNum, seqNum) == RangeContains(sp.initSeqNum, ackNum, seqNum)
SelectedAcks(ackNum, sack) ==
  IF sack = Nil THEN {} ELSE {Add(ackNum, 2 + i) : i \in sack}

OnTimeout(sp) == [sp EXCEPT !.congestionCtrl = Ctrl!OnTimeout(@)]
=============================================================================
