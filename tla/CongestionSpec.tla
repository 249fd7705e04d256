--------------------------- MODULE CongestionSpec ---------------------------
(***************************************************************************)
(* The controller driven the way sent_packet.go drives it: packets SeqNums *)
(* are transmitted once each within the window and retransmitted any       *)
(* number of times, acknowledged in any order and repeatedly, declared     *)
(* lost, timed out.  An error from OnTransmit makes the caller panic.      *)
(* The base delay and the estimate of the timeout are any: EstimatorsSpec  *)
(* computes them.                                                          *)
(***************************************************************************)
EXTENDS Congestion

CONSTANTS PacketNums,   \* the sequence numbers in use
          Sizes,        \* payload lengths; a FIN has length 0
          Delays,       \* one-way delays the peer can report
          Estimates     \* values of rtt + 4 * variance

ASSUME EnvironmentAssumption ==
  /\ IsFiniteSet(PacketNums)
  /\ Sizes \subseteq Nat
  /\ Delays \subseteq Nat
  /\ Estimates \subseteq Nat

VARIABLES cc,        \* the controller
          panicked   \* sentPackets.OnTransmit panicked: the process is gone

vars == <<cc, panicked>>

TypeOK ==
  /\ DOMAIN cc = {"timeout", "windowSizeBytes", "maxWindowSizeBytes", "transmissions"}
  /\ cc.timeout \in Nat /\ cc.windowSizeBytes \in Nat /\ cc.maxWindowSizeBytes \in Nat
  /\ DOMAIN cc.transmissions \subseteq PacketNums
  /\ cc.transmissions \in [DOMAIN cc.transmissions -> packetRecord]
  /\ panicked \in BOOLEAN

Init == cc = newDefaultController /\ panicked = FALSE

\* A packet's first transmission: its length is within Window() (the caller
\* checks that first), and the controller checks again.
Transmit(s, len) ==
  /\ ~panicked
  /\ s \notin DOMAIN cc.transmissions
  /\ len <= BytesAvailableInWindow(cc)
  /\ cc' = OnTransmit(cc, s, TRUE, len)
  /\ panicked' = (TransmitError(cc, s, TRUE, len) # "none")

Retransmit(s) ==
  /\ ~panicked
  /\ s \in DOMAIN cc.transmissions
  /\ cc' = OnTransmit(cc, s, FALSE, cc.transmissions[s].SizeBytes)
  /\ panicked' = (TransmitError(cc, s, FALSE, cc.transmissions[s].SizeBytes) # "none")

\* BaseDelay is the least delay in the accumulator, this packet's included.
Ack(s, delay, base, estimate) ==
  /\ ~panicked
  /\ s \in DOMAIN cc.transmissions
  /\ base <= delay
  /\ \E adj \in computeMaxWindowSizeAdjustment(cc, base, delay, cc.transmissions[s].SizeBytes) :
       cc' = OnAck(cc, {s}, adj, estimate)
  /\ UNCHANGED panicked

\* DetectLostPackets only finds unacknowledged packets; the only caller passes
\* retransmitting = true.
Lost(s) ==
  /\ ~panicked
  /\ s \in DOMAIN cc.transmissions
  /\ ~cc.transmissions[s].Acked
  /\ cc' = OnLostPacket(cc, s, TRUE)
  /\ UNCHANGED panicked

Timeout ==
  /\ ~panicked
  /\ cc' = OnTimeout(cc)
  /\ UNCHANGED panicked

Next ==
  \/ \E s \in PacketNums :
       \/ \E len \in Sizes : Transmit(s, len)
       \/ Retransmit(s)
       \/ \E delay, base \in Delays, estimate \in Estimates : Ack(s, delay, base, estimate)
       \/ Lost(s)
  \/ Timeout

Spec == Init /\ [][Next]_vars

-----------------------------------------------------------------------------

\* windowSizeBytes is at every moment the number of bytes transmitted and not
\* acknowledged: retransmissions, repeated acks, losses and timeouts neither
\* count a byte twice nor give it back twice, so the uint32 never wraps.
WindowIsInFlight ==
  ~panicked => cc.windowSizeBytes = InFlight(cc.transmissions, DOMAIN cc.transmissions)

\* When nothing is in flight the controller lets at least one full packet out,
\* whatever losses and delays came before: the window never starves a sender.
IdleSenderCanSend ==
  cc.windowSizeBytes = 0 => BytesAvailableInWindow(cc) >= MaxPacketSizeBytes

\* The retransmission timeout stays between its configured bounds through
\* doubling and through RTT samples.
TimeoutBounded == MinTimeout <= cc.timeout /\ cc.timeout <= MaxTimeout

\* A step that puts bytes in flight leaves them within the window of that
\* moment (a window that shrinks later may be exceeded, never extended into).
AdmissionRespected ==
  [][cc'.windowSizeBytes > cc.windowSizeBytes =>
       cc'.windowSizeBytes <= cc'.maxWindowSizeBytes]_vars
=============================================================================
