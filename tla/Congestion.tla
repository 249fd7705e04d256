----------------------------- MODULE Congestion -----------------------------
(***************************************************************************)
(* congestion.go: the LEDBAT-style controller.  It counts the bytes in     *)
(* flight, bounds them by a window that acks widen and losses narrow, and  *)
(* keeps the retransmission timeout.  Every operator maps the controller's *)
(* record to a value or to the next record.  Times are in abstract units;  *)
(* the base delay and the estimate of the timeout come from Estimators.    *)
(***************************************************************************)
EXTENDS Transmissions

CONSTANTS MaxPacketSizeBytes, MaxWindowSizeIncBytes, TargetDelayMicros,
          InitialTimeout, MinTimeout, MaxTimeout,
          Uint32Space           \* 2^32 in the code

ASSUME ControllerAssumption ==
  /\ MaxPacketSizeBytes \in Nat \ {0}
  /\ MaxWindowSizeIncBytes \in Nat
  /\ TargetDelayMicros \in Nat \ {0}
  /\ MinTimeout \in Nat /\ InitialTimeout \in Nat /\ MaxTimeout \in Nat
  /\ MinTimeout <= InitialTimeout /\ InitialTimeout <= MaxTimeout
  /\ Uint32Space \in Nat

minWindowSizeBytes == 2 * MaxPacketSizeBytes

newDefaultController ==
  [timeout |-> InitialTimeout, windowSizeBytes |-> 0,
   maxWindowSizeBytes |-> 2 * MaxPacketSizeBytes, transmissions |-> << >>]

BytesAvailableInWindow(cc) ==
  IF cc.maxWindowSizeBytes > cc.windowSizeBytes
  THEN cc.maxWindowSizeBytes - cc.windowSizeBytes ELSE 0

\* The error OnTransmit returns.  An initial transmission is checked against
\* the window whatever its length, a FIN's 0 bytes included.
TransmitError(cc, seqNum, initial, dataLen) ==
  LET known == seqNum \in DOMAIN cc.transmissions
      fits  == cc.windowSizeBytes + dataLen <= cc.maxWindowSizeBytes
  IN  CASE initial /\ known           -> "DuplicateTransmission"
        [] ~initial /\ ~known         -> "UnknownSeqNum"
        [] initial /\ ~known /\ ~fits -> "InsufficientWindowSize"
        [] OTHER                      -> "none"

\* Mutant: a retransmission counts as bytes in flight once more.
OnTransmitCountsAgain(cc, seqNum, initial, dataLen) ==
  LET tx  == cc.transmissions
      new == [SizeBytes |-> dataLen, NumTransmissions |-> IF initial THEN 1 ELSE 2, Acked |-> FALSE]
  IN  [cc EXCEPT
         !.transmissions = [s \in DOMAIN tx \cup {seqNum} |-> IF s = seqNum THEN new ELSE tx[s]],
         !.windowSizeBytes = @ + dataLen]

\* OnTransmit.  The record is stored before the window is checked.
OnTransmit(cc, seqNum, initial, dataLen) ==
  LET err == TransmitError(cc, seqNum, initial, dataLen)
      tx  == cc.transmissions
      new == [SizeBytes |-> dataLen, NumTransmissions |-> 1, Acked |-> FALSE]
  IN  IF err \in {"DuplicateTransmission", "UnknownSeqNum"} THEN cc
      ELSE IF initial
      THEN [cc EXCEPT
              !.transmissions = [s \in DOMAIN tx \cup {seqNum} |->
                                   IF s = seqNum THEN new ELSE tx[s]],
              !.windowSizeBytes = IF err = "none" THEN @ + dataLen ELSE @]
      ELSE [cc EXCEPT
              !.transmissions = [tx EXCEPT ![seqNum].NumTransmissions = 2]]

\* computeMaxWindowSizeAdjustment, gain 1.  0.0/0.0 (a FIN acknowledged with
\* nothing else in flight) converts to an int64 that the processor chooses: 0,
\* or the least int64, which no window survives.
Trunc(a, b) == IF a >= 0 THEN a \div b ELSE -((-a) \div b)
computeMaxWindowSizeAdjustment(cc, base, delay, size) ==
  IF cc.windowSizeBytes = 0
  THEN {0, -cc.maxWindowSizeBytes}
  ELSE {Trunc(MaxWindowSizeIncBytes * (TargetDelayMicros - (delay - base)) * size,
              TargetDelayMicros * cc.windowSizeBytes)}

\* Mutant: no lower bound.
applyMaxWindowNoFloor(max, adj, calls) ==
  IF max + adj < max + calls * MaxWindowSizeIncBytes
  THEN max + adj ELSE max + calls * MaxWindowSizeIncBytes

\* applyMaxWindowSizeAdjustment, for calls calls that adjust by adj in all.
applyMaxWindowSizeAdjustment(max, adj, calls) ==
  LET low == IF max + adj < minWindowSizeBytes THEN minWindowSizeBytes ELSE max + adj
      cap == max + calls * MaxWindowSizeIncBytes
  IN  IF low < cap THEN low ELSE cap

applyTimeoutAdjustment(estimate) ==
  LET low == IF estimate < MinTimeout THEN MinTimeout ELSE estimate
  IN  IF low < MaxTimeout THEN low ELSE MaxTimeout

\* The OnAck calls for the packets S, all known: an acknowledged one is left
\* alone, an RTT is taken only from a packet transmitted once.
Uint32Minus(a, b) == IF a >= b THEN a - b ELSE a - b + Uint32Space
\* Mutant: a repeated ack gives the bytes back again.
OnAckRepeats(cc, S, adj, estimate) ==
  [cc EXCEPT
     !.transmissions = [s \in DOMAIN @ |-> [@[s] EXCEPT !.Acked = @ \/ s \in S]],
     !.windowSizeBytes = Uint32Minus(@, Bytes([s \in S |-> cc.transmissions[s].SizeBytes])),
     !.timeout = applyTimeoutAdjustment(estimate)]
OnAck(cc, S, adj, estimate) ==
  LET tx    == cc.transmissions
      newly == {s \in S : ~tx[s].Acked}
  IN  [cc EXCEPT
         !.transmissions = [s \in DOMAIN tx |->
                              IF s \in newly THEN [tx[s] EXCEPT !.Acked = TRUE] ELSE tx[s]],
         !.maxWindowSizeBytes =
            IF newly = {} THEN @ ELSE applyMaxWindowSizeAdjustment(@, adj, Cardinality(newly)),
         !.windowSizeBytes = Uint32Minus(@, InFlight(tx, S)),
         !.timeout = IF \E s \in newly : tx[s].NumTransmissions = 1
                     THEN applyTimeoutAdjustment(estimate) ELSE @]

\* A loss halves the window, down to its least size.
lostWindow(max) ==
  IF max \div 2 < minWindowSizeBytes THEN minWindowSizeBytes ELSE max \div 2
OnLostPacket(cc, seqNum, retransmitting) ==
  [cc EXCEPT
     !.maxWindowSizeBytes = lostWindow(@),
     !.windowSizeBytes = IF retransmitting THEN @
                         ELSE Uint32Minus(@, cc.transmissions[seqNum].SizeBytes)]

OnTimeout(cc) ==
  [cc EXCEPT !.maxWindowSizeBytes = minWindowSizeBytes,
             !.timeout = IF @ * 2 < MaxTimeout THEN @ * 2 ELSE MaxTimeout]
=============================================================================
