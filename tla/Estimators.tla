----------------------------- MODULE Estimators -----------------------------
(***************************************************************************)
(* congestion.go: what the controller learns from the acks besides the     *)
(* bytes.  A duration is a number of nanoseconds; rttVarianceMicros is a   *)
(* number of microseconds, and rtt, a Duration, is given one as well.      *)
(***************************************************************************)
EXTENDS Integers

CONSTANTS Kilo,           \* nanoseconds in a microsecond, 1000 in the code
          DelayWindow     \* how long a delay is remembered

ASSUME EstimatorsAssumption == Kilo \in Nat \ {0} /\ DelayWindow \in Nat

Micros(d) == d \div Kilo
Millis(d) == d \div (Kilo * Kilo)

AtLeastZero(x) == IF x < 0 THEN 0 ELSE x
Distance(x, y) == IF x < y THEN y - x ELSE x - y
\* float64 division and int64(...): the fraction is cut off.
Quotient(x, n) == IF x < 0 THEN -((-x) \div n) ELSE x \div n

computeRTTAdjustment(rttMicros, packetRTTMicros) ==
  Quotient(packetRTTMicros - rttMicros, 8)
computeRTTVarianceAdjustment(rttMicros, rttVarianceMicros, packetRTTMicros) ==
  Quotient(Distance(rttMicros, packetRTTMicros) - rttVarianceMicros, 4)

newEstimate == [rtt |-> 0, rttVarianceMicros |-> 0]

\* OnAck for a packet that was transmitted once.
Sample(est, packetRTT) ==
  LET variance == computeRTTVarianceAdjustment(Micros(est.rtt), est.rttVarianceMicros,
                                               Micros(packetRTT))
      mean     == computeRTTAdjustment(Micros(est.rtt), Micros(packetRTT))
  IN  [rtt |-> AtLeastZero(Millis(est.rtt) + mean),
       rttVarianceMicros |-> AtLeastZero(est.rttVarianceMicros + variance)]

\* What applyTimeoutAdjustment brings within the bounds.
EstimatedTimeout(est) == est.rtt + 4 * est.rttVarianceMicros

-----------------------------------------------------------------------------
(* delayAccumulator: a heap of delays, the least on top.                   *)

Push(delays, value, receivedAt) ==
  delays \cup {[Value |-> value, Deadline |-> receivedAt + DelayWindow]}

\* Delays of equal value may come off the heap in either order: the value returned
\* is the same.
Top(delays) == CHOOSE d \in delays : \A e \in delays : d.Value <= e.Value

\* BaseDelay pops from the top what has expired, up to the first that has not: an
\* expired delay that is not less than that one stays.
\* Mutant: one delay at most is popped.
PoppedOnce(delays, now) ==
  IF delays # {} /\ now > Top(delays).Deadline THEN delays \ {Top(delays)} ELSE delays
Popped(delays, now) ==
  {d \in delays : \E e \in delays : e.Value <= d.Value /\ ~(now > e.Deadline)}

BaseDelay(delays, now) ==
  LET left == Popped(delays, now)
  IN  IF left = {} THEN 0 ELSE Top(left).Value
=============================================================================
